-------------------------- MODULE HistoryCapProofs --------------------------
(***************************************************************************)
(* Proofs about the files of History under the cap, for any number of      *)
(* peers, any cap, failures and restarts: the cap forgets the oldest       *)
(* rounds first, a capped file stays short, and only restarts make rounds  *)
(* fall.                                                                   *)
(*                                                                         *)
(* The first and the last hold with no cap as well.                        *)
(*                                                                         *)
(* What trimming does to a file is to keep some of its lines in order, to  *)
(* turn others into garbage, and to drop what was before them (Trims).     *)
(* What is left of a file keeps the order of its rounds and of the         *)
(* restarts between them (Keeps).                                          *)
(***************************************************************************)
EXTENDS HistoryFileProofs

\* A line that does not parse.
Bad(line) == line.role \in {"torn", "garbage"}

\* A file g that trimming makes of file f: h is the place of each line of f in
\* g, or not above 0 if the line was dropped.
TrimsBy(f, g, h) ==
    /\ h \in [DOMAIN f -> Int]
    /\ \A i, j \in DOMAIN f : i < j => h[i] < h[j]
    /\ \A i \in DOMAIN f : h[i] >= 1 =>
          h[i] \in DOMAIN g /\ (g[h[i]] = f[i] \/ g[h[i]] = BadLine("garbage"))
    /\ \A k \in DOMAIN g : \/ g[k] = BadLine("garbage")
                           \/ \E i \in DOMAIN f : h[i] = k /\ g[k] = f[i]

Trims(f, g) == \E h : TrimsBy(f, g, h)

\* The lines of a file up to round s end at a line that still bears witness of
\* it: the one that opens s, or one that makes the file unreadable.
Barred(f, s) ==
    \E j \in 0 .. Len(f) :
        /\ \A i \in DOMAIN f : \A q \in Nat : (q <= s /\ Opens(f[i], q)) => i <= j
        /\ j = 0 \/ Opens(f[j], s) \/ Bad(f[j])

\* So it is for every round that was acknowledged or is about to be.
ForgetInv ==
    \A p \in Peers :
        /\ \A a \in DOMAIN acks[p] : \A s \in acks[p][a].first .. acks[p][a].last :
              Barred(file[p], s)
        /\ (op # NoOp /\ op.peer = p) =>
              \A s \in op.first .. op.round :
                  \/ Barred(file[p], s)
                  \/ s = op.round /\ op.stage = "append" /\ op.kind # "inbound"

\* No operation writes more lines before its index is saved than a batch has
\* messages.
OpSize == op # NoOp => op.round - op.first + 1 + op.left <= ImportMax

\* Files without separators, where there are none in messages.
NoSeps ==
    TRUE \notin Separators => \A p \in Peers : \A i \in DOMAIN file[p] : ~file[p][i].seps

Lesser(a, b) == IF a < b THEN a ELSE b

\* Two lines for each of n rounds, but no more than the cap leaves, and what
\* failures and restarts may have left behind.
Room(n) == 2 * Lesser(n, MaxRounds) + ImportMax * (faults + crashes)

\* The length of a file: there is room for it by the saved index, but for the
\* lines of the operation in progress; and for these there will be by the index
\* in memory, and for a reply as well, once the file is trimmed.
LengthInv ==
    (MaxRounds > 0 /\ TRUE \notin Separators) =>
        \A p \in Peers :
            IF op = NoOp \/ op.peer # p
            THEN Len(file[p]) <= Room(idx[p].total)
            ELSE IF op.kind = "inbound" \/ op.stage = "context"
            THEN /\ Len(file[p]) <= Room(idx[p].total)
                 /\ op.stage # "save" => Len(file[p]) + 1 <= Room(idx[p].total)
            ELSE /\ op.stage = "append" =>
                      /\ Len(file[p]) <= Room(idx[p].total) + (op.round - op.first)
                      /\ Len(file[p]) <= Room(mem[p].total - 1)
                 /\ op.stage # "append" =>
                      Len(file[p]) <= Room(idx[p].total) + (op.round - op.first) + 1
                 /\ op.stage = "cap" => Len(file[p]) <= Room(mem[p].total - 1) + 1
                 /\ op.stage = "save" => Len(file[p]) + 1 <= Room(mem[p].total)

\* A line that opens a round.
Opening(line) == line.role \in {"outbound", "import"}

\* era tells before which restart each line of f was written, n restarts being
\* over: eras do not fall through the file, and within one the rounds rise.
Eras(f, n, era) ==
    /\ era \in [DOMAIN f -> 0 .. n]
    /\ \A i, j \in DOMAIN f : (i < j /\ Opening(f[i]) /\ Opening(f[j])) =>
          /\ era[i] <= era[j]
          /\ era[i] = era[j] => f[i].round < f[j].round

\* A line that opens a round of peer p is about to be written.
Writing(p) == op # NoOp /\ op.peer = p /\ op.stage = "append" /\ op.kind # "inbound"

\* The rounds of the last era are below the next one.
Fresh(p, era) ==
    \A i \in DOMAIN file[p] : (Opening(file[p][i]) /\ era[i] = crashes) =>
        /\ file[p][i].round <= mem[p].last
        /\ Writing(p) => file[p][i].round < mem[p].last

EraInv == \A p \in Peers : \E era : Eras(file[p], crashes, era) /\ Fresh(p, era)

-----------------------------------------------------------------------------
(* What trimming does *)

\* A file split at its separators keeps its other lines, in order.
LEMMA SplitTrims ==
    ASSUME NEW f \in Seq(Line)
    PROVE  \E h : /\ TrimsBy(f, SplitLines(f), h)
                  /\ \A i \in DOMAIN f : h[i] \in DOMAIN SplitLines(f)
<1> DEFINE splits == {i \in DOMAIN f : f[i].seps}
           before(i) == {j \in splits : j < i}
           place(i) == i + Cardinality(before(i))
           n == Len(f) + Cardinality(splits)
           whole(k) == \E i \in DOMAIN f \ splits : place(i) = k
           pick(k) == CHOOSE i \in DOMAIN f \ splits : place(i) = k
           at(k) == IF whole(k) THEN f[pick(k)] ELSE BadLine("garbage")
           h == [i \in DOMAIN f |-> place(i)]
           g == SplitLines(f)
<1>1. DOMAIN f = 1 .. Len(f) /\ Len(f) \in Nat
  BY FileLines
<1>2. IsFiniteSet(splits) /\ Cardinality(splits) \in Nat
  <2>1. IsFiniteSet(1 .. Len(f))
    BY <1>1, FS_Interval
  <2>2. splits \subseteq 1 .. Len(f)
    BY <1>1
  <2>3. IsFiniteSet(splits)
    BY <2>1, <2>2, FS_Subset
  <2> QED
    BY <2>3, FS_CardinalityType
<1>3. \A i \in DOMAIN f : /\ IsFiniteSet(before(i)) /\ Cardinality(before(i)) \in Nat
                          /\ Cardinality(before(i)) <= Cardinality(splits)
  <2> TAKE i \in DOMAIN f
  <2>1. before(i) \in SUBSET splits
    OBVIOUS
  <2> HIDE DEF splits, before
  <2>2. IsFiniteSet(before(i)) /\ Cardinality(before(i)) <= Cardinality(splits)
    BY <1>2, <2>1, FS_Subset
  <2> QED
    BY <2>2, FS_CardinalityType
<1>4. \A i, j \in DOMAIN f : i < j => Cardinality(before(i)) <= Cardinality(before(j))
  <2> SUFFICES ASSUME NEW i \in DOMAIN f, NEW j \in DOMAIN f, i < j
               PROVE  Cardinality(before(i)) <= Cardinality(before(j))
    OBVIOUS
  <2>1. before(i) \in SUBSET before(j)
    BY <1>1
  <2> HIDE DEF before
  <2> QED
    BY <1>3, <2>1, FS_Subset
<1>5. g = [k \in 1 .. n |-> at(k)]
  BY DEF SplitLines
<1> HIDE DEF before, splits, g
<1>6. \A i \in DOMAIN f : place(i) \in 1 .. n
  BY <1>1, <1>2, <1>3
<1>7. \A i, j \in DOMAIN f : i < j => place(i) < place(j)
  BY <1>1, <1>3, <1>4
<1>8. \A i \in DOMAIN f : place(i) \in Int
  BY <1>1, <1>3
<1> HIDE DEF place, n
<1>9. \A i, j \in DOMAIN f : place(i) = place(j) => i = j
  BY <1>1, <1>7, <1>8
<1>10. \A k : whole(k) => pick(k) \in DOMAIN f \ splits /\ place(pick(k)) = k
  OBVIOUS
<1>11. \A i \in DOMAIN f : at(place(i)) = f[i] \/ at(place(i)) = BadLine("garbage")
  <2> TAKE i \in DOMAIN f
  <2>1. CASE whole(place(i))
    <3>1. pick(place(i)) = i
      BY <1>9, <1>10, <2>1
    <3> QED
      BY <2>1, <3>1
  <2>2. CASE ~whole(place(i))
    BY <2>2
  <2> QED
    BY <2>1, <2>2
<1>12. \A k : at(k) = BadLine("garbage") \/ \E i \in DOMAIN f : place(i) = k /\ at(k) = f[i]
  <2> TAKE k
  <2>1. CASE whole(k)
    <3>1. pick(k) \in DOMAIN f /\ place(pick(k)) = k /\ at(k) = f[pick(k)]
      BY <1>10, <2>1
    <3> HIDE DEF pick, at
    <3> QED
      BY <3>1
  <2>2. CASE ~whole(k)
    BY <2>2
  <2> QED
    BY <2>1, <2>2
<1> HIDE DEF at, whole, pick
<1>13. DOMAIN g = 1 .. n /\ \A k \in 1 .. n : g[k] = at(k)
  BY <1>5
<1>14. h \in [DOMAIN f -> Int] /\ \A i \in DOMAIN f : h[i] = place(i)
  BY <1>8
<1> HIDE DEF h
<1>15. TrimsBy(f, g, h) /\ \A i \in DOMAIN f : h[i] \in DOMAIN g
  BY <1>6, <1>7, <1>11, <1>12, <1>13, <1>14 DEF TrimsBy
<1> QED
  BY <1>15 DEF g

\* A file without its first d lines.
LEMMA DropLines ==
    ASSUME NEW f \in Seq(Line), NEW d \in Nat, NEW g, g = SubSeq(f, d + 1, Len(f))
    PROVE  /\ g \in Seq(Line) /\ Len(g) = IF d < Len(f) THEN Len(f) - d ELSE 0
           /\ \A i \in DOMAIN f : i - d >= 1 => i - d \in DOMAIN g /\ g[i - d] = f[i]
           /\ \A k \in DOMAIN g : k + d \in DOMAIN f /\ g[k] = f[k + d]
<1>1. DOMAIN f = 1 .. Len(f) /\ Len(f) \in Nat /\ \A i \in 1 .. Len(f) : f[i] \in Line
  BY FileLines
<1>2. \A i \in d + 1 .. Len(f) : f[i] \in Line
  BY <1>1
<1>3. /\ g \in Seq(Line)
      /\ Len(g) = IF d + 1 <= Len(f) THEN Len(f) - (d + 1) + 1 ELSE 0
      /\ \A i \in 1 .. Len(f) - (d + 1) + 1 : g[i] = f[d + 1 + i - 1]
  BY <1>1, <1>2, SubSeqProperties
<1>4. DOMAIN g = 1 .. Len(g)
  BY <1>3
<1>5. Len(g) = IF d < Len(f) THEN Len(f) - d ELSE 0
  BY <1>1, <1>3
<1>6. \A n, e, i \in Nat : (i \in 1 .. n /\ i - e >= 1) =>
         /\ i - e \in 1 .. n - (e + 1) + 1 /\ e + 1 + (i - e) - 1 = i
         /\ i - e \in 1 .. IF e < n THEN n - e ELSE 0
  OBVIOUS
<1>7. \A n, e \in Nat : \A k \in 1 .. IF e < n THEN n - e ELSE 0 :
         k \in 1 .. n - (e + 1) + 1 /\ e + 1 + k - 1 = k + e /\ k + e \in 1 .. n
  OBVIOUS
<1>8. ASSUME NEW i \in DOMAIN f, i - d >= 1 PROVE i - d \in DOMAIN g /\ g[i - d] = f[i]
  <2>1. i \in Nat /\ i \in 1 .. Len(f)
    BY <1>1
  <2>2. /\ i - d \in 1 .. Len(f) - (d + 1) + 1 /\ d + 1 + (i - d) - 1 = i
        /\ i - d \in 1 .. Len(g)
    BY <1>1, <1>5, <1>6, <1>8, <2>1
  <2> QED
    BY <1>3, <1>4, <2>2
<1>9. ASSUME NEW k \in DOMAIN g PROVE k + d \in DOMAIN f /\ g[k] = f[k + d]
  <2>1. k \in 1 .. IF d < Len(f) THEN Len(f) - d ELSE 0
    BY <1>4, <1>5
  <2>2. k \in 1 .. Len(f) - (d + 1) + 1 /\ d + 1 + k - 1 = k + d /\ k + d \in 1 .. Len(f)
    BY <1>1, <1>7, <2>1
  <2> QED
    BY <1>1, <1>3, <2>2
<1> QED
  BY <1>3, <1>5, <1>8, <1>9

\* _enforce_cap trims.
LEMMA CapTrims ==
    ASSUME TypeOK, NEW p \in Peers
    PROVE  Trims(file[p], Trimmed(p))
<1> DEFINE f == file[p]
           g == Trimmed(p)
<1>1. f \in Seq(Line) /\ Excess(p) \in Nat
  BY CapType DEF TypeOK
<1>2. CASE Excess(p) = 0
  <2> DEFINE h == [i \in DOMAIN f |-> i]
  <2>1. g = f
    BY <1>2 DEF Trimmed
  <2>2. TrimsBy(f, f, h)
    BY <1>1, FileLines DEF TrimsBy
  <2> HIDE DEF h
  <2> QED
    BY <2>1, <2>2 DEF Trims
<1>3. CASE Excess(p) # 0
  <2> DEFINE sp == SplitLines(f)
             d == 2 * Excess(p)
  <2>1. g = SubSeq(sp, d + 1, Len(sp))
    BY <1>3 DEF Trimmed
  <2>2. sp \in Seq(Line) /\ d \in Nat
    BY <1>1, SplitLinesType
  <2> HIDE DEF f, g, sp, d
  <2>3. PICK h : TrimsBy(f, sp, h) /\ \A i \in DOMAIN f : h[i] \in DOMAIN sp
    BY <1>1, SplitTrims DEF sp
  <2>4. /\ \A i \in DOMAIN sp : i - d >= 1 => i - d \in DOMAIN g /\ g[i - d] = sp[i]
        /\ \A k \in DOMAIN g : k + d \in DOMAIN sp /\ g[k] = sp[k + d]
    BY <2>1, <2>2, DropLines
  <2> DEFINE e == [i \in DOMAIN f |-> h[i] - d]
  <2>5. e \in [DOMAIN f -> Int] /\ \A i \in DOMAIN f : h[i] \in Int /\ e[i] = h[i] - d
    BY <2>2, <2>3 DEF TrimsBy
  <2> HIDE DEF e
  <2>6. \A i, j \in DOMAIN f : i < j => e[i] < e[j]
    BY <2>2, <2>3, <2>5 DEF TrimsBy
  <2>7. ASSUME NEW i \in DOMAIN f, e[i] >= 1
        PROVE  e[i] \in DOMAIN g /\ (g[e[i]] = f[i] \/ g[e[i]] = BadLine("garbage"))
    <3>1. h[i] \in DOMAIN sp /\ h[i] >= 1 /\ h[i] - d >= 1
      BY <2>2, <2>3, <2>5, <2>7, FileLines
    <3>2. sp[h[i]] = f[i] \/ sp[h[i]] = BadLine("garbage")
      BY <2>3, <3>1 DEF TrimsBy
    <3> QED
      BY <2>4, <2>5, <3>1, <3>2
  <2>8. ASSUME NEW k \in DOMAIN g
        PROVE  g[k] = BadLine("garbage") \/ \E i \in DOMAIN f : e[i] = k /\ g[k] = f[i]
    <3>1. k + d \in DOMAIN sp /\ g[k] = sp[k + d] /\ k \in Int
      <4>1. g \in Seq(Line)
        BY <2>1, <2>2, DropLines
      <4> QED
        BY <2>4, <4>1, FileLines
    <3>2. sp[k + d] = BadLine("garbage") \/ \E i \in DOMAIN f : h[i] = k + d /\ sp[k + d] = f[i]
      BY <2>3, <3>1 DEF TrimsBy
    <3>3. \A i \in DOMAIN f : h[i] = k + d => e[i] = k
      BY <2>2, <2>5, <3>1
    <3> QED
      BY <3>1, <3>2, <3>3
  <2>9. TrimsBy(f, g, e)
    BY <2>5, <2>6, <2>7, <2>8 DEF TrimsBy
  <2> QED
    BY <2>9 DEF Trims, f, g
<1> QED
  BY <1>2, <1>3

\* What a step does to a file: nothing; or it appends the line of the operation
\* in progress, or half of it; or it trims.
LEMMA FileChange ==
    ASSUME TypeOK, [Next]_vars, NEW p \in Peers
    PROVE  /\ file[p] \in Seq(Line) /\ file'[p] \in Seq(Line)
           /\ \/ file'[p] = file[p]
              \/ /\ AppendLine /\ op # NoOp /\ op.peer = p /\ op.stage = "append"
                 /\ \E line \in Line : /\ line.round = op.round /\ line.role = op.kind
                                       /\ line.seps => TRUE \in Separators
                                       /\ file'[p] = Appended(file[p], line)
              \/ /\ op # NoOp /\ op.peer = p /\ op.stage = "append" /\ (Fault \/ Crash)
                 /\ file'[p] = Append(file[p], BadLine("torn"))
              \/ /\ EnforceCap /\ op # NoOp /\ op.peer = p /\ op.stage = "cap"
                 /\ file'[p] = Trimmed(p)
<1>1. TypeOK'
  BY TypeStep
<1>2. file[p] \in Seq(Line) /\ file'[p] \in Seq(Line)
  BY <1>1 DEF TypeOK
<1>3. CASE AppendLine
  <2>1. op # NoOp /\ op.peer \in Peers /\ op.stage = "append"
    BY <1>3, OpType DEF AppendLine
  <2>2. PICK s \in Separators :
          file' = [file EXCEPT ![op.peer] =
                      Appended(@, [round |-> op.round, role |-> op.kind,
                                   seps |-> s /\ op.kind # "inbound"])]
    BY <1>3 DEF AppendLine
  <2> DEFINE line == [round |-> op.round, role |-> op.kind,
                      seps |-> s /\ op.kind # "inbound"]
  <2>3. line \in Line /\ line.round = op.round /\ line.role = op.kind
    BY <2>1, OpType, HistoryAssumption DEF Line
  <2>4. line.seps => TRUE \in Separators
    <3>1. s \in BOOLEAN /\ (line.seps => s)
      BY HistoryAssumption
    <3>2. s => s = TRUE
      BY <3>1
    <3> QED
      BY <3>1, <3>2
  <2>5. file' = [file EXCEPT ![op.peer] = Appended(file[op.peer], line)]
    BY <2>2
  <2> HIDE DEF line
  <2>6. CASE p = op.peer
    <3>1. file'[p] = Appended(file[p], line)
      BY <2>5, <2>6 DEF TypeOK
    <3> QED
      BY <1>2, <1>3, <2>1, <2>3, <2>4, <2>6, <3>1
  <2>7. CASE p # op.peer
    BY <1>2, <2>5, <2>7 DEF TypeOK
  <2> QED
    BY <2>6, <2>7
<1>4. CASE EnforceCap
  <2>1. /\ op # NoOp /\ op.stage = "cap" /\ op.peer \in Peers
        /\ file' = [file EXCEPT ![op.peer] = Trimmed(op.peer)]
    BY <1>4, OpType DEF EnforceCap
  <2>2. file'[p] = IF p = op.peer THEN Trimmed(p) ELSE file[p]
    BY <2>1 DEF TypeOK
  <2> QED
    BY <1>2, <1>4, <2>1, <2>2
<1>5. CASE InterruptedFile /\ (Fault \/ Crash)
  <2>1. CASE op # NoOp /\ op.stage = "append" /\ op.peer = p
    <3>1. PICK f \in Interrupted(file[p]) : file' = [file EXCEPT ![p] = f]
      BY <1>5, <2>1 DEF InterruptedFile
    <3>2. file'[p] = f
      BY <3>1 DEF TypeOK
    <3> QED
      BY <1>2, <1>5, <2>1, <3>1, <3>2 DEF Interrupted
  <2>2. CASE ~(op # NoOp /\ op.stage = "append" /\ op.peer = p)
    BY <1>2, <1>5, <2>2 DEF InterruptedFile, TypeOK
  <2> QED
    BY <2>1, <2>2
<1>6. UNCHANGED file \/ AppendLine \/ EnforceCap \/ (InterruptedFile /\ (Fault \/ Crash))
  BY DEF Next, vars, RecordOutbound, ImportMessages, Open, ImportNothing,
         SaveIndex, ReadContext, Fault, Crash
<1> QED
  BY <1>2, <1>3, <1>4, <1>5, <1>6

-----------------------------------------------------------------------------
(* The cap forgets from the oldest on *)

\* Trimming keeps the bars.
LEMMA TrimKeepsBar ==
    ASSUME NEW f \in Seq(Line), NEW g \in Seq(Line), Trims(f, g), NEW s \in Nat, Barred(f, s)
    PROVE  Barred(g, s)
<1>1. PICK h : TrimsBy(f, g, h)
  BY DEF Trims
<1>2. PICK j \in 0 .. Len(f) :
        /\ \A i \in DOMAIN f : \A q \in Nat : (q <= s /\ Opens(f[i], q)) => i <= j
        /\ j = 0 \/ Opens(f[j], s) \/ Bad(f[j])
  BY DEF Barred
<1>3. /\ DOMAIN f = 1 .. Len(f) /\ Len(f) \in Nat
      /\ DOMAIN g = 1 .. Len(g) /\ Len(g) \in Nat
  BY FileLines
<1>4. \A r : ~Opens(BadLine("garbage"), r) /\ Bad(BadLine("garbage"))
  BY DEF Opens, Bad, BadLine
<1>5. ASSUME NEW k \in DOMAIN g, NEW q \in Nat, q <= s, Opens(g[k], q)
      PROVE  \E i \in DOMAIN f : h[i] = k /\ i <= j
  BY <1>1, <1>2, <1>4, <1>5 DEF TrimsBy
<1>6. CASE j # 0 /\ h[j] >= 1
  <2>1. j \in DOMAIN f
    BY <1>2, <1>3, <1>6
  <2>2. /\ h[j] \in DOMAIN g /\ h[j] \in 0 .. Len(g)
        /\ Opens(g[h[j]], s) \/ Bad(g[h[j]])
    BY <1>1, <1>2, <1>3, <1>4, <1>6, <2>1 DEF TrimsBy
  <2>3. \A i \in DOMAIN f : i <= j => h[i] <= h[j]
    BY <1>1, <1>3, <2>1 DEF TrimsBy
  <2>4. \A k \in DOMAIN g : \A q \in Nat : (q <= s /\ Opens(g[k], q)) => k <= h[j]
    BY <1>5, <2>3
  <2> QED
    BY <2>2, <2>4 DEF Barred
<1>7. CASE ~(j # 0 /\ h[j] >= 1)
  <2>1. \A i \in DOMAIN f : i <= j => h[i] < 1
    <3> SUFFICES ASSUME NEW i \in DOMAIN f, i <= j PROVE h[i] < 1
      OBVIOUS
    <3>1. j \in DOMAIN f /\ h[i] \in Int /\ h[j] \in Int
      BY <1>1, <1>2, <1>3 DEF TrimsBy
    <3>2. j # 0
      BY <1>3
    <3>3. h[i] <= h[j]
      BY <1>1, <1>3, <3>1 DEF TrimsBy
    <3> QED
      BY <1>7, <3>1, <3>2, <3>3
  <2>2. \A k \in DOMAIN g : \A q \in Nat : ~(q <= s /\ Opens(g[k], q))
    BY <1>3, <1>5, <2>1
  <2>3. 0 \in 0 .. Len(g)
    BY <1>3
  <2> QED
    BY <2>2, <2>3 DEF Barred
<1> QED
  BY <1>6, <1>7

\* So does a line behind the others that opens no older round, or half a line.
LEMMA AppendKeepsBar ==
    ASSUME NEW f \in Seq(Line), NEW line \in Line, NEW s \in Nat,
           ~EndsTorn(f), Barred(f, s), \A q \in Nat : q <= s => ~Opens(line, q)
    PROVE  Barred(Append(f, line), s)
<1> DEFINE g == Append(f, line)
<1>1. /\ g \in Seq(Line) /\ Len(g) = Len(f) + 1 /\ g[Len(g)] = line
      /\ \A i \in DOMAIN f : g[i] = f[i]
      /\ \A i \in DOMAIN g : i \in DOMAIN f \/ i = Len(g)
  BY LineAdded
<1> HIDE DEF g
<1>2. DOMAIN f = 1 .. Len(f) /\ Len(f) \in Nat
  BY FileLines
<1>3. PICK j \in 0 .. Len(f) :
        /\ \A i \in DOMAIN f : \A q \in Nat : (q <= s /\ Opens(f[i], q)) => i <= j
        /\ j = 0 \/ Opens(f[j], s) \/ Bad(f[j])
  BY DEF Barred
<1>4. j \in 0 .. Len(g) /\ (j # 0 => g[j] = f[j])
  BY <1>1, <1>2
<1>5. \A i \in DOMAIN g : \A q \in Nat : (q <= s /\ Opens(g[i], q)) => i <= j
  BY <1>1, <1>3
<1>6. j = 0 \/ Opens(g[j], s) \/ Bad(g[j])
  BY <1>3, <1>4
<1> QED
  BY <1>4, <1>5, <1>6 DEF Barred, g

\* And so does garbage in place of half a line.
LEMMA SpoilKeepsBar ==
    ASSUME NEW f \in Seq(Line), NEW s \in Nat, f # <<>>, Barred(f, s)
    PROVE  Barred([f EXCEPT ![Len(f)] = BadLine("garbage")], s)
<1> DEFINE g == [f EXCEPT ![Len(f)] = BadLine("garbage")]
<1>1. BadLine("garbage") \in Line /\ Bad(BadLine("garbage")) /\ \A q : ~Opens(BadLine("garbage"), q)
  BY BadLineType DEF Bad, BadLine, Opens
<1>2. /\ g \in Seq(Line) /\ Len(g) = Len(f) /\ DOMAIN g = DOMAIN f
      /\ g[Len(f)] = BadLine("garbage")
      /\ \A i \in DOMAIN f : i # Len(f) => g[i] = f[i]
  BY <1>1, LineReplaced
<1> HIDE DEF g
<1>3. DOMAIN f = 1 .. Len(f) /\ Len(f) \in Nat
  BY FileLines
<1>4. PICK j \in 0 .. Len(f) :
        /\ \A i \in DOMAIN f : \A q \in Nat : (q <= s /\ Opens(f[i], q)) => i <= j
        /\ j = 0 \/ Opens(f[j], s) \/ Bad(f[j])
  BY DEF Barred
<1>5. \A i \in DOMAIN g : \A q \in Nat : (q <= s /\ Opens(g[i], q)) => i <= j
  BY <1>1, <1>2, <1>4
<1>6. j = 0 \/ Opens(g[j], s) \/ Bad(g[j])
  BY <1>1, <1>2, <1>3, <1>4
<1> QED
  BY <1>2, <1>4, <1>5, <1>6 DEF Barred, g

\* No step takes a bar away, as only newer rounds are written.
LEMMA BarKept ==
    ASSUME TypeOK, [Next]_vars, NEW p \in Peers, NEW s \in Nat, Barred(file[p], s),
           (AppendLine /\ op.peer = p /\ op.kind # "inbound") => s < op.round
    PROVE  Barred(file'[p], s)
<1>1. file[p] \in Seq(Line) /\ file'[p] \in Seq(Line)
  BY FileChange
<1>2. CASE file'[p] = file[p]
  BY <1>2
<1>3. CASE /\ AppendLine /\ op # NoOp /\ op.peer = p
           /\ \E line \in Line : /\ line.round = op.round /\ line.role = op.kind
                                 /\ file'[p] = Appended(file[p], line)
  <2>1. PICK line \in Line : /\ line.round = op.round /\ line.role = op.kind
                             /\ file'[p] = Appended(file[p], line)
    BY <1>3
  <2>2. CASE EndsTorn(file[p])
    <3>1. file[p] # <<>> /\ file'[p] = [file[p] EXCEPT ![Len(file[p])] = BadLine("garbage")]
      BY <2>1, <2>2 DEF Appended, EndsTorn
    <3> QED
      BY <1>1, <3>1, SpoilKeepsBar
  <2>3. CASE ~EndsTorn(file[p])
    <3>1. op.round \in Nat
      BY <1>3, OpType
    <3>2. \A q \in Nat : q <= s => ~Opens(line, q)
      BY <1>3, <2>1, <3>1 DEF Opens
    <3> QED
      BY <1>1, <2>1, <2>3, <3>2, AppendKeepsBar DEF Appended
  <2> QED
    BY <2>2, <2>3
<1>4. CASE file'[p] = Append(file[p], BadLine("torn"))
  <2>1. BadLine("torn") \in Line /\ \A q : ~Opens(BadLine("torn"), q)
    BY BadLineType DEF BadLine, Opens
  <2>2. PICK j \in 0 .. Len(file[p]) :
          /\ \A i \in DOMAIN file[p] : \A q \in Nat : (q <= s /\ Opens(file[p][i], q)) => i <= j
          /\ j = 0 \/ Opens(file[p][j], s) \/ Bad(file[p][j])
    BY DEF Barred
  <2>3. /\ Len(file'[p]) = Len(file[p]) + 1 /\ file'[p][Len(file'[p])] = BadLine("torn")
        /\ \A i \in DOMAIN file[p] : file'[p][i] = file[p][i]
        /\ \A i \in DOMAIN file'[p] : i \in DOMAIN file[p] \/ i = Len(file'[p])
    BY <1>1, <1>4, <2>1, LineAdded
  <2>4. j \in 0 .. Len(file'[p]) /\ (j # 0 => file'[p][j] = file[p][j])
    BY <1>1, <2>3, FileLines
  <2>5. \A i \in DOMAIN file'[p] : \A q \in Nat : (q <= s /\ Opens(file'[p][i], q)) => i <= j
    BY <2>1, <2>2, <2>3
  <2>6. j = 0 \/ Opens(file'[p][j], s) \/ Bad(file'[p][j])
    BY <2>2, <2>4
  <2> QED
    BY <2>4, <2>5, <2>6 DEF Barred
<1>5. CASE file'[p] = Trimmed(p)
  BY <1>1, <1>5, CapTrims, TrimKeepsBar
<1> QED
  BY <1>2, <1>3, <1>4, <1>5, FileChange

\* A line that is written bars its round, and so does the garbage that it
\* becomes behind half a line.
LEMMA BarRaised ==
    ASSUME TypeOK, AppendLine, op.kind # "inbound"
    PROVE  Barred(file'[op.peer], op.round)
<1> DEFINE p == op.peer
           f == file[p]
           g == file'[p]
<1>1. p \in Peers /\ f \in Seq(Line) /\ op.kind \in {"outbound", "import"}
  BY OpType DEF AppendLine, TypeOK
<1>2. PICK line \in Line :
        /\ line.round = op.round /\ line.role = op.kind
        /\ file' = [file EXCEPT ![p] = Appended(file[p], line)]
  BY AppendStep
<1>3. g = Appended(f, line)
  BY <1>1, <1>2 DEF TypeOK
<1> HIDE DEF g, f, p
<1>4. g \in Seq(Line) /\ g # <<>> /\ (Opens(g[Len(g)], op.round) \/ Bad(g[Len(g)]))
  <2>1. CASE EndsTorn(f)
    <3>1. BadLine("garbage") \in Line /\ Bad(BadLine("garbage"))
      BY BadLineType DEF Bad, BadLine
    <3>2. f # <<>> /\ g = [f EXCEPT ![Len(f)] = BadLine("garbage")]
      BY <1>3, <2>1 DEF Appended, EndsTorn
    <3>3. /\ g \in Seq(Line) /\ Len(g) = Len(f) /\ Len(f) \in DOMAIN f /\ DOMAIN g = DOMAIN f
          /\ g[Len(f)] = BadLine("garbage")
      BY <1>1, <3>1, <3>2, LineReplaced
    <3>4. g # <<>>
      BY <3>3
    <3> QED
      BY <3>1, <3>3, <3>4
  <2>2. CASE ~EndsTorn(f)
    <3>1. g = Append(f, line)
      BY <1>3, <2>2 DEF Appended
    <3>2. g \in Seq(Line) /\ g # <<>> /\ g[Len(g)] = line
      BY <1>1, <3>1, LineAdded
    <3> QED
      BY <1>1, <1>2, <3>2 DEF Opens
  <2> QED
    BY <2>1, <2>2
<1>5. Len(g) \in 0 .. Len(g) /\ \A i \in DOMAIN g : i <= Len(g)
  BY <1>4, FileLines
<1> QED
  BY <1>4, <1>5 DEF Barred, g, p

\* Every step keeps the bars up.
LEMMA ForgetStep == IInv /\ OpShape /\ ForgetInv /\ [Next]_vars => ForgetInv'
<1> SUFFICES ASSUME IInv, OpShape, ForgetInv, [Next]_vars, NEW p \in Peers
             PROVE
        /\ \A a \in DOMAIN acks'[p] : \A s \in acks'[p][a].first .. acks'[p][a].last :
              Barred(file'[p], s)
        /\ (op' # NoOp /\ op'.peer = p) =>
              \A s \in op'.first .. op'.round :
                  \/ Barred(file'[p], s)
                  \/ s = op'.round /\ op'.stage = "append" /\ op'.kind # "inbound"
  BY DEF ForgetInv
<1>1. TypeOK
  BY DEF IInv
<1>2. acks[p] \in Seq(Ack) /\ \A a \in DOMAIN acks[p] : acks[p][a].first \in Nat /\ acks[p][a].last \in Nat
  <2>1. acks[p] \in Seq(Ack)
    BY <1>1 DEF TypeOK
  <2>2. \A a \in DOMAIN acks[p] : acks[p][a] \in Ack
    BY <2>1
  <2> QED
    BY <2>1, <2>2 DEF Ack
<1>3. ASSUME NEW a \in DOMAIN acks[p], NEW s \in acks[p][a].first .. acks[p][a].last
      PROVE  Barred(file'[p], s)
  <2>1. s \in Nat /\ s <= acks[p][a].last /\ Barred(file[p], s)
    BY <1>2, <1>3 DEF ForgetInv
  <2>2. (AppendLine /\ op.peer = p) => s < op.round
    <3> SUFFICES ASSUME AppendLine, op.peer = p PROVE s < op.round
      OBVIOUS
    <3>1. acks[p][a].last < op.first /\ op.first <= op.round /\ op.first \in Nat /\ op.round \in Nat
      BY <1>1, OpType DEF AppendLine, IInv, OpIsFresh
    <3> QED
      BY <1>2, <2>1, <3>1
  <2> QED
    BY <1>1, <2>1, <2>2, BarKept
<1>4. ASSUME op # NoOp, op.peer = p, NEW s \in op.first .. op.round
      PROVE  \/ Barred(file'[p], s)
             \/ s = op.round /\ op.stage = "append" /\ op.kind # "inbound" /\ ~AppendLine
  <2>1. op.first \in Nat /\ op.round \in Nat /\ s \in Nat /\ s <= op.round
    BY <1>1, <1>4, OpType
  <2>2. CASE AppendLine /\ op.kind # "inbound" /\ s = op.round
    BY <1>1, <1>4, <2>2, BarRaised
  <2>3. CASE Barred(file[p], s) /\ ~(AppendLine /\ op.kind # "inbound" /\ s = op.round)
    BY <1>1, <2>1, <2>3, BarKept
  <2> QED
    BY <1>4, <2>2, <2>3 DEF ForgetInv
<1>5. ASSUME NEW a \in DOMAIN acks'[p], NEW s \in acks'[p][a].first .. acks'[p][a].last
      PROVE  Barred(file'[p], s)
  <2>1. CASE a \in DOMAIN acks[p] /\ acks'[p][a] = acks[p][a]
    BY <1>3, <1>5, <2>1
  <2>2. CASE /\ SaveIndex /\ op # NoOp /\ p = op.peer
             /\ acks'[p][a] = [kind |-> IF op.kind = "import" THEN "import" ELSE "send",
                               first |-> op.first, last |-> op.round]
    <3>1. s \in op.first .. op.round /\ op.stage = "save"
      BY <1>5, <2>2 DEF SaveIndex
    <3> QED
      BY <1>4, <2>2, <3>1
  <2> QED
    BY <1>1, <2>1, <2>2, AcksStep
<1>6. ASSUME op' # NoOp, op'.peer = p, NEW s \in op'.first .. op'.round
      PROVE  \/ Barred(file'[p], s)
             \/ s = op'.round /\ op'.stage = "append" /\ op'.kind # "inbound"
  <2>1. CASE op = NoOp
    <3>1. /\ op'.stage = "append" /\ op'.kind \in {"outbound", "import"}
          /\ op'.first = mem[p].last + 1 /\ op'.round = mem[p].last + 1
      BY <1>1, <1>6, <2>1, OpBegins
    <3>2. mem[p].last \in Nat
      BY <1>1 DEF TypeOK, Entry
    <3>3. s = op'.round
      BY <1>6, <3>1, <3>2
    <3> QED
      BY <3>1, <3>3
  <2>2. CASE op # NoOp
    <3>1. /\ op \in Operation /\ op.peer \in Peers /\ op.round = mem[op.peer].last
          /\ op.first \in Nat /\ op.round \in Nat
          /\ op.kind # "import" => op.left = 0
          /\ op.kind = "inbound" => op.stage \in {"append", "save"}
      BY <1>1, <2>2, OpType DEF OpShape
    <3>2. CASE UNCHANGED vars
      BY <1>4, <1>6, <2>2, <3>2 DEF vars
    <3>3. CASE AppendLine /\ op' = [op EXCEPT !.stage = IF op.kind = "inbound" THEN "save" ELSE "cap"]
      <4>1. op'.peer = op.peer /\ op'.first = op.first /\ op'.round = op.round
        BY <3>1, <3>3 DEF Operation
      <4> QED
        BY <1>4, <1>6, <2>2, <3>3, <4>1
    <3>4. CASE /\ op.stage = "cap" /\ op.left > 0
               /\ op' = [op EXCEPT !.stage = "append", !.round = op.round + 1, !.left = op.left - 1]
      <4>1. /\ op'.peer = op.peer /\ op'.first = op.first /\ op'.round = op.round + 1
            /\ op'.stage = "append" /\ op'.kind = op.kind /\ op.kind # "inbound"
        BY <3>1, <3>4 DEF Operation
      <4>2. s \in op.first .. op.round \/ s = op.round + 1
        BY <1>6, <3>1, <4>1
      <4> QED
        BY <1>4, <1>6, <2>2, <3>4, <4>1, <4>2
    <3>5. CASE op.stage = "cap" /\ op' = [op EXCEPT !.stage = "save"]
      <4>1. op'.peer = op.peer /\ op'.first = op.first /\ op'.round = op.round
        BY <3>1, <3>5 DEF Operation
      <4> QED
        BY <1>4, <1>6, <2>2, <3>5, <4>1
    <3>6. CASE SaveIndex /\ op' = [op EXCEPT !.stage = "context"]
      <4>1. op'.peer = op.peer /\ op'.first = op.first /\ op'.round = op.round /\ op.stage = "save"
        BY <3>1, <3>6 DEF Operation, SaveIndex
      <4> QED
        BY <1>4, <1>6, <2>2, <4>1
    <3>7. CASE ReadContext /\ op' = [op EXCEPT !.kind = "inbound", !.stage = "append",
                                               !.round = mem[op.peer].last]
      <4>1. op'.peer = op.peer /\ op'.first = op.first /\ op'.round = op.round /\ op.stage = "context"
        BY <3>1, <3>7 DEF Operation, ReadContext
      <4> QED
        BY <1>4, <1>6, <2>2, <4>1
    <3> QED
      BY <1>1, <1>6, <2>2, <3>2, <3>3, <3>4, <3>5, <3>6, <3>7, OpMoves
  <2> QED
    BY <2>1, <2>2
<1> QED
  BY <1>5, <1>6

\* The cap forgets the oldest rounds first: a readable file that has an
\* acknowledged round has every round acknowledged after it, for any cap,
\* separators, failures and restarts (ForgetsOldestFirst).
THEOREM OldestForgottenFirst == Spec => []ForgetsOldestFirst
<1> DEFINE Inv == IInv /\ OpShape /\ FirstZero /\ ForgetInv
<1>1. Init => Inv
  <2> SUFFICES ASSUME Init PROVE Inv
    OBVIOUS
  <2>1. IInv /\ OpShape /\ FirstZero
    BY FInvInit DEF FInv
  <2>2. op = NoOp /\ \A p \in Peers : acks[p] = <<>>
    BY DEF Init
  <2> QED
    BY <2>1, <2>2 DEF ForgetInv
<1>2. Inv /\ [Next]_vars => Inv'
  BY BookkeepingStep, ShapeStep, ForgetStep
<1>3. Inv => ForgetsOldestFirst
  <2> SUFFICES ASSUME Inv, NEW p \in Peers, Readable(file[p]),
                      NEW i \in DOMAIN acks[p], NEW j \in DOMAIN acks[p],
                      NEW r \in acks[p][i].first .. acks[p][i].last,
                      NEW s \in acks[p][j].first .. acks[p][j].last,
                      r <= s, Stored(p, r)
               PROVE  Stored(p, s)
    BY DEF ForgetsOldestFirst
  <2>1. file[p] \in Seq(Line) /\ r \in Nat
    <3>1. file[p] \in Seq(Line) /\ acks[p] \in Seq(Ack)
      BY DEF IInv, TypeOK
    <3>2. acks[p][i] \in Ack
      BY <3>1
    <3> QED
      BY <3>1, <3>2 DEF Ack
  <2>2. PICK k \in 0 .. Len(file[p]) :
          /\ \A n \in DOMAIN file[p] : \A q \in Nat : (q <= s /\ Opens(file[p][n], q)) => n <= k
          /\ k = 0 \/ Opens(file[p][k], s) \/ Bad(file[p][k])
    BY DEF ForgetInv, Barred
  <2>3. PICK n \in DOMAIN file[p] : Opens(file[p][n], r)
    BY DEF Stored
  <2>4. n <= k
    BY <2>1, <2>2, <2>3
  <2>5. k \in DOMAIN file[p]
    BY <2>1, <2>2, <2>4, FileLines
  <2>6. ~Bad(file[p][k])
    BY <2>5 DEF Readable, Bad
  <2>7. k # 0
    BY <2>1, <2>5, FileLines
  <2> QED
    BY <2>2, <2>5, <2>6, <2>7 DEF Stored
<1> HIDE DEF Inv
<1> QED
  BY <1>1, <1>2, <1>3, PTL DEF Spec

-----------------------------------------------------------------------------
(* A capped file stays short *)

\* Without separators trimming drops two lines per excess round.
LEMMA TrimLength ==
    ASSUME TypeOK, NoSeps, TRUE \notin Separators, NEW p \in Peers
    PROVE  /\ Len(file[p]) \in Nat /\ Excess(p) \in Nat
           /\ Len(Trimmed(p)) = IF 2 * Excess(p) < Len(file[p])
                                THEN Len(file[p]) - 2 * Excess(p) ELSE 0
<1> DEFINE f == file[p]
           splits == {i \in DOMAIN f : f[i].seps}
<1>1. f \in Seq(Line) /\ Excess(p) \in Nat /\ Len(f) \in Nat
  BY CapType, FileLines DEF TypeOK
<1>2. splits = {}
  BY DEF NoSeps
<1>3. Cardinality(splits) = 0
  <2> HIDE DEF splits
  <2> QED
    BY <1>2, FS_EmptySet
<1>4. Len(SplitLines(f)) = Len(f)
  <2> DEFINE place(i) == i + Cardinality({j \in splits : j < i})
             at(k) == IF \E i \in DOMAIN f \ splits : place(i) = k
                      THEN f[CHOOSE i \in DOMAIN f \ splits : place(i) = k]
                      ELSE BadLine("garbage")
  <2>1. SplitLines(f) = [k \in 1 .. Len(f) + Cardinality(splits) |-> at(k)]
    BY DEF SplitLines
  <2> HIDE DEF at
  <2>2. Len(f) + Cardinality(splits) = Len(f)
    BY <1>1, <1>3
  <2>3. SplitLines(f) = [k \in 1 .. Len(f) |-> at(k)]
    BY <2>1, <2>2
  <2>4. DOMAIN SplitLines(f) = 1 .. Len(f) /\ SplitLines(f) \in Seq(Line)
    BY <1>1, <2>3, SplitLinesType
  <2> QED
    BY <1>1, <2>4
<1> HIDE DEF f
<1>5. CASE Excess(p) = 0
  <2>1. Trimmed(p) = f
    BY <1>5 DEF Trimmed, f
  <2>2. Len(f) = IF 0 < Len(f) THEN Len(f) - 0 ELSE 0
    BY <1>1
  <2> QED
    BY <1>1, <1>5, <2>1, <2>2 DEF f
<1>6. CASE Excess(p) # 0
  <2> DEFINE sp == SplitLines(f)
             d == 2 * Excess(p)
             g == Trimmed(p)
  <2>1. g = SubSeq(sp, d + 1, Len(sp))
    BY <1>6 DEF Trimmed, f
  <2>2. sp \in Seq(Line) /\ d \in Nat
    BY <1>1, SplitLinesType
  <2> HIDE DEF sp, d, g
  <2>3. Len(g) = IF d < Len(sp) THEN Len(sp) - d ELSE 0
    BY <2>1, <2>2, DropLines
  <2> QED
    BY <1>1, <1>4, <2>3 DEF sp, d, g, f
<1> QED
  BY <1>5, <1>6

\* No step brings separators in that no message has.
LEMMA SepsStep == TypeOK /\ NoSeps /\ [Next]_vars => NoSeps'
<1> SUFFICES ASSUME TypeOK, NoSeps, [Next]_vars, TRUE \notin Separators,
                    NEW p \in Peers, NEW k \in DOMAIN file'[p]
             PROVE  ~file'[p][k].seps
  BY DEF NoSeps
<1> DEFINE f == file[p]
           g == file'[p]
<1>1. f \in Seq(Line) /\ g \in Seq(Line) /\ \A i \in DOMAIN f : ~f[i].seps
  BY FileChange DEF NoSeps
<1>2. \A role \in {"torn", "garbage"} : BadLine(role) \in Line /\ ~BadLine(role).seps
  BY BadLineType DEF BadLine
<1>3. CASE g = f
  BY <1>1, <1>3
<1>4. ASSUME NEW line \in Line, ~line.seps, g = Append(f, line) PROVE ~g[k].seps
  <2> HIDE DEF f, g
  <2>1. /\ g[Len(g)] = line /\ \A i \in DOMAIN f : g[i] = f[i]
        /\ \A i \in DOMAIN g : i \in DOMAIN f \/ i = Len(g)
    BY <1>1, <1>4, LineAdded
  <2>2. k \in DOMAIN g
    BY DEF g
  <2> QED
    BY <1>1, <1>4, <2>1, <2>2
<1>5. CASE \E line \in Line : ~line.seps /\ g = Appended(f, line)
  <2>1. PICK line \in Line : ~line.seps /\ g = Appended(f, line)
    BY <1>5
  <2>2. CASE EndsTorn(f)
    <3>1. f # <<>> /\ g = [f EXCEPT ![Len(f)] = BadLine("garbage")]
      BY <2>1, <2>2 DEF Appended, EndsTorn
    <3> HIDE DEF f, g
    <3>2. /\ DOMAIN g = DOMAIN f /\ g[Len(f)] = BadLine("garbage")
          /\ \A i \in DOMAIN f : i # Len(f) => g[i] = f[i]
      BY <1>1, <1>2, <3>1, LineReplaced
    <3>3. k \in DOMAIN g
      BY DEF g
    <3> QED
      BY <1>1, <1>2, <3>2, <3>3 DEF g
  <2>3. CASE ~EndsTorn(f)
    BY <1>4, <2>1, <2>3 DEF Appended
  <2> QED
    BY <2>2, <2>3
<1>6. CASE g = Append(f, BadLine("torn"))
  BY <1>2, <1>4, <1>6
<1>7. CASE g = Trimmed(p)
  <2>1. PICK h : TrimsBy(f, g, h)
    BY <1>7, CapTrims DEF Trims
  <2>2. g[k] = BadLine("garbage") \/ \E i \in DOMAIN f : g[k] = f[i]
    BY <2>1 DEF TrimsBy
  <2> QED
    BY <1>1, <1>2, <2>2
<1> QED
  BY <1>3, <1>5, <1>6, <1>7, FileChange

\* What a step does to the length of a file.
LEMMA LengthChange ==
    ASSUME TypeOK, [Next]_vars, NEW p \in Peers
    PROVE  /\ Len(file[p]) \in Nat /\ Len(file'[p]) \in Nat
           /\ \/ Len(file'[p]) = Len(file[p])
              \/ /\ op # NoOp /\ op.peer = p /\ op.stage = "append"
                 /\ Len(file'[p]) = Len(file[p]) + 1
              \/ /\ EnforceCap /\ op # NoOp /\ op.peer = p /\ op.stage = "cap"
                 /\ file'[p] = Trimmed(p)
<1>1. /\ file[p] \in Seq(Line) /\ file'[p] \in Seq(Line)
      /\ Len(file[p]) \in Nat /\ Len(file'[p]) \in Nat
  BY FileChange, FileLines
<1>2. \A line \in Line : file'[p] = Appended(file[p], line) =>
         Len(file'[p]) \in {Len(file[p]), Len(file[p]) + 1}
  <2> SUFFICES ASSUME NEW line \in Line, file'[p] = Appended(file[p], line)
               PROVE  Len(file'[p]) \in {Len(file[p]), Len(file[p]) + 1}
    OBVIOUS
  <2>1. CASE EndsTorn(file[p])
    BY <1>1, <2>1, AppendedGrows
  <2>2. CASE ~EndsTorn(file[p])
    BY <1>1, <2>2, LineAdded DEF Appended
  <2> QED
    BY <2>1, <2>2
<1>3. BadLine("torn") \in Line
  BY BadLineType
<1>4. file'[p] = Append(file[p], BadLine("torn")) => Len(file'[p]) = Len(file[p]) + 1
  BY <1>1, <1>3, LineAdded
<1>5. CASE file'[p] = file[p]
  BY <1>1, <1>5
<1>6. CASE EnforceCap /\ op # NoOp /\ op.peer = p /\ op.stage = "cap" /\ file'[p] = Trimmed(p)
  BY <1>1, <1>6
<1>7. CASE /\ op # NoOp /\ op.peer = p /\ op.stage = "append"
           /\ Len(file'[p]) \in {Len(file[p]), Len(file[p]) + 1}
  BY <1>1, <1>7
<1>8. CASE /\ op # NoOp /\ op.peer = p /\ op.stage = "append"
           /\ \E line \in Line : file'[p] = Appended(file[p], line)
  BY <1>2, <1>7, <1>8
<1>9. CASE /\ op # NoOp /\ op.peer = p /\ op.stage = "append"
           /\ file'[p] = Append(file[p], BadLine("torn"))
  BY <1>1, <1>4, <1>9
<1> QED
  BY <1>5, <1>6, <1>8, <1>9, FileChange

\* An operation ends by an answer or by a failure.
LEMMA OpEnds ==
    ASSUME TypeOK, [Next]_vars, op # NoOp, op' = NoOp
    PROVE  SaveIndex \/ ReadContext \/ Fault \/ Crash
<1>1. op \in Operation
  BY OpType
<1>2. ~AppendLine /\ ~EnforceCap
  BY <1>1 DEF AppendLine, EnforceCap, Operation, NoOp
<1> QED
  BY <1>2 DEF Next, vars, RecordOutbound, ImportMessages, ImportNothing

\* An operation begins with one round and goes on for one batch at most.
LEMMA SizeStep == IInv /\ OpShape /\ OpSize /\ [Next]_vars => OpSize'
<1> SUFFICES ASSUME IInv, OpShape, OpSize, [Next]_vars, op' # NoOp
             PROVE  op'.round - op'.first + 1 + op'.left <= ImportMax
  BY DEF OpSize
<1>1. TypeOK
  BY DEF IInv
<1>2. CASE op = NoOp
  <2>1. ASSUME NEW p \in Peers, NEW kind, NEW left \in Nat, Open(p, kind, left), left + 1 <= ImportMax
        PROVE  op'.round - op'.first + 1 + op'.left <= ImportMax
    <3>1. op'.round = mem[p].last + 1 /\ op'.first = mem[p].last + 1 /\ op'.left = left
      BY <2>1 DEF Open
    <3>2. mem[p].last \in Nat
      BY <1>1 DEF TypeOK, Entry
    <3> QED
      BY <2>1, <3>1, <3>2, HistoryAssumption
  <2>2. ASSUME NEW p \in Peers, RecordOutbound(p) PROVE op'.round - op'.first + 1 + op'.left <= ImportMax
    BY <2>1, <2>2, HistoryAssumption DEF RecordOutbound
  <2>3. ASSUME NEW p \in Peers, NEW n \in ImportSizes, ImportMessages(p, n)
        PROVE  op'.round - op'.first + 1 + op'.left <= ImportMax
    <3>1. n \in 1 .. ImportMax /\ ImportMax \in Nat
      BY HistoryAssumption
    <3>2. n - 1 \in Nat /\ n - 1 + 1 <= ImportMax
      BY <3>1
    <3> QED
      BY <2>1, <2>3, <3>2 DEF ImportMessages
  <2> QED
    BY <1>2, <2>2, <2>3
      DEF Next, vars, ImportNothing, AppendLine, EnforceCap, SaveIndex, ReadContext, Fault, Crash
<1>3. CASE op # NoOp
  <2>1. /\ op \in Operation /\ op.peer \in Peers
        /\ op.round \in Nat /\ op.first \in Nat /\ op.left \in Nat /\ ImportMax \in Nat
        /\ op.round = mem[op.peer].last
        /\ op.round - op.first + 1 + op.left <= ImportMax
    BY <1>1, <1>3, OpType, HistoryAssumption DEF OpShape, OpSize
  <2>2. CASE UNCHANGED op
    BY <2>1, <2>2
  <2>3. ASSUME NEW stage, op' = [op EXCEPT !.stage = stage]
        PROVE  op'.round = op.round /\ op'.first = op.first /\ op'.left = op.left
    BY <2>1, <2>3 DEF Operation
  <2>4. CASE op' = [op EXCEPT !.stage = "append", !.round = op.round + 1, !.left = op.left - 1]
    <3>1. op'.round = op.round + 1 /\ op'.first = op.first /\ op'.left = op.left - 1
      BY <2>1, <2>4 DEF Operation
    <3> QED
      BY <2>1, <3>1
  <2>5. CASE op' = [op EXCEPT !.kind = "inbound", !.stage = "append", !.round = mem[op.peer].last]
    <3>1. op'.round = op.round /\ op'.first = op.first /\ op'.left = op.left
      BY <2>1, <2>5 DEF Operation
    <3> QED
      BY <2>1, <3>1
  <2> QED
    BY <1>1, <1>3, <2>1, <2>2, <2>3, <2>4, <2>5, OpMoves DEF vars
<1> QED
  BY <1>2, <1>3

\* What failures and restarts may leave behind, before and after a step.
LEMMA Leftovers ==
    ASSUME TypeOK, [Next]_vars
    PROVE  LET z == ImportMax * (faults + crashes)
               y == ImportMax * (faults' + crashes')
           IN  /\ z \in Nat /\ y \in Nat /\ ImportMax \in Nat
               /\ Fault \/ Crash => y = z + ImportMax
               /\ ~(Fault \/ Crash) => y = z
<1>1. faults \in Nat /\ crashes \in Nat /\ ImportMax \in Nat
  BY HistoryAssumption DEF TypeOK
<1>2. \A a, b \in Nat : a * b \in Nat /\ a * (b + 1) = a * b + a
  OBVIOUS
<1>3. CASE Fault \/ Crash
  <2>1. faults' + crashes' = (faults + crashes) + 1
    BY <1>1, <1>3 DEF Fault, Crash
  <2> QED
    BY <1>1, <1>2, <1>3, <2>1
<1>4. CASE ~(Fault \/ Crash)
  <2>1. UNCHANGED <<faults, crashes>>
    BY <1>4 DEF Next, vars, RecordOutbound, ImportMessages, Open, ImportNothing,
                AppendLine, EnforceCap, SaveIndex, ReadContext
  <2> QED
    BY <1>1, <1>2, <1>4, <2>1
<1> QED
  BY <1>3, <1>4

\* Every step leaves files as short as the invariant has them.
LEMMA LengthStep ==
    IInv /\ OpShape /\ OpSize /\ NoSeps /\ LengthInv /\ [Next]_vars => LengthInv'
<1> SUFFICES ASSUME IInv, OpShape, OpSize, NoSeps, LengthInv, [Next]_vars,
                    MaxRounds > 0, TRUE \notin Separators, NEW p \in Peers
             PROVE
        LET y       == ImportMax * (faults' + crashes')
            room(n) == 2 * Lesser(n, MaxRounds) + y
            len     == Len(file'[p])
        IN  IF op' = NoOp \/ op'.peer # p
            THEN len <= room(idx'[p].total)
            ELSE IF op'.kind = "inbound" \/ op'.stage = "context"
            THEN /\ len <= room(idx'[p].total)
                 /\ op'.stage # "save" => len + 1 <= room(idx'[p].total)
            ELSE /\ op'.stage = "append" =>
                      /\ len <= room(idx'[p].total) + (op'.round - op'.first)
                      /\ len <= room(mem'[p].total - 1)
                 /\ op'.stage # "append" =>
                      len <= room(idx'[p].total) + (op'.round - op'.first) + 1
                 /\ op'.stage = "cap" => len <= room(mem'[p].total - 1) + 1
                 /\ op'.stage = "save" => len + 1 <= room(mem'[p].total)
  BY DEF LengthInv, Room
<1> DEFINE z == ImportMax * (faults + crashes)
           y == ImportMax * (faults' + crashes')
           room(n) == 2 * Lesser(n, MaxRounds) + z
           room1(n) == 2 * Lesser(n, MaxRounds) + y
           len == Len(file[p])
           len1 == Len(file'[p])
<1>1. /\ TypeOK /\ MaxRounds \in Nat /\ ImportMax \in Nat
      /\ z \in Nat /\ y \in Nat
      /\ Fault \/ Crash => y = z + ImportMax
      /\ ~(Fault \/ Crash) => y = z
  BY Leftovers, HistoryAssumption DEF IInv
<1>2. /\ mem[p].total \in Nat /\ idx[p].total \in Nat /\ mem'[p].total \in Nat /\ idx'[p].total \in Nat
      /\ idx[p].total <= mem[p].total /\ idx[p].total <= idx'[p].total
      /\ idx'[p] = idx[p] \/ idx'[p] = mem[p]
  <2>1. IInv'
    BY BookkeepingStep
  <2>2. /\ mem[p].total \in Nat /\ idx[p].total \in Nat /\ mem'[p].total \in Nat /\ idx'[p].total \in Nat
    BY <2>1 DEF IInv, TypeOK, Entry
  <2>3. idx[p].total <= mem[p].total
    BY DEF IInv, IndexBehind
  <2>4. idx'[p] = idx[p] \/ idx'[p] = mem[p]
    BY <1>1, EntryStep
  <2> QED
    BY <2>2, <2>3, <2>4
<1>3. /\ len \in Nat /\ len1 \in Nat
      /\ \/ len1 = len
         \/ op # NoOp /\ op.peer = p /\ op.stage = "append" /\ len1 = len + 1
         \/ EnforceCap /\ op # NoOp /\ op.peer = p /\ op.stage = "cap" /\ file'[p] = Trimmed(p)
  BY <1>1, LengthChange
<1>4. IF op = NoOp \/ op.peer # p
      THEN len <= room(idx[p].total)
      ELSE IF op.kind = "inbound" \/ op.stage = "context"
      THEN /\ len <= room(idx[p].total)
           /\ op.stage # "save" => len + 1 <= room(idx[p].total)
      ELSE /\ op.stage = "append" =>
                /\ len <= room(idx[p].total) + (op.round - op.first)
                /\ len <= room(mem[p].total - 1)
           /\ op.stage # "append" =>
                len <= room(idx[p].total) + (op.round - op.first) + 1
           /\ op.stage = "cap" => len <= room(mem[p].total - 1) + 1
           /\ op.stage = "save" => len + 1 <= room(mem[p].total)
  BY DEF LengthInv, Room
<1> HIDE DEF z, y, len, len1
<1>5. \A m, n \in Int : m <= n => room(m) <= room(n) /\ room(m) \in Int /\ room(n) \in Int
  BY <1>1 DEF Lesser
<1>6. CASE op = NoOp \/ op.peer # p
  <2>1. len <= room(idx[p].total) /\ len1 = len /\ room(idx[p].total) <= room(idx'[p].total)
        /\ room(idx[p].total) \in Int /\ room(idx'[p].total) \in Int
    BY <1>2, <1>3, <1>4, <1>5, <1>6
  <2>2. len1 <= room1(idx'[p].total)
    BY <1>1, <1>2, <1>3, <2>1 DEF Lesser
  <2>3. CASE op' = NoOp \/ op'.peer # p
    BY <2>2, <2>3 DEF y, len1
  <2>4. CASE op' # NoOp /\ op'.peer = p /\ op = NoOp
    <3>1. /\ op'.stage = "append" /\ op'.kind \in {"outbound", "import"}
          /\ op'.first = mem[p].last + 1 /\ op'.round = mem[p].last + 1
          /\ mem' = [mem EXCEPT ![p] = Bump(@)]
          /\ UNCHANGED <<idx, faults, crashes>>
      BY <1>1, <2>4, OpBegins
    <3>2. op'.round - op'.first = 0 /\ mem'[p].total - 1 = mem[p].total
      <4>1. mem[p].last \in Nat /\ mem[p].total \in Nat
        BY <1>1 DEF TypeOK, Entry
      <4>2. mem'[p].total = mem[p].total + 1
        BY <1>1, <3>1, EntryGrows DEF TypeOK
      <4> QED
        BY <3>1, <4>1, <4>2
    <3>3. room(idx[p].total) <= room(mem[p].total) /\ room(mem[p].total) \in Int /\ y = z
      BY <1>2, <1>5, <3>1 DEF y, z
    <3>4. len1 <= room1(mem'[p].total - 1) /\ len1 <= room1(idx'[p].total) + (op'.round - op'.first)
      BY <1>2, <1>3, <2>1, <3>1, <3>2, <3>3
    <3> QED
      BY <2>4, <3>1, <3>4 DEF y, len1
  <2>5. CASE op' # NoOp /\ op'.peer = p /\ op # NoOp
    <3>1. op'.peer = op.peer
      BY <2>5, OpGoesOn
    <3> QED
      BY <1>6, <2>5, <3>1
  <2> QED
    BY <2>3, <2>4, <2>5
<1>7. CASE op # NoOp /\ op.peer = p
  <2>1. /\ op \in Operation /\ op.round \in Nat /\ op.first \in Nat /\ op.left \in Nat
        /\ op.first <= op.round
        /\ op.round - op.first + 1 + op.left <= ImportMax
        /\ op.kind # "import" => op.left = 0
        /\ op.kind = "inbound" => op.stage \in {"append", "save"}
        /\ op.stage = "context" => op.kind = "outbound"
        /\ op.kind \in {"outbound", "inbound", "import"}
        /\ op.stage \in {"append", "cap", "save", "context"}
        /\ op.round = mem[p].last
    BY <1>1, <1>7, OpType DEF IInv, OpShape, OpIsFresh, OpSize
  <2> DEFINE w == op.round - op.first
  <2>2. w \in Nat /\ w + 1 <= ImportMax
    BY <1>1, <2>1
  <2>3. /\ (op.kind = "inbound" \/ op.stage = "context") =>
             len <= room(idx[p].total) /\ (op.stage # "save" => len + 1 <= room(idx[p].total))
        /\ ~(op.kind = "inbound" \/ op.stage = "context") =>
             /\ op.stage = "append" =>
                  len <= room(idx[p].total) + w /\ len <= room(mem[p].total - 1)
             /\ op.stage # "append" => len <= room(idx[p].total) + w + 1
             /\ op.stage = "cap" => len <= room(mem[p].total - 1) + 1
             /\ op.stage = "save" => len + 1 <= room(mem[p].total)
    BY <1>4, <1>7
  <2>4. /\ room(idx[p].total) \in Int /\ room(mem[p].total) \in Int
        /\ room(mem[p].total - 1) \in Int
        /\ room(idx[p].total) <= room(mem[p].total)
    BY <1>2, <1>5
  <2>5. CASE Fault \/ Crash
    <3>1. op' = NoOp /\ UNCHANGED idx
      BY <2>5 DEF Fault, Crash
    <3>2. len1 <= len + 1 /\ (op.stage # "append" => len1 = len)
      <4>1. ~EnforceCap
        BY <2>1, <3>1 DEF EnforceCap, Operation, NoOp
      <4> QED
        BY <1>3, <4>1
    <3>3. len1 <= room(idx[p].total) + ImportMax
      BY <1>1, <1>3, <2>1, <2>2, <2>3, <2>4, <3>2
    <3>4. len1 <= room1(idx'[p].total)
      BY <1>1, <1>2, <1>3, <2>5, <3>1, <3>3 DEF Lesser
    <3> QED
      BY <3>1, <3>4 DEF y, len1
  <2>6. CASE ~(Fault \/ Crash)
    <3>1. y = z
      BY <1>1, <2>6
    <3>2. CASE op' = NoOp
      <4>1. UNCHANGED <<mem, file>> /\ len1 = len
        BY <1>1, <1>7, <2>6, <3>2, OpEnds DEF SaveIndex, ReadContext, len, len1
      <4>2. CASE SaveIndex
        <5>1. idx' = mem /\ op.stage = "save"
          BY <4>2 DEF SaveIndex, IndexWritten
        <5>2. len <= room(mem[p].total)
          BY <1>3, <2>3, <2>4, <5>1
        <5> QED
          BY <3>1, <3>2, <4>1, <5>1, <5>2 DEF y, z, len, len1
      <4>3. CASE ReadContext
        <5>1. UNCHANGED idx /\ op.stage = "context"
          BY <4>3 DEF ReadContext
        <5>2. len <= room(idx[p].total)
          BY <2>3, <5>1
        <5> QED
          BY <3>1, <3>2, <4>1, <5>1, <5>2 DEF y, z, len, len1
      <4> QED
        BY <1>1, <1>7, <2>6, <3>2, <4>2, <4>3, OpEnds
    <3>3. CASE UNCHANGED vars
      <4>1. UNCHANGED <<op, mem, idx, file>>
        BY <3>3 DEF vars
      <4> QED
        BY <1>7, <2>3, <3>1, <4>1 DEF y, z, len, len1
    <3>4. CASE AppendLine /\ op' = [op EXCEPT !.stage = IF op.kind = "inbound" THEN "save" ELSE "cap"]
      <4>1. /\ op.stage = "append" /\ UNCHANGED <<mem, idx>>
            /\ op'.peer = p /\ op'.round = op.round /\ op'.first = op.first /\ op'.kind = op.kind
            /\ op'.stage = IF op.kind = "inbound" THEN "save" ELSE "cap"
            /\ op' # NoOp
        BY <1>7, <2>1, <3>4 DEF AppendLine, Operation, NoOp
      <4>4. len1 <= len + 1
        BY <1>3, <4>1
      <4>2. CASE op.kind = "inbound"
        <5>1. len1 <= room(idx[p].total)
          BY <1>3, <2>3, <2>4, <4>1, <4>2, <4>4
        <5> QED
          BY <3>1, <4>1, <4>2, <5>1 DEF y, z, len1
      <4>3. CASE op.kind # "inbound"
        <5>1. len1 <= room(idx[p].total) + w + 1 /\ len1 <= room(mem[p].total - 1) + 1
          BY <1>3, <2>1, <2>2, <2>3, <2>4, <4>1, <4>3, <4>4
        <5> QED
          BY <3>1, <4>1, <4>3, <5>1 DEF y, z, len1
      <4> QED
        BY <4>2, <4>3
    <3>5. CASE EnforceCap /\ op.stage = "cap"
      <4>1. op.kind \in {"outbound", "import"} /\ UNCHANGED idx
        BY <2>1, <3>5 DEF EnforceCap
      <4>2. len <= room(idx[p].total) + w + 1 /\ len <= room(mem[p].total - 1) + 1
        BY <2>3, <3>5, <4>1
      <4>3. file'[p] = Trimmed(p)
        BY <1>1, <1>7, <3>5 DEF EnforceCap, TypeOK
      <4>4. /\ Excess(p) = IF mem[p].total > MaxRounds THEN mem[p].total - MaxRounds ELSE 0
            /\ len1 = IF 2 * Excess(p) < len THEN len - 2 * Excess(p) ELSE 0
        BY <1>1, <4>3, TrimLength DEF len, len1, Excess
      <4>5. len1 <= len /\ len1 + 1 <= room(mem[p].total)
        BY <1>1, <1>2, <1>3, <4>2, <4>4 DEF Lesser
      <4>6. CASE /\ op.left > 0
                 /\ op' = [op EXCEPT !.stage = "append", !.round = op.round + 1, !.left = op.left - 1]
                 /\ mem' = [mem EXCEPT ![op.peer] = Bump(Shifted(op.peer))]
        <5>1. /\ op'.peer = p /\ op'.round = op.round + 1 /\ op'.first = op.first
              /\ op'.kind = op.kind /\ op'.stage = "append" /\ op' # NoOp
          BY <1>7, <2>1, <4>6 DEF Operation, NoOp
        <5>2. mem'[p].total = mem[p].total + 1
          BY <1>1, <1>7, <4>6, EntryGrows DEF TypeOK
        <5>3. mem'[p].total - 1 = mem[p].total /\ op'.round - op'.first = w + 1
          BY <1>2, <2>1, <5>1, <5>2
        <5>4. len1 <= room(idx[p].total) + (w + 1) /\ len1 <= room(mem[p].total)
          BY <1>3, <2>2, <2>4, <4>2, <4>5
        <5> QED
          BY <3>1, <4>1, <5>1, <5>3, <5>4 DEF y, z, len1
      <4>7. CASE op' = [op EXCEPT !.stage = "save"] /\ mem' = [mem EXCEPT ![op.peer] = Shifted(op.peer)]
        <5>1. /\ op'.peer = p /\ op'.round = op.round /\ op'.first = op.first
              /\ op'.kind = op.kind /\ op'.stage = "save" /\ op' # NoOp
          BY <1>7, <2>1, <4>7 DEF Operation, NoOp
        <5>2. mem'[p].total = mem[p].total
          BY <1>1, <1>7, <4>7, EntryGrows DEF TypeOK
        <5>3. len1 <= room(idx[p].total) + w + 1
          BY <1>3, <2>2, <2>4, <4>2, <4>5
        <5> QED
          BY <3>1, <4>1, <4>5, <5>1, <5>2, <5>3 DEF y, z, len1
      <4> QED
        BY <1>1, <1>7, <2>1, <3>5, <4>6, <4>7 DEF EnforceCap
    <3>6. CASE SaveIndex /\ op' = [op EXCEPT !.stage = "context"]
      <4>1. /\ op.stage = "save" /\ idx' = mem /\ UNCHANGED file
            /\ op'.peer = p /\ op'.stage = "context" /\ op'.kind = op.kind /\ op' # NoOp
        BY <1>7, <2>1, <3>6 DEF SaveIndex, IndexWritten, Operation, NoOp
      <4>2. op.kind = "outbound"
        BY <1>7, <2>1, <3>6, <4>1 DEF SaveIndex, Acknowledge, Operation, NoOp
      <4>3. len + 1 <= room(mem[p].total)
        BY <2>3, <4>1, <4>2
      <4> QED
        BY <1>3, <2>4, <3>1, <4>1, <4>3 DEF y, z, len, len1
    <3>7. CASE ReadContext /\ op' = [op EXCEPT !.kind = "inbound", !.stage = "append",
                                               !.round = mem[op.peer].last]
      <4>1. /\ op.stage = "context" /\ UNCHANGED <<idx, file>>
            /\ op'.peer = p /\ op'.kind = "inbound" /\ op'.stage = "append" /\ op' # NoOp
        BY <1>7, <2>1, <3>7 DEF ReadContext, Operation, NoOp
      <4>2. len <= room(idx[p].total) /\ len + 1 <= room(idx[p].total)
        BY <2>3, <4>1
      <4> QED
        BY <3>1, <4>1, <4>2 DEF y, z, len, len1
    <3> QED
      BY <1>1, <1>7, <3>2, <3>3, <3>4, <3>5, <3>6, <3>7, OpMoves
  <2> QED
    BY <2>5, <2>6
<1> QED
  BY <1>6, <1>7

\* A capped file stays short, as long as no line is split in two: History's
\* CapBound.
THEOREM CappedFilesStayShort == Spec => []CapBound
<1> DEFINE Inv == IInv /\ OpShape /\ FirstZero /\ OpSize /\ NoSeps /\ LengthInv
<1>1. Init => Inv
  <2> SUFFICES ASSUME Init PROVE Inv
    OBVIOUS
  <2>1. IInv
    BY BookkeepingInit
  <2>2. op = NoOp /\ \A p \in Peers : file[p] = <<>>
    BY DEF Init
  <2>3. \A p \in Peers : idx[p].total = 0 /\ mem[p].first = 0 /\ idx[p].first = 0
    BY DEF Init, NewEntry
  <2>4. ImportMax * (faults + crashes) = 0 /\ MaxRounds \in Nat
    BY HistoryAssumption DEF Init
  <2>5. OpShape /\ FirstZero /\ OpSize
    BY <2>2, <2>3 DEF OpShape, FirstZero, OpSize
  <2>6. LengthInv
    BY <2>2, <2>3, <2>4 DEF LengthInv, Room, Lesser
  <2>7. NoSeps
    BY <2>2 DEF NoSeps
  <2> QED
    BY <2>1, <2>5, <2>6, <2>7
<1>2. Inv /\ [Next]_vars => Inv'
  BY BookkeepingStep, ShapeStep, SizeStep, SepsStep, LengthStep DEF IInv
<1>3. Inv => CapBound
  <2> SUFFICES ASSUME Inv, MaxRounds > 0, TRUE \notin Separators, op = NoOp, NEW p \in Peers
               PROVE  Len(file[p]) <= 2 * MaxRounds + ImportMax * (faults + crashes)
    BY DEF CapBound
  <2> DEFINE lines == Len(file[p])
             kept  == 2 * Lesser(idx[p].total, MaxRounds)
             left  == ImportMax * (faults + crashes)
  <2>1. lines <= kept + left
    BY DEF LengthInv, Room
  <2>2. /\ idx[p].total \in Nat /\ lines \in Nat /\ MaxRounds \in Nat
        /\ faults \in Nat /\ crashes \in Nat /\ ImportMax \in Nat
    BY FileLines, HistoryAssumption DEF IInv, TypeOK, Entry
  <2>3. kept \in Nat /\ kept <= 2 * MaxRounds
    BY <2>2 DEF Lesser
  <2>4. left \in Nat
    BY <2>2
  <2> HIDE DEF lines, kept, left
  <2>5. lines <= 2 * MaxRounds + left
    BY <2>1, <2>2, <2>3, <2>4
  <2> QED
    BY <2>5 DEF lines, left
<1> HIDE DEF Inv
<1> QED
  BY <1>1, <1>2, <1>3, PTL DEF Spec

-----------------------------------------------------------------------------
(* Only restarts make rounds fall *)

\* Each line of file g that opens a round is one of file f, src its place there,
\* and they are in the same order.
Keeps(f, g, src) ==
    /\ \A k \in DOMAIN g : Opening(g[k]) => src[k] \in DOMAIN f /\ f[src[k]] = g[k]
    /\ \A k, l \in DOMAIN g : (k < l /\ Opening(g[k]) /\ Opening(g[l])) => src[k] < src[l]

\* What of a file is kept keeps its eras.
LEMMA ErasKept ==
    ASSUME NEW f \in Seq(Line), NEW g \in Seq(Line), NEW n \in Nat, NEW era, NEW src,
           Eras(f, n, era), Keeps(f, g, src)
    PROVE  \E e : /\ Eras(g, n, e)
                  /\ \A k \in DOMAIN g : Opening(g[k]) =>
                        \E i \in DOMAIN f : g[k] = f[i] /\ e[k] = era[i]
<1> DEFINE e == [k \in DOMAIN g |-> IF Opening(g[k]) THEN era[src[k]] ELSE 0]
<1>1. e \in [DOMAIN g -> 0 .. n]
  BY DEF Eras, Keeps
<1>2. \A k \in DOMAIN g : Opening(g[k]) =>
         src[k] \in DOMAIN f /\ f[src[k]] = g[k] /\ e[k] = era[src[k]]
  BY DEF Keeps
<1> HIDE DEF e
<1>3. \A k, l \in DOMAIN g : (k < l /\ Opening(g[k]) /\ Opening(g[l])) =>
         e[k] <= e[l] /\ (e[k] = e[l] => g[k].round < g[l].round)
  BY <1>2 DEF Eras, Keeps
<1>4. Eras(g, n, e)
  BY <1>1, <1>3 DEF Eras
<1> QED
  BY <1>2, <1>4

\* A line with a higher round than any of the last era goes on with that era.
LEMMA ErasGoOn ==
    ASSUME NEW f \in Seq(Line), NEW line \in Line, NEW n \in Nat, NEW era, Eras(f, n, era),
           \A i \in DOMAIN f : (Opening(f[i]) /\ era[i] = n) => f[i].round < line.round
    PROVE  \E e : /\ Eras(Append(f, line), n, e)
                  /\ \A k \in DOMAIN Append(f, line) :
                        \/ Append(f, line)[k] = line
                        \/ \E i \in DOMAIN f : Append(f, line)[k] = f[i] /\ e[k] = era[i]
<1> DEFINE g == Append(f, line)
           e == [k \in DOMAIN g |-> IF k \in DOMAIN f THEN era[k] ELSE n]
<1>1. /\ g \in Seq(Line) /\ Len(g) = Len(f) + 1 /\ g[Len(g)] = line
      /\ \A i \in DOMAIN f : g[i] = f[i]
      /\ \A k \in DOMAIN g : k \in DOMAIN f \/ k = Len(g)
      /\ Len(g) \notin DOMAIN f
  BY LineAdded
<1>2. DOMAIN f = 1 .. Len(f) /\ Len(f) \in Nat
  BY FileLines
<1> HIDE DEF g
<1>3. e \in [DOMAIN g -> 0 .. n]
  BY DEF Eras
<1>4. \A k \in DOMAIN g : e[k] = IF k \in DOMAIN f THEN era[k] ELSE n
  OBVIOUS
<1> HIDE DEF e
<1>5. ASSUME NEW k \in DOMAIN g, NEW l \in DOMAIN g, k < l, Opening(g[k]), Opening(g[l])
      PROVE  e[k] <= e[l] /\ (e[k] = e[l] => g[k].round < g[l].round)
  <2>1. k \in DOMAIN f
    BY <1>1, <1>2, <1>5
  <2>2. CASE l \in DOMAIN f
    BY <1>1, <1>4, <1>5, <2>1, <2>2 DEF Eras
  <2>3. CASE l = Len(g)
    <3>1. e[l] = n /\ e[k] = era[k] /\ era[k] \in 0 .. n /\ g[k] = f[k]
      BY <1>1, <1>4, <2>1, <2>3 DEF Eras
    <3> QED
      BY <1>1, <1>5, <2>1, <2>3, <3>1
  <2> QED
    BY <1>1, <2>2, <2>3
<1>6. Eras(g, n, e)
  BY <1>3, <1>5 DEF Eras
<1>7. \A k \in DOMAIN g : g[k] = line \/ \E i \in DOMAIN f : g[k] = f[i] /\ e[k] = era[i]
  BY <1>1, <1>4
<1> QED
  BY <1>6, <1>7 DEF g

\* What a step keeps of a file it keeps in order, unless it opens a round.
LEMMA StepKeeps ==
    ASSUME TypeOK, [Next]_vars, NEW p \in Peers
    PROVE  \/ \E src : Keeps(file[p], file'[p], src)
           \/ /\ AppendLine /\ Writing(p)
              /\ \E line \in Line : line.round = op.round /\ file'[p] = Append(file[p], line)
<1> DEFINE f == file[p]
           g == file'[p]
           same == [i \in DOMAIN g |-> i]
<1>1. f \in Seq(Line) /\ g \in Seq(Line)
  BY FileChange
<1>2. DOMAIN f = 1 .. Len(f) /\ Len(f) \in Nat /\ DOMAIN g = 1 .. Len(g) /\ Len(g) \in Nat
  BY <1>1, FileLines
<1>3. (\A k \in DOMAIN g : Opening(g[k]) => k \in DOMAIN f /\ f[k] = g[k]) => Keeps(f, g, same)
  BY DEF Keeps
<1> HIDE DEF same
<1>4. ~Opening(BadLine("torn")) /\ ~Opening(BadLine("garbage"))
      /\ BadLine("torn") \in Line /\ BadLine("garbage") \in Line
  BY BadLineType DEF Opening, BadLine
<1>5. ASSUME NEW line \in Line, ~Opening(line), g = Append(f, line)
      PROVE  Keeps(f, g, same)
  <2>1. /\ g[Len(g)] = line /\ \A i \in DOMAIN f : g[i] = f[i]
        /\ \A k \in DOMAIN g : k \in DOMAIN f \/ k = Len(g)
    BY <1>1, <1>5, LineAdded
  <2> QED
    BY <1>3, <1>5, <2>1
<1>6. CASE g = f
  BY <1>3, <1>6
<1>7. CASE /\ AppendLine /\ op # NoOp /\ op.peer = p /\ op.stage = "append"
           /\ \E line \in Line : /\ line.round = op.round /\ line.role = op.kind
                                 /\ g = Appended(f, line)
  <2>1. PICK line \in Line : /\ line.round = op.round /\ line.role = op.kind
                             /\ g = Appended(f, line)
    BY <1>7
  <2>2. CASE EndsTorn(f)
    <3>1. f # <<>> /\ g = [f EXCEPT ![Len(f)] = BadLine("garbage")]
      BY <2>1, <2>2 DEF Appended, EndsTorn
    <3>2. /\ DOMAIN g = DOMAIN f /\ g[Len(f)] = BadLine("garbage")
          /\ \A i \in DOMAIN f : i # Len(f) => g[i] = f[i]
      BY <1>1, <1>4, <3>1, LineReplaced
    <3> QED
      BY <1>3, <1>4, <3>2
  <2>3. CASE ~EndsTorn(f) /\ op.kind # "inbound"
    BY <1>7, <2>1, <2>3 DEF Appended, Writing
  <2>4. CASE ~EndsTorn(f) /\ op.kind = "inbound"
    <3>1. ~Opening(line) /\ g = Append(f, line)
      BY <2>1, <2>4 DEF Appended, Opening
    <3> QED
      BY <1>5, <3>1
  <2> QED
    BY <2>2, <2>3, <2>4
<1>8. CASE g = Append(f, BadLine("torn"))
  BY <1>4, <1>5, <1>8
<1>9. CASE g = Trimmed(p)
  <2>1. PICK h : TrimsBy(f, g, h)
    BY <1>9, CapTrims DEF Trims
  <2> DEFINE was(k, i) == i \in DOMAIN f /\ h[i] = k /\ g[k] = f[i]
             src == [k \in DOMAIN g |-> CHOOSE i : was(k, i)]
  <2>2. \A k \in DOMAIN g : Opening(g[k]) => was(k, src[k])
    <3> SUFFICES ASSUME NEW k \in DOMAIN g, Opening(g[k])
                 PROVE  was(k, CHOOSE i : was(k, i))
      OBVIOUS
    <3>1. \E i : was(k, i)
      BY <1>4, <2>1 DEF TrimsBy
    <3> QED
      BY <3>1
  <2> HIDE DEF src
  <2>3. ASSUME NEW k \in DOMAIN g, NEW l \in DOMAIN g, k < l, Opening(g[k]), Opening(g[l])
        PROVE  src[k] < src[l]
    <3>1. was(k, src[k]) /\ was(l, src[l])
      BY <2>2, <2>3
    <3>2. ~(src[l] < src[k]) /\ src[l] # src[k]
      BY <1>2, <2>1, <2>3, <3>1 DEF TrimsBy
    <3> QED
      BY <1>2, <3>1, <3>2
  <2>4. Keeps(f, g, src)
    BY <2>2, <2>3 DEF Keeps
  <2> QED
    BY <2>4
<1> QED
  BY <1>6, <1>7, <1>8, <1>9, FileChange

\* Without a restart the counter of rounds does not go back, and it has moved
\* on whenever a line is about to open a round.
LEMMA CounterRises ==
    ASSUME IInv, OpShape, [Next]_vars, ~Crash, NEW p \in Peers
    PROVE  /\ crashes' = crashes
           /\ mem[p].last \in Nat /\ mem'[p].last \in Nat /\ mem[p].last <= mem'[p].last
           /\ Writing(p)' => mem[p].last < mem'[p].last \/ (Writing(p) /\ mem'[p] = mem[p])
<1>1. TypeOK /\ TypeOK'
  BY TypeStep DEF IInv
<1>2. mem[p].last \in Nat /\ mem'[p].last \in Nat
  BY <1>1 DEF TypeOK, Entry
<1>3. \A q \in Peers : Bump(mem[q]).last = mem[q].last + 1 /\ Bump(Shifted(q)).last = mem[q].last + 1
                        /\ Shifted(q).last = mem[q].last
  BY <1>1, EntryGrows
<1>4. crashes' = crashes
  BY DEF Next, vars, RecordOutbound, ImportMessages, Open, ImportNothing,
         AppendLine, EnforceCap, SaveIndex, ReadContext, Fault
<1>5. CASE op = NoOp /\ op' # NoOp
  <2>1. PICK q \in Peers : op'.peer = q /\ mem' = [mem EXCEPT ![q] = Bump(@)]
    BY <1>1, <1>5, OpBegins
  <2>2. mem'[p] = IF p = q THEN Bump(mem[p]) ELSE mem[p]
    BY <1>1, <2>1 DEF TypeOK
  <2> QED
    BY <1>2, <1>3, <1>4, <2>1, <2>2 DEF Writing
<1>6. CASE op' = NoOp
  <2>1. UNCHANGED mem
    <3>1. CASE op = NoOp
      <4>1. \A q \in Peers : \A kind, left : ~Open(q, kind, left)
        BY <1>6 DEF Open, NoOp
      <4> QED
        BY <3>1, <4>1 DEF Next, vars, RecordOutbound, ImportMessages, ImportNothing,
              AppendLine, EnforceCap, SaveIndex, ReadContext, Fault
    <3>2. CASE op # NoOp
      BY <1>1, <1>6, <3>2, OpEnds DEF SaveIndex, ReadContext, Fault
    <3> QED
      BY <3>1, <3>2
  <2> QED
    BY <1>2, <1>4, <1>6, <2>1 DEF Writing
<1>7. CASE op # NoOp /\ op' # NoOp
  <2>1. op \in Operation /\ op.peer \in Peers
    BY <1>1, <1>7, OpType
  <2>2. CASE UNCHANGED vars
    BY <1>2, <1>4, <2>2 DEF vars, Writing
  <2>3. CASE AppendLine /\ op' = [op EXCEPT !.stage = IF op.kind = "inbound" THEN "save" ELSE "cap"]
    <3>1. UNCHANGED mem /\ op'.stage # "append"
      BY <2>1, <2>3 DEF AppendLine, Operation
    <3> QED
      BY <1>2, <1>4, <3>1 DEF Writing
  <2>4. CASE /\ op' = [op EXCEPT !.stage = "append", !.round = op.round + 1, !.left = op.left - 1]
             /\ mem' = [mem EXCEPT ![op.peer] = Bump(Shifted(op.peer))]
    <3>1. op'.peer = op.peer
      BY <2>1, <2>4 DEF Operation
    <3>2. mem'[p] = IF p = op.peer THEN Bump(Shifted(p)) ELSE mem[p]
      BY <1>1, <2>4 DEF TypeOK
    <3> QED
      BY <1>2, <1>3, <1>4, <3>1, <3>2 DEF Writing
  <2>5. CASE op' = [op EXCEPT !.stage = "save"] /\ mem' = [mem EXCEPT ![op.peer] = Shifted(op.peer)]
    <3>1. op'.stage = "save"
      BY <2>1, <2>5 DEF Operation
    <3>2. mem'[p] = IF p = op.peer THEN Shifted(p) ELSE mem[p]
      BY <1>1, <2>5 DEF TypeOK
    <3> QED
      BY <1>2, <1>3, <1>4, <3>1, <3>2 DEF Writing
  <2>6. CASE SaveIndex /\ op' = [op EXCEPT !.stage = "context"]
    <3>1. UNCHANGED mem /\ op'.stage = "context"
      BY <2>1, <2>6 DEF SaveIndex, Operation
    <3> QED
      BY <1>2, <1>4, <3>1 DEF Writing
  <2>7. CASE ReadContext /\ op' = [op EXCEPT !.kind = "inbound", !.stage = "append",
                                             !.round = mem[op.peer].last]
    <3>1. UNCHANGED mem /\ op'.kind = "inbound"
      BY <2>1, <2>7 DEF ReadContext, Operation
    <3> QED
      BY <1>2, <1>4, <3>1 DEF Writing
  <2> QED
    BY <1>1, <1>7, <2>2, <2>3, <2>4, <2>5, <2>6, <2>7, OpMoves
<1> QED
  BY <1>5, <1>6, <1>7

\* A restart begins a new era; any other step goes on with the last one.
LEMMA EraStep == IInv /\ OpShape /\ EraInv /\ [Next]_vars => EraInv'
<1> SUFFICES ASSUME IInv, OpShape, EraInv, [Next]_vars, NEW p \in Peers
             PROVE  \E e : Eras(file'[p], crashes', e) /\ Fresh(p, e)'
  BY DEF EraInv
<1>1. PICK era : Eras(file[p], crashes, era) /\ Fresh(p, era)
  BY DEF EraInv
<1>2. /\ TypeOK /\ file[p] \in Seq(Line) /\ file'[p] \in Seq(Line)
      /\ crashes \in Nat /\ TypeOK'
  BY FileChange, TypeStep DEF IInv, TypeOK
<1>3. CASE /\ AppendLine /\ Writing(p)
           /\ \E line \in Line : line.round = op.round /\ file'[p] = Append(file[p], line)
  <2>1. PICK line \in Line : line.round = op.round /\ file'[p] = Append(file[p], line)
    BY <1>3
  <2>2. op.round = mem[p].last /\ mem[p].last \in Nat
    BY <1>2, <1>3 DEF OpShape, Writing, TypeOK, Entry
  <2>3. \A i \in DOMAIN file[p] : (Opening(file[p][i]) /\ era[i] = crashes) =>
           file[p][i].round < line.round
    BY <1>1, <1>3, <2>1, <2>2 DEF Fresh
  <2>4. PICK e : /\ Eras(file'[p], crashes, e)
                 /\ \A k \in DOMAIN file'[p] :
                       \/ file'[p][k] = line
                       \/ \E i \in DOMAIN file[p] : file'[p][k] = file[p][i] /\ e[k] = era[i]
    BY <1>1, <1>2, <2>1, <2>3, ErasGoOn
  <2>5. UNCHANGED <<mem, crashes>> /\ ~Writing(p)'
    <3>1. op \in Operation
      BY <1>2, <1>3, OpType DEF Writing
    <3>2. op'.stage # "append"
      BY <1>3, <3>1 DEF AppendLine, Operation
    <3> QED
      BY <1>3, <3>2 DEF AppendLine, Writing
  <2>6. Fresh(p, e)'
    <3> SUFFICES ASSUME NEW k \in DOMAIN file'[p], Opening(file'[p][k]), e[k] = crashes
                 PROVE  file'[p][k].round <= mem[p].last
      BY <2>5 DEF Fresh
    <3> QED
      BY <1>1, <2>1, <2>2, <2>4 DEF Fresh
  <2> QED
    BY <2>4, <2>5, <2>6
<1>4. CASE \E src : Keeps(file[p], file'[p], src)
  <2>1. PICK e : /\ Eras(file'[p], crashes, e)
                 /\ \A k \in DOMAIN file'[p] : Opening(file'[p][k]) =>
                       \E i \in DOMAIN file[p] : file'[p][k] = file[p][i] /\ e[k] = era[i]
    <3>1. PICK src : Keeps(file[p], file'[p], src)
      BY <1>4
    <3> DEFINE f == file[p]
               g == file'[p]
    <3>2. f \in Seq(Line) /\ g \in Seq(Line) /\ crashes \in Nat /\ Eras(f, crashes, era) /\ Keeps(f, g, src)
      BY <1>1, <1>2, <3>1
    <3> HIDE DEF f, g
    <3>3. \E e : /\ Eras(g, crashes, e)
                 /\ \A k \in DOMAIN g : Opening(g[k]) =>
                       \E i \in DOMAIN f : g[k] = f[i] /\ e[k] = era[i]
      BY <3>2, ErasKept
    <3> QED
      BY <3>3 DEF f, g
  <2>2. CASE Crash
    <3>1. crashes' = crashes + 1
      BY <2>2 DEF Crash
    <3>2. \A k \in DOMAIN file'[p] : e[k] \in 0 .. crashes
      BY <2>1 DEF Eras
    <3>3. Eras(file'[p], crashes', e)
      <4>1. e \in [DOMAIN file'[p] -> 0 .. crashes']
        BY <1>2, <2>1, <3>1 DEF Eras
      <4> QED
        BY <2>1, <4>1 DEF Eras
    <3>4. Fresh(p, e)'
      BY <1>2, <3>1, <3>2 DEF Fresh
    <3> QED
      BY <3>3, <3>4
  <2>3. CASE ~Crash
    <3>1. /\ crashes' = crashes
          /\ mem[p].last \in Nat /\ mem'[p].last \in Nat /\ mem[p].last <= mem'[p].last
          /\ Writing(p)' => mem[p].last < mem'[p].last \/ (Writing(p) /\ mem'[p] = mem[p])
      BY <2>3, CounterRises
    <3>2. \A i \in DOMAIN file[p] : file[p][i].round \in Nat
      BY <1>2, FileLines DEF Line
    <3>3. ASSUME NEW k \in DOMAIN file'[p], Opening(file'[p][k]), e[k] = crashes
          PROVE  /\ file'[p][k].round <= mem'[p].last
                 /\ Writing(p)' => file'[p][k].round < mem'[p].last
      <4>1. PICK i \in DOMAIN file[p] : file'[p][k] = file[p][i] /\ e[k] = era[i]
        BY <2>1, <3>3
      <4>2. /\ file[p][i].round <= mem[p].last
            /\ Writing(p) => file[p][i].round < mem[p].last
        BY <1>1, <3>3, <4>1 DEF Fresh
      <4> HIDE DEF Writing
      <4> QED
        BY <3>1, <3>2, <4>1, <4>2
    <3>4. Fresh(p, e)'
      BY <3>1, <3>3 DEF Fresh
    <3> QED
      BY <2>1, <3>1, <3>4
  <2> QED
    BY <2>2, <2>3
<1> QED
  BY <1>2, <1>3, <1>4, StepKeeps

\* Rounds rise through a file but where the process was restarted: History's
\* OnlyRestartsRewind.  The line before a fall is of an earlier era than the line
\* after it, so no two falls are in one era, and none is in the last.
THEOREM OnlyRestartsLowerRounds == Spec => []OnlyRestartsRewind
<1> DEFINE Inv == IInv /\ OpShape /\ FirstZero /\ EraInv
<1>1. Init => Inv
  <2> SUFFICES ASSUME Init PROVE Inv
    OBVIOUS
  <2>1. IInv /\ OpShape /\ FirstZero
    BY BookkeepingInit DEF Init, NewEntry, OpShape, FirstZero
  <2>2. \A p \in Peers : file[p] = <<>>
    BY DEF Init
  <2>3. \A p \in Peers : Eras(file[p], crashes, <<>>) /\ Fresh(p, <<>>)
    BY <2>2 DEF Eras, Fresh
  <2> QED
    BY <2>1, <2>3 DEF EraInv
<1>2. Inv /\ [Next]_vars => Inv'
  BY BookkeepingStep, ShapeStep, EraStep
<1>3. Inv => OnlyRestartsRewind
  <2> SUFFICES ASSUME IInv, EraInv, NEW p \in Peers
               PROVE  LET opens == {i \in DOMAIN file[p] : Opens(file[p][i], file[p][i].round)}
                      IN  Cardinality({i \in opens : \E j \in opens :
                                          /\ i < j /\ file[p][j].round <= file[p][i].round
                                          /\ \A k \in opens : ~(i < k /\ k < j)}) <= crashes
    BY DEF OnlyRestartsRewind
  <2> DEFINE f == file[p]
             opens == {i \in DOMAIN f : Opens(f[i], f[i].round)}
             next(i, j) == /\ i < j /\ f[j].round <= f[i].round
                           /\ \A k \in opens : ~(i < k /\ k < j)
             falls == {i \in opens : \E j \in opens : next(i, j)}
  <2>1. PICK era : Eras(f, crashes, era)
    BY DEF EraInv
  <2>2. /\ f \in Seq(Line) /\ crashes \in Nat
        /\ DOMAIN f = 1 .. Len(f) /\ Len(f) \in Nat
        /\ \A i \in DOMAIN f : f[i].round \in Nat
    BY FileLines DEF IInv, TypeOK, Line
  <2>3. \A i \in opens : i \in DOMAIN f /\ Opening(f[i]) /\ i \in Nat /\ f[i].round \in Nat
                         /\ era[i] \in 0 .. crashes
    BY <2>1, <2>2 DEF Opens, Opening, Eras
  <2>4. \A i, j \in opens : i < j =>
           era[i] <= era[j] /\ (era[i] = era[j] => f[i].round < f[j].round)
    BY <2>1, <2>3 DEF Eras
  <2> HIDE DEF opens, f
  <2>5. \A i, j \in opens : next(i, j) => era[i] < era[j]
    BY <2>2, <2>3, <2>4
  <2>6. \A i, k \in falls : i < k => era[i] < era[k]
    <3> SUFFICES ASSUME NEW i \in falls, NEW k \in falls, i < k PROVE era[i] < era[k]
      OBVIOUS
    <3>1. PICK j \in opens : next(i, j)
      OBVIOUS
    <3>2. i \in opens /\ k \in opens
      OBVIOUS
    <3>3. era[i] < era[j] /\ j <= k
      BY <2>3, <2>5, <3>1, <3>2
    <3>4. era[j] <= era[k]
      BY <2>3, <2>4, <3>2, <3>3
    <3> QED
      BY <2>2, <2>3, <3>2, <3>3, <3>4
  <2>7. \A i \in falls : era[i] \in 0 .. crashes - 1 /\ i \in Nat
    <3> SUFFICES ASSUME NEW i \in opens, NEW j \in opens, next(i, j)
                 PROVE  era[i] \in 0 .. crashes - 1 /\ i \in Nat
      OBVIOUS
    <3>1. era[i] < era[j]
      BY <2>5
    <3> QED
      BY <2>2, <2>3, <3>1
  <2> HIDE DEF falls
  <2> DEFINE g == [i \in falls |-> era[i]]
  <2>8. g \in Injection(falls, 0 .. crashes - 1)
    BY <2>2, <2>6, <2>7 DEF Injection, IsInjective
  <2>9. IsFiniteSet(0 .. crashes - 1) /\ Cardinality(0 .. crashes - 1) = crashes
    <3>1. crashes - 1 \in Int /\ crashes \in Nat
      BY <2>2
    <3>2. Cardinality(0 .. crashes - 1) = IF 0 > crashes - 1 THEN 0 ELSE crashes - 1 - 0 + 1
      BY <3>1, FS_Interval
    <3> QED
      BY <3>1, <3>2, FS_Interval
  <2>10. Cardinality(falls) <= crashes
    BY <2>8, <2>9, FS_Injection
  <2> QED
    BY <2>10 DEF falls, opens, f
<1> HIDE DEF Inv
<1> QED
  BY <1>1, <1>2, <1>3, PTL DEF Spec
=============================================================================
