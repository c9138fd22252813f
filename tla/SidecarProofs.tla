--------------------------- MODULE SidecarProofs ---------------------------
(***************************************************************************)
(* Proofs about Sidecar, for any number of tasks, cancellations, failed    *)
(* appends and restarts: type correctness, that the file catches up with   *)
(* the tasks in memory, how many tasks failed appends and restarts can     *)
(* cost, and what can undo a cancellation.                                 *)
(*                                                                         *)
(* The argument is about the last append of a task.  A thread that changes *)
(* the task is about to write it, and writes it as it is by then; so the   *)
(* last of them writes what the last change left.                          *)
(***************************************************************************)
EXTENDS Sidecar, FiniteSetTheorems, SequenceTheorems, TLAPS

Lines == Record \cup Damaged

\* A thread writes only tasks that are known, and a task whose message has not
\* arrived is known to nobody.
Bound ==
    \A t \in Tasks :
        /\ Writing(t) => mem[t] # "unknown"
        /\ sending[t] = "none" =>
              /\ mem[t] = "unknown"
              /\ dispatch[t] = "none"
              /\ \A i \in DOMAIN file : ~IsLineOf(file[i], t)

\* The inductive invariant.
SInv == TypeOK /\ Bound /\ CaughtUp

-----------------------------------------------------------------------------
(* The file *)

\* Lines that parse are the records.
LEMMA RecordLines ==
    /\ \A line \in Record : IsRecord(line) /\ line.task \in Tasks /\ line.state \in States
    /\ \A line \in Damaged : ~IsRecord(line)
    /\ \A d \in Damage : [damage |-> d] \in Damaged
<1>1. \A line \in Record : IsRecord(line) /\ line.task \in Tasks /\ line.state \in States
  BY DEF Record, IsRecord
<1>2. \A line \in Damaged : ~IsRecord(line)
  BY DEF Damaged, IsRecord
<1>3. \A d \in Damage : [damage |-> d] \in Damaged
  BY DEF Damaged
<1> QED
  BY <1>1, <1>2, <1>3

\* Replacing the last line, and the file it leaves.
LEMMA Spoiled ==
    ASSUME NEW f \in Seq(Lines), f # <<>>, NEW d \in Damage,
           NEW g, g = [f EXCEPT ![Len(f)] = [damage |-> d]]
    PROVE  /\ g \in Seq(Lines)
           /\ ~Intact(g)
           /\ \A t \in Tasks : \A i \in DOMAIN g :
                IsLineOf(g[i], t) => i \in DOMAIN f /\ IsLineOf(f[i], t)
<1>1. [damage |-> d] \in Damaged /\ ~IsRecord([damage |-> d])
  BY RecordLines
<1>2. Len(f) \in 1 .. Len(f)
  BY EmptySeq
<1> DEFINE e == [damage |-> d]
<1> HIDE DEF e
<1>3. e \in Lines /\ ~IsRecord(e) /\ g = [f EXCEPT ![Len(f)] = e]
  BY <1>1 DEF e, Lines
<1>4. /\ g \in Seq(Lines) /\ Len(g) = Len(f)
      /\ \A j \in 1 .. Len(f) : g[j] = IF j = Len(f) THEN e ELSE f[j]
  BY <1>2, <1>3, ExceptSeq
<1>5. DOMAIN g = 1 .. Len(f) /\ DOMAIN f = 1 .. Len(f)
  BY <1>4, LenProperties
<1> QED
  BY <1>2, <1>3, <1>4, <1>5 DEF Intact, IsLineOf

\* Adding a line to a file.
LEMMA Added ==
    ASSUME NEW f \in Seq(Lines), NEW line \in Lines
    PROVE  /\ Append(f, line) \in Seq(Lines)
           /\ DOMAIN f = 1 .. Len(f) /\ Len(f) \in Nat
           /\ DOMAIN Append(f, line) = 1 .. Len(f) + 1
           /\ \A i \in 1 .. Len(f) : Append(f, line)[i] = f[i]
           /\ Append(f, line)[Len(f) + 1] = line
OBVIOUS

\* An append leaves a file of lines, with no new lines but its own; and if all
\* of them parse, they did before, and its own is the last.
LEMMA AppendedFile ==
    ASSUME NEW f \in Seq(Lines), NEW line \in Record
    PROVE  /\ Appended(f, line) \in Seq(Lines)
           /\ Intact(Appended(f, line)) => /\ Intact(f)
                                           /\ Appended(f, line) = Append(f, line)
           /\ \A t \in Tasks :
                line.task # t /\ (\A i \in DOMAIN f : ~IsLineOf(f[i], t)) =>
                    \A i \in DOMAIN Appended(f, line) : ~IsLineOf(Appended(f, line)[i], t)
<1>1. CASE Ends(f, {"torn"})
  <2>1. f # <<>> /\ Appended(f, line) = [f EXCEPT ![Len(f)] = [damage |-> "garbage"]]
    BY <1>1 DEF Ends, Appended
  <2>2. "garbage" \in Damage
    BY DEF Damage
  <2> QED
    BY <2>1, <2>2, Spoiled
<1>2. CASE ~Ends(f, {"torn"}) /\ Ends(f, {"cut", "broken"})
  <2>1. f # <<>> /\ Appended(f, line) = [f EXCEPT ![Len(f)] = [damage |-> "undecodable"]]
    BY <1>2 DEF Ends, Appended
  <2>2. "undecodable" \in Damage
    BY DEF Damage
  <2> QED
    BY <2>1, <2>2, Spoiled
<1>3. CASE ~Ends(f, {"torn"}) /\ ~Ends(f, {"cut", "broken"})
  <2>1. Appended(f, line) = Append(f, line)
    BY <1>3 DEF Appended
  <2>2. line \in Lines
    BY DEF Lines
  <2> QED
    BY <2>1, <2>2, Added DEF Intact, IsLineOf
<1> QED
  BY <1>1, <1>2, <1>3

\* An interrupted append leaves a file of lines, with no new record; and if
\* all of them parse, nothing was written.
LEMMA InterruptedFile ==
    ASSUME NEW f \in Seq(Lines), NEW g \in Interrupted(f)
    PROVE  /\ g \in Seq(Lines)
           /\ Intact(g) => g = f
           /\ \A t \in Tasks :
                (\A i \in DOMAIN f : ~IsLineOf(f[i], t)) =>
                    \A i \in DOMAIN g : ~IsLineOf(g[i], t)
<1>1. CASE g = f
  BY <1>1
<1>2. CASE f # <<>> /\ \E d \in {"cut", "broken"} : g = [f EXCEPT ![Len(f)] = [damage |-> d]]
  BY <1>2, Spoiled DEF Damage
<1>3. CASE \E d \in {"torn", "cut"} : g = Append(f, [damage |-> d])
  <2>1. PICK d \in {"torn", "cut"} : g = Append(f, [damage |-> d])
    BY <1>3
  <2> DEFINE e == [damage |-> d]
  <2>2. e \in Lines /\ ~IsRecord(e)
    BY RecordLines DEF Damage, Lines
  <2> HIDE DEF e
  <2>3. g = Append(f, e)
    BY <2>1 DEF e
  <2> QED
    BY <2>2, <2>3, Added DEF Intact, IsLineOf
<1> QED
  BY <1>1, <1>2, <1>3 DEF Interrupted, Ends

\* The line appended last gives its task its state, and no other task one.
LEMMA LastAppended ==
    ASSUME NEW f \in Seq(Lines), NEW line \in Record
    PROVE  /\ LastState(Append(f, line), line.task) = line.state
           /\ \A t \in Tasks : t # line.task =>
                LastState(Append(f, line), t) = LastState(f, t)
<1> DEFINE g == Append(f, line)
           n == Len(f) + 1
<1>1. IsRecord(line) /\ line \in Lines
  BY RecordLines DEF Lines
<1>2. /\ DOMAIN f = 1 .. Len(f) /\ Len(f) \in Nat
      /\ DOMAIN g = 1 .. n
      /\ \A i \in 1 .. Len(f) : g[i] = f[i]
      /\ g[n] = line
  BY <1>1, Added
<1> HIDE DEF g
<1>3. LastState(g, line.task) = line.state
  <2>1. LastLine(g, line.task) = {n}
    BY <1>1, <1>2 DEF LastLine, IsLineOf
  <2> QED
    BY <1>2, <2>1 DEF LastState
<1>4. ASSUME NEW t \in Tasks, t # line.task
      PROVE  LastState(g, t) = LastState(f, t)
  <2>1. LastLine(g, t) = LastLine(f, t)
    BY <1>2, <1>4 DEF LastLine, IsLineOf
  <2>2. CASE LastLine(f, t) = {}
    BY <2>1, <2>2 DEF LastState
  <2>3. CASE LastLine(f, t) # {}
    <3>1. (CHOOSE i \in LastLine(f, t) : TRUE) \in 1 .. Len(f)
      BY <1>2, <2>3 DEF LastLine
    <3> QED
      BY <1>2, <2>1, <2>3, <3>1 DEF LastState
  <2> QED
    BY <2>2, <2>3
<1> QED
  BY <1>3, <1>4 DEF g

\* A state read from a file is a state.
LEMMA LastStateType ==
    ASSUME NEW f \in Seq(Lines), NEW t \in Tasks
    PROVE  /\ LastState(f, t) \in States \cup {"unknown"}
           /\ (\A i \in DOMAIN f : ~IsLineOf(f[i], t)) => LastState(f, t) = "unknown"
<1>1. CASE LastLine(f, t) = {}
  BY <1>1 DEF LastState
<1>2. CASE LastLine(f, t) # {}
  <2> DEFINE i == CHOOSE i \in LastLine(f, t) : TRUE
  <2>1. i \in DOMAIN f /\ IsLineOf(f[i], t)
    BY <1>2 DEF LastLine
  <2>2. f[i] \in Lines
    BY <2>1
  <2>3. f[i].state \in States
    BY <2>1, <2>2, RecordLines DEF Lines, IsLineOf
  <2> QED
    BY <1>2, <2>1, <2>3 DEF LastState
<1> QED
  BY <1>1, <1>2

\* The first lines of a file are lines of it.
LEMMA Initial ==
    ASSUME NEW k \in Nat, NEW n \in 0 .. k
    PROVE  n \in Nat /\ 1 .. n \subseteq 1 .. k
OBVIOUS

\* A restart reads as much of the file as there is, or less.
LEMMA LoadsType ==
    ASSUME NEW f \in Seq(Lines), NEW m \in Loads(f)
    PROVE  /\ m \in [Tasks -> States \cup {"unknown"}]
           /\ \A t \in Tasks : (\A i \in DOMAIN f : ~IsLineOf(f[i], t)) => m[t] = "unknown"
           /\ Undecodable(f) = {} => \A t \in Tasks : m[t] = LastState(f, t)
           /\ Intact(f) => \A t \in Tasks : m[t] = LastState(f, t)
<1>1. PICK n \in LinesRead(f) : m = [t \in Tasks |-> LastState(SubSeq(f, 1, n), t)]
  BY DEF Loads
<1>2. Len(f) \in Nat /\ DOMAIN f = 1 .. Len(f)
  OBVIOUS
<1>3. n \in 0 .. Len(f) /\ (Undecodable(f) = {} => n = Len(f))
  <2>1. CASE Undecodable(f) = {}
    <3>1. LinesRead(f) = {Len(f)}
      BY <2>1 DEF LinesRead
    <3> QED
      BY <1>2, <3>1
  <2>2. CASE Undecodable(f) # {} /\ Undecodable(f) = {Len(f)} /\ Ends(f, {"cut"})
    <3>1. LinesRead(f) = {Len(f) - 1}
      BY <2>2 DEF LinesRead
    <3>2. Len(f) \in 1 .. Len(f)
      BY <2>2, EmptySeq DEF Ends
    <3>3. n = Len(f) - 1
      BY <3>1
    <3>4. n \in 0 .. Len(f)
      BY <1>2, <3>2, <3>3
    <3> QED
      BY <2>2, <3>4
  <2>3. CASE Undecodable(f) # {} /\ ~(Undecodable(f) = {Len(f)} /\ Ends(f, {"cut"}))
    <3>1. LinesRead(f) = {k \in 0 .. Len(f) : \A i \in Undecodable(f) : k < i}
      BY <2>3 DEF LinesRead
    <3> QED
      BY <2>3, <3>1
  <2> QED
    BY <2>1, <2>2, <2>3
<1> DEFINE g == SubSeq(f, 1, n)
<1>4. /\ g \in Seq(Lines) /\ DOMAIN g = 1 .. n /\ Len(g) = n
      /\ \A i \in 1 .. n : g[i] = f[i]
  <2>1. n \in Nat /\ 1 .. n \subseteq DOMAIN f
    BY <1>2, <1>3, Initial
  <2>2. n \in Nat /\ \A i \in 1 .. n : i \in DOMAIN f /\ f[i] \in Lines
    BY <2>1
  <2>3. g \in Seq(Lines) /\ Len(g) = n
    BY <2>2, SubSeqProperties
  <2>4. \A i \in 1 .. n : g[i] = f[i]
    BY <2>2, SubSeqProperties
  <2> HIDE DEF g
  <2>5. DOMAIN g = 1 .. n
    BY <2>3
  <2> QED
    BY <2>3, <2>4, <2>5
<1>5. Undecodable(f) = {} => g = f
  <2> SUFFICES ASSUME Undecodable(f) = {} PROVE g = f
    OBVIOUS
  <2> HIDE DEF g
  <2>1. Len(g) = Len(f) /\ \A i \in 1 .. Len(g) : g[i] = f[i]
    BY <1>2, <1>3, <1>4
  <2> QED
    BY <1>4, <2>1, SeqEqual
<1>6. m = [t \in Tasks |-> LastState(g, t)]
  BY <1>1
<1> HIDE DEF g
<1>7. \A t \in Tasks :
        (\A i \in DOMAIN f : ~IsLineOf(f[i], t)) => \A i \in DOMAIN g : ~IsLineOf(g[i], t)
  <2>1. 1 .. n \subseteq 1 .. Len(f)
    BY <1>2, <1>3, Initial
  <2>2. \A i \in DOMAIN g : i \in DOMAIN f /\ g[i] = f[i]
    BY <1>2, <1>4, <2>1
  <2> QED
    BY <2>2
<1>8. Intact(f) => Undecodable(f) = {}
  <2>1. ASSUME Intact(f) PROVE \A i \in DOMAIN f : f[i] \notin Damaged
    BY <2>1, RecordLines DEF Intact
  <2> QED
    BY <2>1, RecordLines DEF Undecodable, Damage
<1> QED
  BY <1>4, <1>5, <1>6, <1>7, <1>8, LastStateType

-----------------------------------------------------------------------------
(* The steps *)

\* An append, of whichever thread, writes the task as it is.
LEMMA PersistStep ==
    ASSUME SInv, NEW t \in Tasks, mem[t] # "unknown", Persist(t)
    PROVE  /\ file' \in Seq(Lines) /\ faults' \in 0 .. FaultBound
           /\ \A u \in Tasks :
                u # t /\ (\A i \in DOMAIN file : ~IsLineOf(file[i], u)) =>
                    \A i \in DOMAIN file' : ~IsLineOf(file'[i], u)
           /\ (faults' = 0 /\ Intact(file')) =>
                /\ faults = 0 /\ Intact(file)
                /\ LastState(file', t) = mem[t]
                /\ \A u \in Tasks : u # t => LastState(file', u) = LastState(file, u)
<1> DEFINE line == [task |-> t, state |-> mem[t]]
<1>1. file \in Seq(Lines) /\ faults \in 0 .. FaultBound /\ FaultBound \in Nat
  BY SidecarAssumption DEF SInv, TypeOK, Lines
<1>2. line \in Record /\ line.task = t /\ line.state = mem[t]
  BY DEF SInv, TypeOK, Record
<1> HIDE DEF line
<1>3. CASE file' = Appended(file, line) /\ UNCHANGED faults
  <2>1. file' \in Seq(Lines) /\ faults' \in 0 .. FaultBound
    BY <1>1, <1>2, <1>3, AppendedFile
  <2>2. \A u \in Tasks :
          u # t /\ (\A i \in DOMAIN file : ~IsLineOf(file[i], u)) =>
              \A i \in DOMAIN file' : ~IsLineOf(file'[i], u)
    BY <1>1, <1>2, <1>3, AppendedFile
  <2>3. ASSUME Intact(file')
        PROVE  Intact(file) /\ file' = Append(file, line)
    BY <1>1, <1>2, <1>3, <2>3, AppendedFile
  <2>4. /\ LastState(Append(file, line), t) = mem[t]
        /\ \A u \in Tasks : u # t => LastState(Append(file, line), u) = LastState(file, u)
    BY <1>1, <1>2, LastAppended
  <2> QED
    BY <1>3, <2>1, <2>2, <2>3, <2>4
<1>4. CASE faults < FaultBound /\ file' \in Interrupted(file) /\ faults' = faults + 1
  BY <1>1, <1>4, InterruptedFile
<1> QED
  BY <1>3, <1>4 DEF Persist, line

\* A restart is at one with the file it reads.
LEMMA RestartStep ==
    ASSUME SInv, Restart
    PROVE  /\ file' \in Seq(Lines) /\ mem' \in [Tasks -> States \cup {"unknown"}]
           /\ \A u \in Tasks :
                (\A i \in DOMAIN file : ~IsLineOf(file[i], u)) =>
                    /\ \A i \in DOMAIN file' : ~IsLineOf(file'[i], u)
                    /\ mem'[u] = "unknown"
           /\ Intact(file') => /\ file' = file
                               /\ \A u \in Tasks : mem'[u] = LastState(file', u)
           /\ Undecodable(file') = {} => \A u \in Tasks : mem'[u] = LastState(file', u)
<1>1. file \in Seq(Lines) /\ file \in Interrupted(file)
  BY DEF SInv, TypeOK, Lines, Interrupted
<1>2. file' \in Interrupted(file) /\ mem' \in Loads(file')
  BY <1>1 DEF Restart
<1> QED
  BY <1>1, <1>2, InterruptedFile, LoadsType

\* Initially nothing is known.
LEMMA SInvInit == Init => SInv
<1> SUFFICES ASSUME Init PROVE SInv
  OBVIOUS
<1>1. file = <<>> /\ DOMAIN file = {}
  BY DEF Init
<1>2. TypeOK
  BY <1>1, SidecarAssumption DEF Init, TypeOK
<1>3. \A t \in Tasks : LastState(file, t) = "unknown"
  BY <1>1 DEF LastState, LastLine
<1>4. Bound
  BY <1>1 DEF Init, Bound, Writing, NoCancel
<1>5. CaughtUp
  BY <1>3 DEF Init, CaughtUp
<1> QED
  BY <1>2, <1>4, <1>5 DEF SInv

\* A thread that writes task t, and is through with it afterwards or not.
LEMMA PersistKeeps ==
    ASSUME SInv, NEW t \in Tasks, mem[t] # "unknown", Persist(t),
           UNCHANGED <<mem, crashes>>,
           sending' \in [Tasks -> {"none", "new", "started", "refused", "lost"}],
           dispatch' \in [Tasks -> {"none", "calling", "called", "over", "lost"}],
           cancel' \in [Requests -> {NoCancel} \cup
                            [stage : {"set", "answered", "lost"}, task : Tasks]],
           \A u \in Tasks : Writing(u)' => Writing(u),
           \A u \in Tasks : u # t => (Writing(u) => Writing(u)'),
           \A u \in Tasks : sending'[u] = "none" =>
                sending[u] = "none" /\ dispatch'[u] = dispatch[u]
    PROVE  SInv'
<1>1. TypeOK'
  BY PersistStep DEF SInv, TypeOK, Lines
<1>2. Bound'
  <2> SUFFICES ASSUME NEW u \in Tasks
               PROVE  /\ Writing(u)' => mem'[u] # "unknown"
                      /\ sending'[u] = "none" =>
                            /\ mem'[u] = "unknown"
                            /\ dispatch'[u] = "none"
                            /\ \A i \in DOMAIN file' : ~IsLineOf(file'[i], u)
    BY DEF Bound
  <2>1. Writing(u)' => mem'[u] # "unknown"
    BY DEF SInv, Bound
  <2>2. ASSUME sending'[u] = "none"
        PROVE  /\ mem'[u] = "unknown" /\ dispatch'[u] = "none" /\ u # t
               /\ \A i \in DOMAIN file : ~IsLineOf(file[i], u)
    BY <2>2 DEF SInv, Bound
  <2> QED
    BY <2>1, <2>2, PersistStep
<1>3. CaughtUp'
  BY PersistStep DEF SInv, CaughtUp
<1> QED
  BY <1>1, <1>2, <1>3 DEF SInv

\* A thread that changes task t, and is about to write it.
LEMMA ChangeKeeps ==
    ASSUME SInv, NEW t \in Tasks, NEW s \in States,
           mem' = [mem EXCEPT ![t] = s], UNCHANGED <<file, faults, crashes>>,
           sending' \in [Tasks -> {"none", "new", "started", "refused", "lost"}],
           dispatch' \in [Tasks -> {"none", "calling", "called", "over", "lost"}],
           cancel' \in [Requests -> {NoCancel} \cup
                            [stage : {"set", "answered", "lost"}, task : Tasks]],
           Writing(t)', sending'[t] # "none",
           \A u \in Tasks : u # t =>
                /\ Writing(u)' <=> Writing(u)
                /\ sending'[u] = sending[u] /\ dispatch'[u] = dispatch[u]
    PROVE  SInv'
<1>1. TypeOK'
  BY DEF SInv, TypeOK
<1>2. mem'[t] = s /\ s # "unknown" /\ \A u \in Tasks : u # t => mem'[u] = mem[u]
  BY DEF SInv, TypeOK, States
<1>3. Bound'
  <2> SUFFICES ASSUME NEW u \in Tasks
               PROVE  /\ Writing(u)' => mem'[u] # "unknown"
                      /\ sending'[u] = "none" =>
                            /\ mem'[u] = "unknown"
                            /\ dispatch'[u] = "none"
                            /\ \A i \in DOMAIN file' : ~IsLineOf(file'[i], u)
    BY DEF Bound
  <2>1. CASE u = t
    BY <1>2, <2>1
  <2>2. CASE u # t
    BY <1>2, <2>2 DEF SInv, Bound
  <2> QED
    BY <2>1, <2>2
<1>4. CaughtUp'
  BY <1>2 DEF SInv, CaughtUp
<1> QED
  BY <1>1, <1>3, <1>4 DEF SInv

\* Every step keeps the invariant.
LEMMA SInvNext == SInv /\ [Next]_vars => SInv'
<1> SUFFICES ASSUME SInv, [Next]_vars PROVE SInv'
  OBVIOUS
<1> USE SidecarAssumption
<1>1. ASSUME NEW t \in Tasks, NewTask(t) PROVE SInv'
  <2>1. Writing(t)' /\ sending'[t] # "none"
    BY <1>1 DEF NewTask, SInv, TypeOK, Writing
  <2>2. \A u \in Tasks : u # t => /\ Writing(u)' <=> Writing(u)
                                  /\ sending'[u] = sending[u] /\ dispatch'[u] = dispatch[u]
    BY <1>1 DEF NewTask, SInv, TypeOK, Writing
  <2>3. sending' \in [Tasks -> {"none", "new", "started", "refused", "lost"}]
    BY <1>1 DEF NewTask, SInv, TypeOK
  <2>4. "submitted" \in States
    BY DEF States
  <2> QED
    BY <1>1, <2>1, <2>2, <2>3, <2>4, ChangeKeeps DEF NewTask, SInv, TypeOK
<1>2. ASSUME NEW t \in Tasks, PersistNew(t) PROVE SInv'
  <2>1. mem[t] # "unknown"
    BY <1>2 DEF PersistNew, SInv, Bound, Writing
  <2>2. \A u \in Tasks : /\ Writing(u)' => Writing(u)
                         /\ u # t => (Writing(u) => Writing(u)')
    BY <1>2 DEF PersistNew, SInv, TypeOK, Writing
  <2>3. \A u \in Tasks : sending'[u] = "none" =>
            sending[u] = "none" /\ dispatch'[u] = dispatch[u]
    BY <1>2 DEF PersistNew, SInv, TypeOK
  <2>4. /\ sending' \in [Tasks -> {"none", "new", "started", "refused", "lost"}]
        /\ dispatch' \in [Tasks -> {"none", "calling", "called", "over", "lost"}]
    BY <1>2 DEF PersistNew, SInv, TypeOK
  <2> QED
    BY <1>2, <2>1, <2>2, <2>3, <2>4, PersistKeeps DEF PersistNew, SInv, TypeOK
<1>3. ASSUME NEW t \in Tasks, Dispatch(t) PROVE SInv'
  <2>1. PICK s \in {"working", "failed"} : mem' = [mem EXCEPT ![t] = s]
    BY <1>3 DEF Dispatch
  <2>2. Writing(t)' /\ sending'[t] # "none"
    BY <1>3 DEF Dispatch, SInv, TypeOK, Bound, Writing
  <2>3. \A u \in Tasks : u # t => /\ Writing(u)' <=> Writing(u)
                                  /\ sending'[u] = sending[u] /\ dispatch'[u] = dispatch[u]
    BY <1>3 DEF Dispatch, SInv, TypeOK, Writing
  <2>4. dispatch' \in [Tasks -> {"none", "calling", "called", "over", "lost"}]
    BY <1>3 DEF Dispatch, SInv, TypeOK
  <2>5. s \in States
    BY DEF States
  <2> QED
    BY <1>3, <2>1, <2>2, <2>3, <2>4, <2>5, ChangeKeeps DEF Dispatch, SInv, TypeOK
<1>4. ASSUME NEW t \in Tasks, PersistDispatched(t) PROVE SInv'
  <2>1. mem[t] # "unknown" /\ sending[t] # "none"
    BY <1>4 DEF PersistDispatched, SInv, Bound, Writing
  <2>2. \A u \in Tasks : /\ Writing(u)' => Writing(u)
                         /\ u # t => (Writing(u) => Writing(u)')
    BY <1>4 DEF PersistDispatched, SInv, TypeOK, Writing
  <2>3. \A u \in Tasks : sending'[u] = "none" =>
            sending[u] = "none" /\ dispatch'[u] = dispatch[u]
    BY <1>4, <2>1 DEF PersistDispatched, SInv, TypeOK
  <2>4. dispatch' \in [Tasks -> {"none", "calling", "called", "over", "lost"}]
    BY <1>4 DEF PersistDispatched, SInv, TypeOK
  <2> QED
    BY <1>4, <2>1, <2>2, <2>3, <2>4, PersistKeeps DEF PersistDispatched, SInv, TypeOK
<1>5. ASSUME NEW r \in Requests, NEW t \in Tasks, CancelTask(r, t) PROVE SInv'
  <2>1. cancel' = [cancel EXCEPT ![r] = [stage |-> "set", task |-> t]]
    BY <1>5 DEF CancelTask
  <2>2. cancel'[r] = [stage |-> "set", task |-> t]
    BY <2>1 DEF SInv, TypeOK
  <2>3. Writing(t)' /\ sending'[t] # "none"
    BY <1>5, <2>2 DEF CancelTask, SInv, Bound, Writing
  <2>4. \A u \in Tasks : u # t => (Writing(u)' <=> Writing(u))
    BY <1>5, <2>1 DEF CancelTask, SInv, TypeOK, Writing, NoCancel
  <2>5. cancel' \in [Requests -> {NoCancel} \cup
                        [stage : {"set", "answered", "lost"}, task : Tasks]]
    BY <2>1 DEF SInv, TypeOK
  <2>6. "canceled" \in States
    BY DEF States
  <2> QED
    BY <1>5, <2>3, <2>4, <2>5, <2>6, ChangeKeeps DEF CancelTask, SInv, TypeOK
<1>6. ASSUME NEW r \in Requests, PersistCancel(r) PROVE SInv'
  <2> DEFINE t == cancel[r].task
  <2>1. t \in Tasks /\ cancel[r] = [stage |-> "set", task |-> t]
    BY <1>6 DEF PersistCancel, SInv, TypeOK, NoCancel
  <2>2. cancel' = [cancel EXCEPT ![r] = [stage |-> "answered", task |-> t]]
    <3>1. cancel' = [cancel EXCEPT ![r] = [cancel[r] EXCEPT !.stage = "answered"]]
      BY <1>6, <2>1 DEF PersistCancel, SInv, TypeOK
    <3>2. [[stage |-> "set", task |-> t] EXCEPT !.stage = "answered"]
             = [stage |-> "answered", task |-> t]
      OBVIOUS
    <3> QED
      BY <2>1, <3>1, <3>2
  <2> HIDE DEF t
  <2>3. mem[t] # "unknown"
    BY <2>1 DEF SInv, Bound, Writing
  <2>4. \A u \in Tasks : /\ Writing(u)' => Writing(u)
                         /\ u # t => (Writing(u) => Writing(u)')
    BY <1>6, <2>1, <2>2 DEF PersistCancel, SInv, TypeOK, Writing
  <2>5. cancel' \in [Requests -> {NoCancel} \cup
                        [stage : {"set", "answered", "lost"}, task : Tasks]]
    BY <2>1, <2>2 DEF SInv, TypeOK
  <2>6. Persist(t) /\ UNCHANGED <<mem, sending, dispatch, crashes>>
    BY <1>6 DEF PersistCancel, t
  <2> QED
    BY <2>1, <2>3, <2>4, <2>5, <2>6, PersistKeeps DEF SInv, TypeOK
<1>7. ASSUME Restart PROVE SInv'
  <2>1. \A t \in Tasks : /\ sending'[t] = IF sending[t] = "none" THEN "none" ELSE "lost"
                         /\ dispatch'[t] = IF dispatch[t] = "none" THEN "none" ELSE "lost"
    BY <1>7 DEF Restart
  <2>2. \A r \in Requests : cancel'[r] = IF cancel[r] = NoCancel THEN NoCancel
                                         ELSE [stage |-> "lost", task |-> cancel[r].task]
    BY <1>7 DEF Restart
  <2>3. \A t \in Tasks : ~Writing(t)'
    <3>1. ASSUME NEW r \in Requests PROVE cancel'[r].stage # "set"
      <4> DEFINE c == cancel[r].task
      <4>1. CASE cancel'[r] = [stage |-> "idle"]
        BY <4>1
      <4>2. CASE cancel'[r] = [stage |-> "lost", task |-> c]
        <5> HIDE DEF c
        <5> QED
          BY <4>2
      <4> QED
        BY <2>2, <4>1, <4>2 DEF NoCancel
    <3>2. ASSUME NEW r \in Requests, NEW t \in Tasks
          PROVE  cancel'[r] # [stage |-> "set", task |-> t]
      <4>1. [stage |-> "set", task |-> t].stage = "set"
        OBVIOUS
      <4> QED
        BY <3>1, <4>1
    <3> QED
      BY <2>1, <3>2 DEF Writing
  <2>4. TypeOK'
    <3>1. /\ sending' \in [Tasks -> {"none", "new", "started", "refused", "lost"}]
          /\ dispatch' \in [Tasks -> {"none", "calling", "called", "over", "lost"}]
      BY <1>7 DEF Restart
    <3>2. cancel' \in [Requests -> {NoCancel} \cup
                          [stage : {"set", "answered", "lost"}, task : Tasks]]
      BY <1>7 DEF Restart, SInv, TypeOK
    <3>3. crashes' \in 0 .. CrashBound /\ faults' \in 0 .. FaultBound
      BY <1>7 DEF Restart, SInv, TypeOK
    <3> QED
      BY <1>7, <3>1, <3>2, <3>3, RestartStep DEF TypeOK, Lines
  <2>5. Bound'
    BY <1>7, <2>1, <2>3, RestartStep DEF SInv, Bound
  <2>6. CaughtUp'
    BY <1>7, RestartStep DEF CaughtUp
  <2> QED
    BY <2>4, <2>5, <2>6 DEF SInv
<1>8. CASE UNCHANGED vars
  BY <1>8 DEF vars, SInv, TypeOK, Bound, CaughtUp, Writing
<1> QED
  BY <1>1, <1>2, <1>3, <1>4, <1>5, <1>6, <1>7, <1>8 DEF Next

\* Every reachable state satisfies the invariant.
LEMMA SInvAlways == Spec => []SInv
<1> QED
  BY SInvInit, SInvNext, PTL DEF Spec

-----------------------------------------------------------------------------
(* The theorems *)

\* Every variable of the sidecar holds a value of its kind, for any number of
\* tasks and threads (TypeOK).
THEOREM SidecarTypeCorrect == Spec => []TypeOK
<1>1. SInv => TypeOK
  BY DEF SInv
<1> QED
  BY <1>1, SInvAlways, PTL

\* Once no thread is about to write a task, its last line is the task in
\* memory, for any number of threads that change and write it (CaughtUp).
THEOREM FileCatchesUp == Spec => []CaughtUp
<1>1. SInv => CaughtUp
  BY DEF SInv
<1> QED
  BY <1>1, SInvAlways, PTL

\* What takes a task out of the cancelled state: a dispatch on its way, or a
\* restart that finds damage or an unwritten cancellation (CancelUndone).
THEOREM CancellationStands == Spec => CancelUndone
<1> DEFINE Undone(t) ==
      \/ dispatch[t] = "calling" /\ dispatch'[t] = "called"
      \/ crashes' > crashes /\ (Writing(t) \/ faults > 0 \/ ~Intact(file'))
<1>1. ASSUME SInv, [Next]_vars, NEW t \in Tasks, mem[t] = "canceled", mem'[t] # "canceled"
      PROVE  Undone(t)
  <2>1. CASE Restart
    <3>1. crashes' > crashes
      BY <1>1, <2>1 DEF Restart, SInv, TypeOK
    <3>2. ASSUME ~Writing(t), ~(faults > 0), Intact(file') PROVE FALSE
      <4>1. file' = file /\ mem'[t] = LastState(file, t)
        BY <1>1, <2>1, <3>2, RestartStep
      <4>2. faults = 0
        BY <1>1, <3>2 DEF SInv, TypeOK
      <4>3. LastState(file, t) = mem[t]
        BY <1>1, <3>2, <4>1, <4>2 DEF SInv, CaughtUp
      <4> QED
        BY <1>1, <4>1, <4>3
    <3> QED
      BY <3>1, <3>2
  <2>2. ASSUME NEW u \in Tasks, NewTask(u) PROVE FALSE
    BY <1>1, <2>2 DEF NewTask, SInv, TypeOK, Bound
  <2>3. ASSUME NEW u \in Tasks, Dispatch(u) PROVE Undone(t)
    BY <1>1, <2>3 DEF Dispatch, SInv, TypeOK
  <2>4. ASSUME NEW r \in Requests, NEW u \in Tasks, CancelTask(r, u) PROVE FALSE
    BY <1>1, <2>4 DEF CancelTask, SInv, TypeOK
  <2>5. CASE UNCHANGED mem
    BY <1>1, <2>5
  <2> QED
    BY <1>1, <2>1, <2>2, <2>3, <2>4, <2>5
      DEF Next, vars, PersistNew, PersistDispatched, PersistCancel
<1>2. SInv /\ [Next]_vars =>
        [\A t \in Tasks : (mem[t] = "canceled" /\ mem'[t] # "canceled") => Undone(t)]_vars
  BY <1>1
<1> QED
  BY <1>2, SInvAlways, PTL DEF Spec, CancelUndone

-----------------------------------------------------------------------------
(* What failures cost *)

\* The tasks whose file entry is not what is in memory, and that nobody is
\* about to write.
Lost == {t \in Tasks : ~Writing(t) /\ LastState(file, t) # mem[t]}

\* Half a line at the end stands for one more: the next line is lost in it.
Pending(f) == IF Ends(f, {"torn"}) THEN 1 ELSE 0

\* The inductive form of LossBounded.
LossInv == Undecodable(file) = {} => Cardinality(Lost) + Pending(file) <= 2 * faults + crashes

\* One place more.
LEMMA OneMore ==
    ASSUME NEW n \in Nat
    PROVE  /\ n + 1 \in 1 .. n + 1 /\ 1 .. n \subseteq 1 .. n + 1
           /\ \A i \in 1 .. n + 1 : i \in 1 .. n \/ i = n + 1
OBVIOUS

\* A line that is no record, behind a file or in place of one at its end.
LEMMA AtTheEnd ==
    ASSUME NEW f \in Seq(Lines), NEW e \in Lines, ~IsRecord(e), NEW g,
           \/ g = Append(f, e)
           \/ f # <<>> /\ ~IsRecord(f[Len(f)]) /\ g = [f EXCEPT ![Len(f)] = e]
    PROVE  /\ g # <<>> /\ Len(g) \in DOMAIN g /\ g[Len(g)] = e
           /\ \A t \in Tasks : \A i \in DOMAIN g :
                IsLineOf(g[i], t) => i \in DOMAIN f /\ g[i] = f[i]
           /\ \A t \in Tasks : \A i \in DOMAIN f :
                IsLineOf(f[i], t) => i \in DOMAIN g /\ g[i] = f[i]
<1>1. CASE g = Append(f, e)
  <2>1. /\ g # <<>> /\ Len(g) = Len(f) + 1 /\ Len(f) \in Nat
        /\ DOMAIN g = 1 .. Len(f) + 1 /\ DOMAIN f = 1 .. Len(f)
        /\ g[Len(f) + 1] = e
        /\ \A i \in 1 .. Len(f) : g[i] = f[i]
    BY <1>1, Added, AppendProperties
  <2> DEFINE n == Len(f)
             k == n + 1
  <2>2. n \in Nat /\ k \in 1 .. k /\ (\A i \in 1 .. k : i \in 1 .. n \/ i = k) /\ 1 .. n \subseteq 1 .. k
    BY <2>1, OneMore
  <2>3. /\ g # <<>> /\ Len(g) = k /\ g[k] = e
        /\ DOMAIN g = 1 .. k /\ DOMAIN f = 1 .. n
        /\ \A i \in 1 .. n : g[i] = f[i]
    BY <2>1
  <2> HIDE DEF k, n
  <2>4. /\ \A i \in DOMAIN g : IsRecord(g[i]) => i \in DOMAIN f /\ g[i] = f[i]
        /\ \A i \in DOMAIN f : i \in DOMAIN g /\ g[i] = f[i]
    BY <2>2, <2>3
  <2>5. Len(g) \in DOMAIN g /\ g[Len(g)] = e
    BY <2>2, <2>3
  <2> QED
    BY <2>3, <2>4, <2>5 DEF IsLineOf
<1>2. CASE f # <<>> /\ ~IsRecord(f[Len(f)]) /\ g = [f EXCEPT ![Len(f)] = e]
  <2>1. Len(f) \in 1 .. Len(f) /\ Len(f) \in Nat
    BY <1>2, EmptySeq
  <2>2. /\ g \in Seq(Lines) /\ Len(g) = Len(f)
        /\ \A j \in 1 .. Len(f) : g[j] = IF j = Len(f) THEN e ELSE f[j]
    BY <1>2, <2>1, ExceptSeq
  <2>3. DOMAIN g = 1 .. Len(f) /\ DOMAIN f = 1 .. Len(f) /\ g # <<>>
    BY <2>1, <2>2, LenProperties
  <2> QED
    BY <1>2, <2>1, <2>2, <2>3 DEF IsLineOf
<1> QED
  BY <1>1, <1>2

\* The damage that keeps a file from decoding.
Mute == {"cut", "broken", "undecodable"}

\* Damage at the end of a file takes no state from anybody.
LEMMA DamagedEnd ==
    ASSUME NEW f \in Seq(Lines), NEW d \in Damage, NEW g,
           \/ g = Append(f, [damage |-> d])
           \/ f # <<>> /\ f[Len(f)] \in Damaged /\ g = [f EXCEPT ![Len(f)] = [damage |-> d]]
    PROVE  /\ \A t \in Tasks : LastState(g, t) = LastState(f, t)
           /\ Ends(g, {"torn"}) <=> d = "torn"
           /\ d \in Mute => Undecodable(g) # {}
<1> DEFINE e == [damage |-> d]
<1>1. e \in Lines /\ e \in Damaged /\ ~IsRecord(e)
  BY RecordLines DEF Lines
<1>2. /\ e = [damage |-> "torn"] <=> d = "torn"
      /\ d \in Mute => e \in {[damage |-> b] : b \in Mute}
  <2>1. e.damage = d /\ [damage |-> "torn"].damage = "torn"
    OBVIOUS
  <2> QED
    BY <2>1
<1>3. \/ g = Append(f, e)
      \/ f # <<>> /\ ~IsRecord(f[Len(f)]) /\ g = [f EXCEPT ![Len(f)] = e]
  BY RecordLines
<1> HIDE DEF e
<1>4. /\ g # <<>> /\ Len(g) \in DOMAIN g /\ g[Len(g)] = e
      /\ \A t \in Tasks : \A i \in DOMAIN g :
            IsLineOf(g[i], t) => i \in DOMAIN f /\ g[i] = f[i]
      /\ \A t \in Tasks : \A i \in DOMAIN f :
            IsLineOf(f[i], t) => i \in DOMAIN g /\ g[i] = f[i]
  BY <1>1, <1>3, AtTheEnd
<1>5. ASSUME NEW t \in Tasks PROVE LastState(g, t) = LastState(f, t)
  <2>1. LastLine(g, t) = LastLine(f, t)
    BY <1>4 DEF LastLine
  <2>2. CASE LastLine(f, t) = {}
    BY <2>1, <2>2 DEF LastState
  <2>3. CASE LastLine(f, t) # {}
    <3>1. PICK i \in LastLine(f, t) : i = CHOOSE j \in LastLine(f, t) : TRUE
      BY <2>3
    <3>2. g[i] = f[i]
      BY <1>4, <3>1 DEF LastLine
    <3> QED
      BY <2>1, <2>3, <3>1, <3>2 DEF LastState
  <2> QED
    BY <2>2, <2>3
<1>6. Ends(g, {"torn"}) <=> d = "torn"
  BY <1>2, <1>4 DEF Ends
<1>7. d \in Mute => Undecodable(g) # {}
  BY <1>2, <1>4 DEF Undecodable, Mute
<1> QED
  BY <1>5, <1>6, <1>7

\* What does not decode stays so: a file changes at its end only.
LEMMA DecodableBefore ==
    ASSUME NEW f \in Seq(Lines), NEW e \in Lines, NEW g,
           \/ g = Append(f, e)
           \/ f # <<>> /\ g = [f EXCEPT ![Len(f)] = e] /\ Ends(f, {"torn"}),
           Undecodable(g) = {}
    PROVE  Undecodable(f) = {}
<1>1. CASE g = Append(f, e)
  BY <1>1, Added DEF Undecodable
<1>2. CASE f # <<>> /\ g = [f EXCEPT ![Len(f)] = e] /\ Ends(f, {"torn"})
  <2>1. Len(f) \in 1 .. Len(f) /\ Len(f) \in Nat
    BY <1>2, EmptySeq
  <2>2. /\ g \in Seq(Lines) /\ Len(g) = Len(f)
        /\ \A j \in 1 .. Len(f) : g[j] = IF j = Len(f) THEN e ELSE f[j]
    BY <1>2, <2>1, ExceptSeq
  <2>3. DOMAIN g = 1 .. Len(f) /\ DOMAIN f = 1 .. Len(f)
    BY <2>2, LenProperties
  <2>4. f[Len(f)] \notin {[damage |-> b] : b \in Mute}
    <3>1. f[Len(f)].damage = "torn"
      BY <1>2 DEF Ends
    <3>2. \A b \in Mute : [damage |-> b].damage = b /\ b # "torn"
      BY DEF Mute
    <3> QED
      BY <3>1, <3>2
  <2> QED
    BY <2>2, <2>3, <2>4 DEF Undecodable, Mute
<1> QED
  BY <1>1, <1>2

\* What an append of a task costs: nothing; the task, in half a line that was
\* waiting for it; or one of each with a failure.
LEMMA PersistCosts ==
    ASSUME SInv, NEW t \in Tasks, mem[t] # "unknown", Persist(t),
           Undecodable(file') = {}
    PROVE  /\ Undecodable(file) = {}
           /\ \A u \in Tasks : u # t => LastState(file', u) = LastState(file, u)
           /\ \/ /\ faults' = faults /\ ~Ends(file', {"torn"})
                 /\ LastState(file', t) = mem[t] \/ Ends(file, {"torn"})
              \/ faults' = faults + 1
<1> DEFINE line == [task |-> t, state |-> mem[t]]
<1>1. file \in Seq(Lines)
  BY DEF SInv, TypeOK, Lines
<1>2. line \in Record /\ line.task = t /\ line.state = mem[t] /\ line \in Lines
  BY DEF SInv, TypeOK, Record, Lines
<1>3. ASSUME Ends(file, {"torn"}) PROVE file # <<>> /\ file[Len(file)] \in Damaged
  BY <1>3 DEF Ends, Damaged, Damage
<1>4. ASSUME Ends(file, {"cut", "broken"}) PROVE file # <<>> /\ file[Len(file)] \in Damaged
  BY <1>4 DEF Ends, Damaged, Damage
<1>5. \A d \in Damage : [damage |-> d] \in Lines
  BY RecordLines DEF Lines
<1> HIDE DEF line
<1>6. CASE file' = Appended(file, line) /\ UNCHANGED faults /\ Ends(file, {"torn"})
  <2>1. file' = [file EXCEPT ![Len(file)] = [damage |-> "garbage"]]
    <3>1. ~Ends(file, {"cut", "broken"})
      BY <1>6 DEF Ends
    <3> QED
      BY <1>6, <3>1 DEF Appended
  <2>2. "garbage" \in Damage /\ "garbage" # "torn"
    BY DEF Damage
  <2>3. /\ \A u \in Tasks : LastState(file', u) = LastState(file, u)
        /\ ~Ends(file', {"torn"})
    BY <1>1, <1>3, <1>6, <2>1, <2>2, DamagedEnd
  <2>4. Undecodable(file) = {}
    <3> DEFINE e == [damage |-> "garbage"]
    <3>1. e \in Lines
      BY <1>5, <2>2
    <3>2. file' = [file EXCEPT ![Len(file)] = e] /\ file # <<>>
      BY <1>3, <1>6, <2>1
    <3> HIDE DEF e
    <3> QED
      BY <1>1, <1>6, <3>1, <3>2, DecodableBefore
  <2> QED
    BY <1>6, <2>3, <2>4
<1>7. CASE file' = Appended(file, line) /\ UNCHANGED faults /\ ~Ends(file, {"torn"})
           /\ Ends(file, {"cut", "broken"})
  <2>1. file' = [file EXCEPT ![Len(file)] = [damage |-> "undecodable"]]
    BY <1>7 DEF Appended
  <2> QED
    BY <1>1, <1>4, <1>7, <2>1, DamagedEnd DEF Damage, Mute
<1>8. CASE file' = Appended(file, line) /\ UNCHANGED faults /\ ~Ends(file, {"torn"})
           /\ ~Ends(file, {"cut", "broken"})
  <2>1. file' = Append(file, line)
    BY <1>8 DEF Appended
  <2>2. Undecodable(file) = {}
    BY <1>1, <1>2, <2>1, DecodableBefore
  <2>3. file'[Len(file')] = line
    BY <1>1, <1>2, <2>1, AppendProperties
  <2>4. line \notin Damaged
    BY <1>2, RecordLines
  <2>5. ~Ends(file', {"torn"})
    BY <2>3, <2>4 DEF Ends, Damaged, Damage
  <2> QED
    BY <1>1, <1>2, <1>8, <2>1, <2>2, <2>5, LastAppended
<1>9. CASE file' \in Interrupted(file) /\ faults' = faults + 1
  <2>1. CASE file' = file
    BY <1>9, <2>1
  <2>2. CASE /\ Ends(file, {"torn"}) \/ Ends(file, {"cut", "broken"})
             /\ \E d \in {"cut", "broken"} : file' = [file EXCEPT ![Len(file)] = [damage |-> d]]
    <3>1. file # <<>> /\ file[Len(file)] \in Damaged
      BY <1>3, <1>4, <2>2
    <3>2. PICK d \in {"cut", "broken"} : file' = [file EXCEPT ![Len(file)] = [damage |-> d]]
      BY <2>2
    <3>3. d \in Damage /\ d \in Mute
      BY DEF Damage, Mute
    <3>4. Undecodable(file') # {}
      BY <1>1, <3>1, <3>2, <3>3, DamagedEnd
    <3> QED
      BY <3>4
  <2>3. CASE \E d \in {"torn", "cut"} : file' = Append(file, [damage |-> d])
    <3>1. PICK d \in {"torn", "cut"} : file' = Append(file, [damage |-> d])
      BY <2>3
    <3>2. d \in Damage
      BY DEF Damage
    <3>3. \A u \in Tasks : LastState(file', u) = LastState(file, u)
      BY <1>1, <3>1, <3>2, DamagedEnd
    <3>4. Undecodable(file) = {}
      <4> DEFINE e == [damage |-> d]
      <4>1. e \in Lines /\ file' = Append(file, e)
        BY <1>5, <3>1, <3>2
      <4> HIDE DEF e
      <4> QED
        BY <1>1, <4>1, DecodableBefore
    <3> QED
      BY <1>9, <3>3, <3>4
  <2> QED
    BY <1>9, <2>1, <2>2, <2>3 DEF Interrupted
<1> QED
  BY <1>6, <1>7, <1>8, <1>9 DEF Persist, line

\* The last append of a thread that writes task t.
LEMMA PersistLoses ==
    ASSUME SInv, LossInv, NEW t \in Tasks, mem[t] # "unknown", Persist(t),
           UNCHANGED <<mem, crashes>>,
           \A u \in Tasks : u # t => (Writing(u) => Writing(u)')
    PROVE  LossInv'
<1> SUFFICES ASSUME Undecodable(file') = {}
             PROVE  Cardinality(Lost') + Pending(file') <= 2 * faults' + crashes'
  BY DEF LossInv
<1>1. /\ Undecodable(file) = {}
      /\ \A u \in Tasks : u # t => LastState(file', u) = LastState(file, u)
      /\ \/ /\ faults' = faults /\ ~Ends(file', {"torn"})
            /\ LastState(file', t) = mem[t] \/ Ends(file, {"torn"})
         \/ faults' = faults + 1
  BY PersistCosts
<1>2. Cardinality(Lost) + Pending(file) <= 2 * faults + crashes
  BY <1>1 DEF LossInv
<1>3. IsFiniteSet(Lost) /\ Cardinality(Lost) \in Nat
  BY SidecarAssumption, FS_Subset, FS_CardinalityType DEF Lost
<1>4. Lost' \subseteq Lost \cup {t}
  BY <1>1 DEF Lost
<1>5. LastState(file', t) = mem[t] => Lost' \subseteq Lost
  BY <1>1 DEF Lost
<1>6. /\ Cardinality(Lost') \in Nat /\ Cardinality(Lost') <= Cardinality(Lost) + 1
      /\ LastState(file', t) = mem[t] => Cardinality(Lost') <= Cardinality(Lost)
  <2>1. /\ IsFiniteSet(Lost \cup {t}) /\ Cardinality(Lost \cup {t}) \in Nat
        /\ Cardinality(Lost \cup {t}) <= Cardinality(Lost) + 1
    BY <1>3, FS_AddElement
  <2>2. /\ IsFiniteSet(Lost') /\ Cardinality(Lost') \in Nat
        /\ Cardinality(Lost') <= Cardinality(Lost \cup {t})
    BY <1>4, <2>1, FS_Subset, FS_CardinalityType
  <2> QED
    BY <1>3, <1>5, <2>1, <2>2, FS_Subset
<1>7. faults \in Nat /\ crashes \in Nat /\ crashes' = crashes
  BY DEF SInv, TypeOK
<1> QED
  BY <1>1, <1>2, <1>3, <1>6, <1>7 DEF Pending

\* A thread that changes a task is about to write it, and costs nothing yet.
LEMMA ChangeLoses ==
    ASSUME SInv, LossInv, NEW t \in Tasks, UNCHANGED <<file, faults, crashes>>,
           Writing(t)',
           \A u \in Tasks : u # t => mem'[u] = mem[u] /\ (Writing(u) => Writing(u)')
    PROVE  LossInv'
<1>1. Lost' \subseteq Lost
  BY DEF Lost
<1>2. /\ IsFiniteSet(Lost) /\ Cardinality(Lost) \in Nat
      /\ Cardinality(Lost') \in Nat /\ Cardinality(Lost') <= Cardinality(Lost)
  <2>1. IsFiniteSet(Lost)
    BY SidecarAssumption, FS_Subset DEF Lost
  <2> QED
    BY <1>1, <2>1, FS_Subset, FS_CardinalityType
<1>3. Undecodable(file') = Undecodable(file) /\ Pending(file') = Pending(file)
  OBVIOUS
<1>4. faults \in Nat /\ crashes \in Nat /\ Pending(file) \in Nat
  BY DEF SInv, TypeOK, Pending
<1> QED
  BY <1>2, <1>3, <1>4 DEF LossInv

\* Initially nothing is lost.
LEMMA LossInit == Init => LossInv
<1> SUFFICES ASSUME Init PROVE LossInv
  OBVIOUS
<1>1. file = <<>> /\ DOMAIN file = {}
  BY DEF Init
<1>2. \A t \in Tasks : LastState(file, t) = mem[t]
  BY <1>1 DEF Init, LastState, LastLine
<1>3. Lost = {}
  BY <1>2 DEF Lost
<1>4. Cardinality(Lost) = 0
  BY <1>3, FS_EmptySet
<1>5. Pending(file) = 0 /\ faults = 0 /\ crashes = 0
  BY <1>1 DEF Init, Pending, Ends
<1> QED
  BY <1>4, <1>5 DEF LossInv

\* Every step keeps the bound on what is lost.
LEMMA LossNext == SInv /\ LossInv /\ [Next]_vars => LossInv'
<1> SUFFICES ASSUME SInv, LossInv, [Next]_vars PROVE LossInv'
  OBVIOUS
<1>1. ASSUME NEW t \in Tasks, NewTask(t) PROVE LossInv'
  <2>1. Writing(t)' /\ \A u \in Tasks : u # t => mem'[u] = mem[u] /\ (Writing(u) => Writing(u)')
    BY <1>1 DEF NewTask, SInv, TypeOK, Writing
  <2> QED
    BY <1>1, <2>1, ChangeLoses DEF NewTask
<1>2. ASSUME NEW t \in Tasks, PersistNew(t) PROVE LossInv'
  <2>1. mem[t] # "unknown"
    BY <1>2 DEF PersistNew, SInv, Bound, Writing
  <2>2. \A u \in Tasks : u # t => (Writing(u) => Writing(u)')
    BY <1>2 DEF PersistNew, SInv, TypeOK, Writing
  <2> QED
    BY <1>2, <2>1, <2>2, PersistLoses DEF PersistNew
<1>3. ASSUME NEW t \in Tasks, Dispatch(t) PROVE LossInv'
  <2>1. PICK s \in {"working", "failed"} : mem' = [mem EXCEPT ![t] = s]
    BY <1>3 DEF Dispatch
  <2>2. Writing(t)' /\ \A u \in Tasks : u # t => mem'[u] = mem[u] /\ (Writing(u) => Writing(u)')
    BY <1>3, <2>1 DEF Dispatch, SInv, TypeOK, Writing
  <2> QED
    BY <1>3, <2>2, ChangeLoses DEF Dispatch
<1>4. ASSUME NEW t \in Tasks, PersistDispatched(t) PROVE LossInv'
  <2>1. mem[t] # "unknown"
    BY <1>4 DEF PersistDispatched, SInv, Bound, Writing
  <2>2. \A u \in Tasks : u # t => (Writing(u) => Writing(u)')
    BY <1>4 DEF PersistDispatched, SInv, TypeOK, Writing
  <2> QED
    BY <1>4, <2>1, <2>2, PersistLoses DEF PersistDispatched
<1>5. ASSUME NEW r \in Requests, NEW t \in Tasks, CancelTask(r, t) PROVE LossInv'
  <2>1. cancel' = [cancel EXCEPT ![r] = [stage |-> "set", task |-> t]]
    BY <1>5 DEF CancelTask
  <2>2. cancel'[r] = [stage |-> "set", task |-> t]
    BY <2>1 DEF SInv, TypeOK
  <2>3. Writing(t)'
    BY <2>2 DEF Writing
  <2>4. \A u \in Tasks : u # t => (Writing(u) => Writing(u)')
    BY <1>5, <2>1 DEF CancelTask, SInv, TypeOK, Writing, NoCancel
  <2>5. \A u \in Tasks : u # t => mem'[u] = mem[u]
    BY <1>5 DEF CancelTask, SInv, TypeOK
  <2> QED
    BY <1>5, <2>3, <2>4, <2>5, ChangeLoses DEF CancelTask
<1>6. ASSUME NEW r \in Requests, PersistCancel(r) PROVE LossInv'
  <2> DEFINE t == cancel[r].task
  <2>1. t \in Tasks /\ cancel[r] = [stage |-> "set", task |-> t]
    BY <1>6 DEF PersistCancel, SInv, TypeOK, NoCancel
  <2>2. \A q \in Requests : q # r => cancel'[q] = cancel[q]
    BY <1>6 DEF PersistCancel, SInv, TypeOK
  <2>3. Persist(t) /\ UNCHANGED <<mem, sending, dispatch, crashes>>
    BY <1>6 DEF PersistCancel
  <2> HIDE DEF t
  <2>4. mem[t] # "unknown"
    BY <2>1 DEF SInv, Bound, Writing
  <2>5. \A u \in Tasks : u # t => (Writing(u) => Writing(u)')
    <3>1. ASSUME NEW u \in Tasks, u # t PROVE cancel[r] # [stage |-> "set", task |-> u]
      <4>1. [stage |-> "set", task |-> u].task = u /\ [stage |-> "set", task |-> t].task = t
        OBVIOUS
      <4> QED
        BY <2>1, <3>1, <4>1
    <3> QED
      BY <2>2, <2>3, <3>1 DEF Writing
  <2> QED
    BY <2>1, <2>3, <2>4, <2>5, PersistLoses
<1>7. CASE Restart
  <2> SUFFICES ASSUME Undecodable(file') = {}
               PROVE  Cardinality(Lost') + Pending(file') <= 2 * faults' + crashes'
    BY DEF LossInv
  <2>1. Lost' = {}
    BY <1>7, RestartStep DEF Lost
  <2>2. Cardinality(Lost') = 0
    BY <2>1, FS_EmptySet
  <2>3. /\ faults' \in Nat /\ crashes \in Nat /\ crashes' = crashes + 1
        /\ Pending(file') \in 0 .. 1
    BY <1>7 DEF Restart, SInv, TypeOK, Pending
  <2> QED
    BY <2>2, <2>3
<1>8. CASE UNCHANGED vars
  <2>1. Lost' = Lost /\ Pending(file') = Pending(file) /\ Undecodable(file') = Undecodable(file)
    BY <1>8 DEF vars, Lost, Writing
  <2> QED
    BY <1>8, <2>1 DEF vars, LossInv
<1> QED
  BY <1>1, <1>2, <1>3, <1>4, <1>5, <1>6, <1>7, <1>8 DEF Next

\* While the file decodes, a restart would lose the newest state of at most two
\* tasks for each append that failed and of one for each restart, for any
\* number of tasks, threads and failures (LossBounded).
THEOREM LossIsBounded == Spec => []LossBounded
<1>1. SInv /\ LossInv => LossBounded
  <2> SUFFICES ASSUME SInv, LossInv, Undecodable(file) = {}, NEW m \in Loads(file)
               PROVE  Cardinality({t \in Tasks : ~Writing(t) /\ m[t] # mem[t]})
                          <= 2 * faults + crashes
    BY DEF LossBounded
  <2>1. file \in Seq(Lines)
    BY DEF SInv, TypeOK, Lines
  <2>2. \A t \in Tasks : m[t] = LastState(file, t)
    BY <2>1, LoadsType
  <2>3. {t \in Tasks : ~Writing(t) /\ m[t] # mem[t]} = Lost
    BY <2>2 DEF Lost
  <2>4. IsFiniteSet(Lost) /\ Cardinality(Lost) \in Nat
    BY SidecarAssumption, FS_Subset, FS_CardinalityType DEF Lost
  <2>5. faults \in Nat /\ crashes \in Nat /\ Pending(file) \in 0 .. 1
    BY DEF SInv, TypeOK, Pending
  <2>6. Cardinality(Lost) + Pending(file) <= 2 * faults + crashes
    BY DEF LossInv
  <2>7. Cardinality(Lost) <= 2 * faults + crashes
    BY <2>4, <2>5, <2>6
  <2> QED
    BY <2>3, <2>7
<1>2. SInv /\ LossInv /\ [Next]_vars => LossInv'
  BY LossNext
<1> QED
  BY <1>1, <1>2, LossInit, SInvAlways, PTL DEF Spec
=============================================================================
