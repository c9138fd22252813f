------------------------------ MODULE History ------------------------------
(***************************************************************************)
(* HistoryManager (server/history.py) driven by its two writers, the       *)
(* message/send and messages/import handlers of server/start.py.           *)
(*                                                                         *)
(* Every peer has a JSONL file of lines and an index entry that counts its *)
(* rounds.  The index lives in memory (mem) and is copied to index.json    *)
(* (idx) as the last durable step of every operation.  The handlers run on *)
(* one event loop, hold the manager's lock and never await while they      *)
(* write, so one operation (op) is in progress at a time.  What can come   *)
(* between its steps is a crash of the process, which forgets mem and op,  *)
(* or an exception, which abandons the operation and keeps mem.            *)
(*                                                                         *)
(* A line is reduced to its round, its role, and whether its text holds a  *)
(* character that str.splitlines takes for a line break and the JSON       *)
(* writer leaves as it is (seps: U+0085, U+2028, U+2029).  Role "torn" is  *)
(* an unterminated last line, left by an interrupted write, and role       *)
(* "garbage" any other line that does not parse.                           *)
(***************************************************************************)
EXTENDS Integers, Sequences, FiniteSets

CONSTANTS
    Peers,          \* the peer uuids
    MaxRounds,      \* max_rounds_per_peer of the configuration, 0 = unlimited
    ContextRounds,  \* context_rounds of the configuration, 0 = replies are not recorded
    ImportSizes,    \* the batch sizes that messages/import is called with
    ImportMax,      \* no batch is larger (IMPORT_MAX_MESSAGES)
    Separators,     \* whether messages hold line separators: a set of booleans
    TornWrites,     \* whether an interrupted append can leave half a line
    RoundBound,     \* bound: rounds opened per peer
    FaultBound,     \* bound: exceptions raised
    CrashBound      \* bound: crashes of the process

ASSUME HistoryAssumption ==
    /\ MaxRounds \in Nat /\ ContextRounds \in Nat
    /\ ImportMax \in Nat \ {0} /\ ImportSizes \subseteq 1 .. ImportMax
    /\ Separators \subseteq BOOLEAN /\ TornWrites \in BOOLEAN
    /\ RoundBound \in Nat /\ FaultBound \in Nat /\ CrashBound \in Nat

VARIABLES
    mem,      \* self._index: the index entry of every peer, in memory
    idx,      \* index.json
    file,     \* peer_<uuid>.jsonl of every peer, as a sequence of lines
    op,       \* the operation in progress, or NoOp
    acks,     \* what callers were told: the ranges of rounds acknowledged per peer
    faults,   \* exceptions so far
    crashes   \* crashes so far

vars == <<mem, idx, file, op, acks, faults, crashes>>

-----------------------------------------------------------------------------
(* Data *)

Entry == [last : Nat, first : Nat, total : Nat]

Line == [round : Nat, role : {"outbound", "inbound", "import", "torn", "garbage"},
         seps : BOOLEAN]

Operation == [kind  : {"outbound", "inbound", "import"},
              stage : {"append", "cap", "save", "context"},
              peer  : Peers, first : Nat, round : Nat, left : Nat]

NoOp == [kind |-> "none"]

Ack == [kind : {"send", "import"}, first : Nat, last : Nat]

\* get_or_create_peer: an entry nobody has touched reads as all zeros.
NewEntry == [last |-> 0, first |-> 0, total |-> 0]

\* Mutant of Bump: the round counter is not moved on.
BumpTotalOnly(e) == [e EXCEPT !.total = @ + 1]

\* The bookkeeping that opens a new round.
Bump(e) == [last |-> e.last + 1, first |-> e.first, total |-> e.total + 1]

BadLine(role) == [round |-> 0, role |-> role, seps |-> FALSE]

EndsTorn(f) == f # <<>> /\ f[Len(f)].role = "torn"

\* Mutant of Appended: the file is opened for writing instead of appending.
Overwritten(f, line) == <<line>>

\* _append_line: a line written after half a line is swallowed by it.
Appended(f, line) ==
    IF EndsTorn(f) THEN [f EXCEPT ![Len(f)] = BadLine("garbage")] ELSE Append(f, line)

\* What an interrupted _append_line leaves: nothing, or half a line.
Interrupted(f) ==
    {f} \cup IF TornWrites /\ ~EndsTorn(f)
             THEN {Append(f, BadLine("torn"))} ELSE {}

\* _read_all_lines parses every line, so one bad line fails the whole read.
Readable(f) == \A i \in DOMAIN f : f[i].role \notin {"torn", "garbage"}

\* What str.splitlines makes of a file: a line with a separator in it comes
\* out as two lines, neither of which parses.  splits are those lines.
SplitLines(f) ==
    LET splits == {i \in DOMAIN f : f[i].seps}
        place(i) == i + Cardinality({j \in splits : j < i})
    IN  [k \in 1 .. Len(f) + Cardinality(splits) |->
            IF \E i \in DOMAIN f \ splits : place(i) = k
            THEN f[CHOOSE i \in DOMAIN f \ splits : place(i) = k]
            ELSE BadLine("garbage")]

\* Mutant of Context: the window of rounds ends before the newest round.
ContextShort(p) ==
    {i \in DOMAIN file[p] : file[p][i].round > mem[p].last - ContextRounds + 1}

\* get_context_for_peer: the lines of the last ContextRounds rounds.
Context(p) ==
    LET newest == mem[p].last - ContextRounds + 1
        cutoff == IF newest > mem[p].first THEN newest ELSE mem[p].first
    IN  {i \in DOMAIN file[p] : file[p][i].round >= cutoff}

\* Mutant of IndexWritten: the index is not saved.
IndexForgotten == UNCHANGED idx

\* _save_index replaces index.json as a whole.
IndexWritten == idx' = mem

\* Mutant of IndexLoaded: index.json is taken for unreadable.
IndexLoadedEmpty == [p \in Peers |-> NewEntry]

\* _load_index: index.json is only ever replaced as a whole, so it parses.
IndexLoaded == idx

-----------------------------------------------------------------------------
(* Operations *)

Init ==
    /\ mem = [p \in Peers |-> NewEntry]
    /\ idx = [p \in Peers |-> NewEntry]
    /\ file = [p \in Peers |-> <<>>]
    /\ op = NoOp
    /\ acks = [p \in Peers |-> <<>>]
    /\ faults = 0
    /\ crashes = 0

Open(p, kind, left) ==
    /\ mem' = [mem EXCEPT ![p] = Bump(@)]
    /\ op' = [kind |-> kind, stage |-> "append", peer |-> p,
              first |-> mem[p].last + 1, round |-> mem[p].last + 1, left |-> left]
    /\ UNCHANGED <<idx, file, acks, faults, crashes>>

\* message/send reaches record_outbound, which opens a round in memory.
RecordOutbound(p) ==
    /\ op = NoOp
    /\ mem[p].last < RoundBound
    /\ Open(p, "outbound", 0)

\* messages/import of a batch of n messages: the first of them opens a round.
ImportMessages(p, n) ==
    /\ op = NoOp
    /\ mem[p].last + n <= RoundBound
    /\ Open(p, "import", n - 1)

\* messages/import of an empty batch only saves the index.
ImportNothing ==
    /\ op = NoOp
    /\ IndexWritten
    /\ UNCHANGED <<mem, file, op, acks, faults, crashes>>

\* _append_line writes the line of the current round to the peer's file.
AppendLine ==
    /\ op # NoOp /\ op.stage = "append"
    /\ \E s \in Separators :
          file' = [file EXCEPT ![op.peer] =
                      Appended(@, [round |-> op.round, role |-> op.kind,
                                   seps |-> s /\ op.kind # "inbound"])]
    /\ op' = [op EXCEPT !.stage = IF op.kind = "inbound" THEN "save" ELSE "cap"]
    /\ UNCHANGED <<mem, idx, acks, faults, crashes>>

\* Mutant of Excess: one round too few.
ExcessLess(p) == IF MaxRounds > 0 /\ mem[p].total > MaxRounds
                 THEN mem[p].total - MaxRounds - 1 ELSE 0

\* The rounds that _enforce_cap sets out to drop.
Excess(p) == IF MaxRounds > 0 /\ mem[p].total > MaxRounds
             THEN mem[p].total - MaxRounds ELSE 0

\* Mutant of Trimmed: the newest lines are dropped.
TrimmedNewest(p) ==
    SubSeq(SplitLines(file[p]), 1, Len(SplitLines(file[p])) - 2 * Excess(p))

\* _enforce_cap rewrites the file without its first two lines per excess
\* round.  Within the cap it touches nothing.
Trimmed(p) ==
    IF Excess(p) = 0 THEN file[p]
    ELSE SubSeq(SplitLines(file[p]), 2 * Excess(p) + 1, Len(SplitLines(file[p])))

\* Mutant of Shifted: first_round is moved the wrong way.
ShiftedBack(p) == [mem[p] EXCEPT !.first = @ - Excess(p)]

\* _enforce_cap moves first_round on by the rounds it set out to drop.
Shifted(p) == [mem[p] EXCEPT !.first = @ + Excess(p)]

\* After the cap, an import goes on with its next message, if it has one.
EnforceCap ==
    /\ op # NoOp /\ op.stage = "cap"
    /\ file' = [file EXCEPT ![op.peer] = Trimmed(op.peer)]
    /\ \/ /\ op.left > 0
          /\ mem' = [mem EXCEPT ![op.peer] = Bump(Shifted(op.peer))]
          /\ op' = [op EXCEPT !.stage = "append", !.round = @ + 1, !.left = @ - 1]
       \/ /\ op.left = 0
          /\ mem' = [mem EXCEPT ![op.peer] = Shifted(op.peer)]
          /\ op' = [op EXCEPT !.stage = "save"]
    /\ UNCHANGED <<idx, acks, faults, crashes>>

Acknowledge ==
    /\ acks' = [acks EXCEPT ![op.peer] = Append(@,
                  [kind |-> IF op.kind = "import" THEN "import" ELSE "send",
                   first |-> op.first, last |-> op.round])]
    /\ op' = NoOp

\* The index is saved.  A send whose reply is to be
\* recorded goes on; any other operation is over and answers its caller.
SaveIndex ==
    /\ op # NoOp /\ op.stage = "save"
    /\ IndexWritten
    /\ \/ /\ op.kind = "outbound" /\ ContextRounds > 0
          /\ op' = [op EXCEPT !.stage = "context"]
          /\ UNCHANGED acks
       \/ /\ ~(op.kind = "outbound" /\ ContextRounds > 0)
          /\ Acknowledge
    /\ UNCHANGED <<mem, file, faults, crashes>>

\* message/send reads the context for its reply, then record_inbound attaches
\* the reply to the peer's last round.  An unreadable file ends it in an error.
ReadContext ==
    /\ op # NoOp /\ op.stage = "context"
    /\ \/ /\ Readable(file[op.peer])
          /\ op' = [op EXCEPT !.kind = "inbound", !.stage = "append",
                              !.round = mem[op.peer].last]
       \/ /\ ~Readable(file[op.peer])
          /\ op' = NoOp
    /\ UNCHANGED <<mem, idx, file, acks, faults, crashes>>

\* The file after the step in progress was interrupted.
InterruptedFile ==
    IF op # NoOp /\ op.stage = "append"
    THEN \E f \in Interrupted(file[op.peer]) : file' = [file EXCEPT ![op.peer] = f]
    ELSE UNCHANGED file

\* An exception (a full disk, redacted metadata that no longer parses, a bad
\* message in a batch) leaves the handler: it answers "Internal error".
Fault ==
    /\ op # NoOp
    /\ op.stage = "cap" => Excess(op.peer) > 0
    /\ faults < FaultBound
    /\ InterruptedFile
    /\ op' = NoOp
    /\ faults' = faults + 1
    /\ UNCHANGED <<mem, idx, acks, crashes>>

\* The process dies and starts again: _load_index reads index.json back.
Crash ==
    /\ crashes < CrashBound
    /\ InterruptedFile
    /\ mem' = IndexLoaded
    /\ op' = NoOp
    /\ crashes' = crashes + 1
    /\ UNCHANGED <<idx, acks, faults>>

Next ==
    \/ \E p \in Peers : RecordOutbound(p)
    \/ \E p \in Peers, n \in ImportSizes : ImportMessages(p, n)
    \/ ImportNothing
    \/ AppendLine
    \/ EnforceCap
    \/ SaveIndex
    \/ ReadContext
    \/ Fault
    \/ Crash

Spec == Init /\ [][Next]_vars

-----------------------------------------------------------------------------
(* Properties *)

\* Every variable holds a value of its kind, and first_round, which is moved
\* by differences, never becomes negative.
TypeOK ==
    /\ mem \in [Peers -> Entry]
    /\ idx \in [Peers -> Entry]
    /\ file \in [Peers -> Seq(Line)]
    /\ op \in Operation \cup {NoOp}
    /\ acks \in [Peers -> Seq(Ack)]
    /\ faults \in 0 .. FaultBound
    /\ crashes \in 0 .. CrashBound

\* The lines of a round that a message opened, as opposed to its reply.
Opens(line, r) == line.round = r /\ line.role \in {"outbound", "import"}

Stored(p, r) == \E i \in DOMAIN file[p] : Opens(file[p][i], r)

Replied(p, r) == \E i \in DOMAIN file[p] : file[p][i].round = r
                                        /\ file[p][i].role = "inbound"

\* A round that a caller was told of is not given to another message, not
\* even after failed writes and restarts: each acknowledged range of rounds
\* of a peer lies after those acknowledged before it.
AckedRoundsNeverReused ==
    \A p \in Peers : \A i, j \in DOMAIN acks[p] :
        i < j => acks[p][i].last < acks[p][j].first

\* The granting of rounds is all that callers see of the bookkeeping.
R == INSTANCE Rounds WITH Kinds <- {"send", "import"}, granted <- acks

\* The manager, with its crashes and failures, implements the granting of
\* rounds by one counter per peer that is never lost.
RefinesRounds == R!Spec

\* index.json never goes back: no step, a restart included, saves a round or
\* a count lower than the one saved before.
IndexNeverGoesBack ==
    [][\A p \in Peers : /\ idx[p].last <= idx'[p].last
                        /\ idx[p].first <= idx'[p].first
                        /\ idx[p].total <= idx'[p].total]_vars

\* With no cap on the history, an answered message is on file: the line of a
\* send, and its reply if replies are recorded, whatever was interrupted
\* before; the lines of an import as long as the file can be read at all.
NoSilentLoss ==
    MaxRounds = 0 =>
        \A p \in Peers : \A i \in DOMAIN acks[p] :
            LET a == acks[p][i] IN
            ((a.kind = "send" /\ ContextRounds > 0) \/ Readable(file[p])) =>
                \A r \in a.first .. a.last :
                    /\ Stored(p, r)
                    /\ (a.kind = "send" /\ ContextRounds > 0) => Replied(p, r)

\* Rounds rise through the file, each opened once: only a restart, which
\* forgets what was not saved, can make the next line start lower, once.
OnlyRestartsRewind ==
    \A p \in Peers :
        LET opens == {i \in DOMAIN file[p] : Opens(file[p][i], file[p][i].round)}
        IN  Cardinality({i \in opens : \E j \in opens :
                            /\ i < j /\ file[p][j].round <= file[p][i].round
                            /\ \A k \in opens : ~(i < k /\ k < j)}) <= crashes

\* The reply a peer gets carries the message it answers: when the context has
\* been read, the newest line is that message and is part of the context.  Only
\* without a cap: a trimming drops more lines each time, soon this one too.
ContextHasCurrent ==
    (MaxRounds = 0 /\ op # NoOp /\ op.kind = "inbound" /\ op.stage = "append") =>
        /\ Len(file[op.peer]) \in Context(op.peer)
        /\ Opens(file[op.peer][Len(file[op.peer])], op.round)

\* Between operations, and before any failure, the saved index is the one in
\* memory, and its counts are those of the lines on file.
IndexAgrees ==
    (op = NoOp /\ faults = 0 /\ crashes = 0) =>
        /\ idx = mem
        /\ MaxRounds = 0 =>
              \A p \in Peers :
                  /\ mem[p].last = mem[p].total
                  /\ \A r \in 1 .. mem[p].last : Stored(p, r)

\* A capped file stays short, as long as no line is split in two: two lines
\* per round of the cap, and for each failure or restart that kept the trimming
\* from happening at most the lines of one batch.
CapBound ==
    (MaxRounds > 0 /\ TRUE \notin Separators /\ op = NoOp) =>
        \A p \in Peers :
            Len(file[p]) <= 2 * MaxRounds + ImportMax * (faults + crashes)

\* The cap forgets from the oldest on: in a readable file that still has an
\* acknowledged round, every round acknowledged after it is there too.
ForgetsOldestFirst ==
    \A p \in Peers : Readable(file[p]) =>
        \A i, j \in DOMAIN acks[p] : i <= j =>
            \A r \in acks[p][i].first .. acks[p][i].last,
               s \in acks[p][j].first .. acks[p][j].last :
                (r <= s /\ Stored(p, r)) => Stored(p, s)

-----------------------------------------------------------------------------
(* What the documents say, and the code does not do *)

\* history.py, lines 11-12: over the cap, the oldest pairs are dropped.  Then
\* the newest MaxRounds rounds would be on file between operations.
CapKeepsNewest ==
    (MaxRounds > 0 /\ op = NoOp) =>
        \A p \in Peers : \A r \in 1 .. mem[p].last :
            r > mem[p].last - MaxRounds => Stored(p, r)

\* history.py, line 3: a peer's file is JSONL.  Then, with no write ever
\* interrupted, every line of it would parse.
FileIsJsonl == (faults = 0 /\ crashes = 0) => \A p \in Peers : Readable(file[p])
=============================================================================
