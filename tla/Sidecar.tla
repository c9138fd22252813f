------------------------------ MODULE Sidecar ------------------------------
(***************************************************************************)
(* The sidecar that OpenClaw was reached by before the plugin              *)
(* (designs/v2.3/legacy-sidecar/server.py).  An HTTP server runs a thread  *)
(* per request, and SendMessage starts one more that dispatches the task   *)
(* in the background.  The threads share the tasks in memory without a     *)
(* lock; a lock orders only their appends to the JSONL file, of which each *)
(* writes the whole task as it is at that moment.  A restart reads the     *)
(* file back, the last line of a task winning.                             *)
(*                                                                         *)
(* The assignments and appends of a thread are its steps: the interpreter  *)
(* runs each without another thread in between.  A task is reduced to its  *)
(* state.                                                                  *)
(***************************************************************************)
EXTENDS Integers, Sequences, FiniteSets

CONSTANTS
    Tasks,       \* the task ids
    Requests,    \* the CancelTask requests
    FaultBound,  \* bound: appends that fail
    CrashBound   \* bound: restarts of the sidecar

ASSUME SidecarAssumption ==
    /\ IsFiniteSet(Tasks)
    /\ FaultBound \in Nat /\ CrashBound \in Nat

VARIABLES
    mem,       \* _tasks: the state of a task in memory
    file,      \* the JSONL file
    sending,   \* where the SendMessage of a task is
    dispatch,  \* where the background thread of a task is
    cancel,    \* where a CancelTask request is, and for which task
    faults,    \* appends that failed so far
    crashes    \* restarts so far

vars == <<mem, file, sending, dispatch, cancel, faults, crashes>>

-----------------------------------------------------------------------------
(* The file *)

States == {"submitted", "working", "failed", "canceled"}

\* A line that parses holds a task and its state.
Record == [task : Tasks, state : States]

\* Half a line, cut between two characters or, as the texts are written in
\* UTF-8, inside one, or with such a cut behind it; and what comes of it when
\* the next line is glued to it.
Damage == {"torn", "cut", "broken", "garbage", "undecodable"}

Damaged == [damage : Damage]

IsRecord(line) == "task" \in DOMAIN line

Ends(f, damage) == f # <<>> /\ f[Len(f)] \in {[damage |-> d] : d \in damage}

\* An append behind half a line is lost in it.
Appended(f, line) ==
    CASE Ends(f, {"torn"})          -> [f EXCEPT ![Len(f)] = [damage |-> "garbage"]]
      [] Ends(f, {"cut", "broken"}) -> [f EXCEPT ![Len(f)] = [damage |-> "undecodable"]]
      [] OTHER                      -> Append(f, line)

\* What an append that is interrupted leaves: nothing, or half a line.
Interrupted(f) ==
    {f} \cup CASE Ends(f, {"torn"})          -> {[f EXCEPT ![Len(f)] = [damage |-> "cut"]]}
               [] Ends(f, {"cut", "broken"}) -> {[f EXCEPT ![Len(f)] = [damage |-> "broken"]]}
               [] OTHER -> {Append(f, [damage |-> d]) : d \in {"torn", "cut"}}

Undecodable(f) ==
    {i \in DOMAIN f : f[i] \in {[damage |-> d] : d \in {"cut", "broken", "undecodable"}}}

IsLineOf(line, t) == IsRecord(line) /\ line.task = t

\* The last line of a task, if it has one.
LastLine(f, t) ==
    {i \in DOMAIN f : /\ IsLineOf(f[i], t)
                      /\ \A j \in DOMAIN f : IsLineOf(f[j], t) => j <= i}

\* The state that it gives the task.
LastState(f, t) ==
    IF LastLine(f, t) = {} THEN "unknown"
    ELSE f[CHOOSE i \in LastLine(f, t) : TRUE].state

\* Mutant of Loads: a line that does not parse ends the reading.
LoadsStrict(f) ==
    {[t \in Tasks |-> LastState(SubSeq(f, 1, n), t)] :
        n \in {m \in DOMAIN f \cup {0} :
                  /\ \A i \in 1 .. m : IsRecord(f[i])
                  /\ m = Len(f) \/ ~IsRecord(f[m + 1])}}

\* How many lines are read.  One that does not decode ends the reading, and
\* takes some of the lines before it along, as the file is decoded in blocks;
\* half a character at the very end takes none.
LinesRead(f) ==
    LET bad == Undecodable(f)
    IN  CASE bad = {}       -> {Len(f)}
          [] bad = {Len(f)} /\ Ends(f, {"cut"}) -> {Len(f) - 1}
          [] OTHER          -> {n \in 0 .. Len(f) : \A i \in bad : n < i}

\* _load_tasks takes the last line of each task, and skips lines that do not
\* parse.
Loads(f) == {[t \in Tasks |-> LastState(SubSeq(f, 1, n), t)] : n \in LinesRead(f)}

\* _persist_task: an exception is logged and forgotten.
Persist(t) ==
    \/ /\ file' = Appended(file, [task |-> t, state |-> mem[t]])
       /\ UNCHANGED faults
    \/ /\ faults < FaultBound
       /\ file' \in Interrupted(file)
       /\ faults' = faults + 1

-----------------------------------------------------------------------------
(* SendMessage and its background thread *)

NoCancel == [stage |-> "idle"]

Init ==
    /\ mem = [t \in Tasks |-> "unknown"]
    /\ file = <<>>
    /\ sending = [t \in Tasks |-> "none"]
    /\ dispatch = [t \in Tasks |-> "none"]
    /\ cancel = [r \in Requests |-> NoCancel]
    /\ faults = 0
    /\ crashes = 0

\* Mutant of NewTask: the task is not kept in memory.
NewTaskForgotten(t) ==
    /\ sending[t] = "none"
    /\ sending' = [sending EXCEPT ![t] = "new"]
    /\ UNCHANGED <<mem, file, dispatch, cancel, faults, crashes>>

\* A message arrives and becomes a task, which other requests can see at once.
NewTask(t) ==
    /\ sending[t] = "none"
    /\ mem' = [mem EXCEPT ![t] = "submitted"]
    /\ sending' = [sending EXCEPT ![t] = "new"]
    /\ UNCHANGED <<file, dispatch, cancel, faults, crashes>>

\* Mutant of PersistNew: no background thread once the append has failed.
PersistNewStrict(t) ==
    /\ sending[t] = "new"
    /\ Persist(t)
    /\ sending' = [sending EXCEPT ![t] = "started"]
    /\ dispatch' = IF faults' = faults THEN [dispatch EXCEPT ![t] = "calling"] ELSE dispatch
    /\ UNCHANGED <<mem, cancel, crashes>>

\* The task is written, its background thread started, and the client answered;
\* or there is no thread to be had, and the client gets an error.
PersistNew(t) ==
    /\ sending[t] = "new"
    /\ Persist(t)
    /\ \/ /\ sending' = [sending EXCEPT ![t] = "started"]
          /\ dispatch' = [dispatch EXCEPT ![t] = "calling"]
       \/ /\ sending' = [sending EXCEPT ![t] = "refused"]
          /\ UNCHANGED dispatch
    /\ UNCHANGED <<mem, cancel, crashes>>

\* OpenClaw took the task, or did not, or was not reached within 10 seconds.
Dispatch(t) ==
    /\ dispatch[t] = "calling"
    /\ \E state \in {"working", "failed"} : mem' = [mem EXCEPT ![t] = state]
    /\ dispatch' = [dispatch EXCEPT ![t] = "called"]
    /\ UNCHANGED <<file, sending, cancel, faults, crashes>>

\* The background thread writes the task and ends.
PersistDispatched(t) ==
    /\ dispatch[t] = "called"
    /\ Persist(t)
    /\ dispatch' = [dispatch EXCEPT ![t] = "over"]
    /\ UNCHANGED <<mem, sending, cancel, crashes>>

-----------------------------------------------------------------------------
(* CancelTask, and the restart *)

\* The cancelled state is set on any task that is known.
CancelTask(r, t) ==
    /\ cancel[r] = NoCancel
    /\ mem[t] # "unknown"
    /\ mem' = [mem EXCEPT ![t] = "canceled"]
    /\ cancel' = [cancel EXCEPT ![r] = [stage |-> "set", task |-> t]]
    /\ UNCHANGED <<file, sending, dispatch, faults, crashes>>

\* Mutant of PersistCancel: the client is answered and nothing is written.
PersistCancelForgotten(r) ==
    /\ cancel[r].stage = "set"
    /\ cancel' = [cancel EXCEPT ![r].stage = "answered"]
    /\ UNCHANGED <<mem, file, sending, dispatch, faults, crashes>>

\* Mutant of PersistCancel: the task is written as it was when cancelled.
PersistCancelSnapshot(r) ==
    /\ cancel[r].stage = "set"
    /\ file' = Appended(file, [task |-> cancel[r].task, state |-> "canceled"])
    /\ cancel' = [cancel EXCEPT ![r].stage = "answered"]
    /\ UNCHANGED <<mem, sending, dispatch, faults, crashes>>

\* The cancelled task is written and the client answered.
PersistCancel(r) ==
    /\ cancel[r].stage = "set"
    /\ Persist(cancel[r].task)
    /\ cancel' = [cancel EXCEPT ![r].stage = "answered"]
    /\ UNCHANGED <<mem, sending, dispatch, crashes>>

\* A thread of task t is about to write it.
Writing(t) ==
    \/ sending[t] = "new"
    \/ dispatch[t] = "called"
    \/ \E r \in Requests : cancel[r] = [stage |-> "set", task |-> t]

\* The process dies, possibly within an append, and main loads the file.  The
\* threads of the old process are gone, and no task is dispatched again.
Restart ==
    /\ crashes < CrashBound
    /\ \/ /\ \E t \in Tasks : Writing(t)
          /\ file' \in Interrupted(file)
       \/ UNCHANGED file
    /\ mem' \in Loads(file')
    /\ sending' = [t \in Tasks |-> IF sending[t] = "none" THEN "none" ELSE "lost"]
    /\ dispatch' = [t \in Tasks |-> IF dispatch[t] = "none" THEN "none" ELSE "lost"]
    /\ cancel' = [r \in Requests |-> IF cancel[r] = NoCancel THEN NoCancel
                                     ELSE [stage |-> "lost", task |-> cancel[r].task]]
    /\ crashes' = crashes + 1
    /\ UNCHANGED faults

Next ==
    \/ \E t \in Tasks : NewTask(t) \/ PersistNew(t)
                        \/ Dispatch(t) \/ PersistDispatched(t)
    \/ \E r \in Requests, t \in Tasks : CancelTask(r, t)
    \/ \E r \in Requests : PersistCancel(r)
    \/ Restart

\* A thread that can go on does: the lock is held for an append only, and the
\* call to OpenClaw ends after 10 silent seconds.
Fairness ==
    /\ \A t \in Tasks : WF_vars(PersistNew(t) \/ Dispatch(t) \/ PersistDispatched(t))
    /\ \A r \in Requests : WF_vars(PersistCancel(r))

Spec == Init /\ [][Next]_vars /\ Fairness

-----------------------------------------------------------------------------
(* Properties *)

\* Every variable holds a value of its kind.
TypeOK ==
    /\ mem \in [Tasks -> States \cup {"unknown"}]
    /\ file \in Seq(Record \cup Damaged)
    /\ sending \in [Tasks -> {"none", "new", "started", "refused", "lost"}]
    /\ dispatch \in [Tasks -> {"none", "calling", "called", "over", "lost"}]
    /\ cancel \in [Requests -> {NoCancel} \cup
                      [stage : {"set", "answered", "lost"}, task : Tasks]]
    /\ faults \in 0 .. FaultBound
    /\ crashes \in 0 .. CrashBound

Intact(f) == \A i \in DOMAIN f : IsRecord(f[i])

\* Without a lock around the tasks the file still catches up with them: once
\* no thread is about to write a task, its last line is the task in memory,
\* whichever threads changed and wrote it in whichever order.
CaughtUp ==
    (faults = 0 /\ Intact(file)) =>
        \A t \in Tasks : Writing(t) \/ LastState(file, t) = mem[t]

\* What failed appends cost is bounded while the file decodes: a restart would
\* lose the newest state of at most two tasks for each failed append, its own
\* and the one glued to it, and of one for each restart within an append.
LossBounded ==
    Undecodable(file) = {} =>
        \A m \in Loads(file) :
            Cardinality({t \in Tasks : ~Writing(t) /\ m[t] # mem[t]})
                <= 2 * faults + crashes

\* A task leaves the cancelled state only by a dispatch that was on its way
\* when it was cancelled or after, or by a restart that finds the file damaged
\* or the cancellation not written yet.
CancelUndone ==
    [][\A t \in Tasks : (mem[t] = "canceled" /\ mem'[t] # "canceled") =>
          \/ dispatch[t] = "calling" /\ dispatch'[t] = "called"
          \/ crashes' > crashes /\ (Writing(t) \/ faults > 0 \/ ~Intact(file'))]_vars

\* A submitted task is dispatched, with its answer recorded, whatever becomes
\* of its line in the file, unless there was no thread for it or a restart
\* takes its threads.
SubmittedMovesOn ==
    \A t \in Tasks :
        mem[t] = "submitted" ~> (mem[t] # "submitted" \/ sending[t] \in {"refused", "lost"})
=============================================================================
