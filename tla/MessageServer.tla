--------------------------- MODULE MessageServer ---------------------------
(***************************************************************************)
(* The message server of v1 (server/start.py) around its history.  A send  *)
(* comes in as JSON-RPC or as REST; both record the message and its reply, *)
(* but only JSON-RPC forwards the message to CUE, by a task of its own,    *)
(* and keeps a task in memory.  Other clients read the history meanwhile:  *)
(* one exports it page by page, one polls it for new rounds.  A request    *)
(* never awaits between its first and its last step, so a reader finds no  *)
(* operation in progress, but anything may have happened between two of    *)
(* its requests.                                                           *)
(*                                                                         *)
(* The readers are clients, and external.  The exporting one goes on from  *)
(* limit to limit while has_more; the polling one asks for the rounds      *)
(* after the last_round it was told last.                                  *)
(***************************************************************************)
EXTENDS History

CONSTANTS
    PageSize,   \* limit of messages/export
    PollLimit   \* limit of messages/list

ASSUME ServerAssumption == PageSize \in Nat \ {0} /\ PollLimit \in Nat \ {0}

VARIABLES
    via,       \* how the send in progress came in
    forwards,  \* the forwards to CUE, in the order they were started
    tasks,     \* self.tasks: the tasks of answered JSON-RPC sends
    export,    \* the exporting client: its page, what it got, the length it began at
    poll       \* the polling client of every peer: what it was told and has seen

serverVars == <<via, forwards, tasks, export, poll>>

allVars == <<vars, serverVars>>

-----------------------------------------------------------------------------
(* Data *)

Min2(a, b) == IF a < b THEN a ELSE b

Max2(a, b) == IF a > b THEN a ELSE b

NoExport == [stage |-> "idle"]

NewPoll == [last |-> 0, seen |-> {}, late |-> FALSE]

ServerInit ==
    /\ Init
    /\ via = "none"
    /\ forwards = <<>>
    /\ tasks = {}
    /\ export = NoExport
    /\ poll = [p \in Peers |-> NewPoll]

-----------------------------------------------------------------------------
(* Requests that write *)

\* Mutant of SendRpc: the forward is started before the message is recorded.
SendRpcForwardFirst(p) ==
    /\ RecordOutbound(p)
    /\ via' = "rpc"
    /\ forwards' = Append(forwards, [peer |-> p, round |-> mem[p].last + 1,
                                     stage |-> "posting"])
    /\ UNCHANGED <<tasks, export, poll>>

\* message/send
SendRpc(p) ==
    /\ RecordOutbound(p)
    /\ via' = "rpc"
    /\ UNCHANGED <<forwards, tasks, export, poll>>

\* The same as REST.
SendRest(p) ==
    /\ RecordOutbound(p)
    /\ via' = "rest"
    /\ UNCHANGED <<forwards, tasks, export, poll>>

Import(p, n) == ImportMessages(p, n) /\ UNCHANGED serverVars

\* How it came in is of no interest once a request is over.
ViaKept == via' = IF op' = NoOp THEN "none" ELSE via

\* The steps within an operation that only the history sees.
Record ==
    /\ AppendLine \/ EnforceCap \/ ReadContext \/ ImportNothing
    /\ ViaKept
    /\ UNCHANGED <<forwards, tasks, export, poll>>

\* A forward is started as soon as the round of the message is saved.
Forwarded ==
    IF op.kind = "outbound" /\ via = "rpc"
    THEN Append(forwards, [peer |-> op.peer, round |-> op.round, stage |-> "posting"])
    ELSE forwards

\* An answered JSON-RPC send leaves a task that is completed.
TasksKept ==
    IF via = "rpc" /\ (op.kind = "inbound" \/ (op.kind = "outbound" /\ ContextRounds = 0))
    THEN tasks \cup {[peer |-> op.peer, round |-> op.round, state |-> "completed"]}
    ELSE tasks

Save ==
    /\ SaveIndex
    /\ forwards' = Forwarded
    /\ tasks' = TasksKept
    /\ ViaKept
    /\ UNCHANGED <<export, poll>>

\* tasks/cancel: a known task is canceled, completed though it is.
CancelTask(t) ==
    /\ t \in tasks
    /\ op = NoOp
    /\ tasks' = (tasks \ {t}) \cup {[t EXCEPT !.state = "canceled"]}
    /\ UNCHANGED <<vars, via, forwards, export, poll>>

\* _forward_to_cue: CUE takes the message, in any order, or does not within
\* 5 seconds, which is logged and forgotten.
EndForward(i) ==
    /\ op = NoOp
    /\ forwards[i].stage = "posting"
    /\ \E end \in {"received", "lost"} :
          forwards' = [forwards EXCEPT ![i].stage = end]
    /\ UNCHANGED <<vars, via, tasks, export, poll>>

-----------------------------------------------------------------------------
(* Requests that read *)

\* Mutant of HasMore: off by one.
HasMoreLess(offset, total) == offset + PageSize + 1 < total

HasMore(offset, total) == offset + PageSize < total

\* The client begins to export, or begins anew.
StartExport(p) ==
    /\ export' = [stage |-> "reading", peer |-> p, offset |-> 0, got |-> <<>>,
                  begun |-> Len(file[p])]
    /\ UNCHANGED <<vars, via, forwards, tasks, poll>>

\* export_page slices the lines on file.
Page(f, offset) == SubSeq(f, offset + 1, Min2(offset + PageSize, Len(f)))

\* messages/export with the next offset: an unreadable file answers an error.
ExportPage ==
    /\ op = NoOp
    /\ export.stage = "reading"
    /\ Readable(file[export.peer])
    /\ LET f    == file[export.peer]
           more == HasMore(export.offset, Len(f))
       IN  export' = [export EXCEPT !.stage = IF more THEN "reading" ELSE "done",
                                    !.offset = @ + PageSize,
                                    !.got = @ \o Page(f, export.offset)]
    /\ UNCHANGED <<vars, via, forwards, tasks, poll>>

\* Mutant of Cutoff: one round too few.
CutoffLate(p) == Max2(mem[p].last - PollLimit + 2, Max2(mem[p].first, poll[p].last + 1))

\* The first round that list_messages returns to the polling client.
Cutoff(p) == Max2(mem[p].last - PollLimit + 1, Max2(mem[p].first, poll[p].last + 1))

\* messages/list of a peer that has an entry.  A client that comes when there
\* are more new rounds than it takes is late, and followed no further.
Poll(p) ==
    /\ op = NoOp
    /\ mem[p] # NewEntry /\ Readable(file[p])
    /\ ~poll[p].late
    /\ LET found == {i \in DOMAIN file[p] : file[p][i].round >= Cutoff(p)}
           told  == [poll[p] EXCEPT !.last = mem[p].last, !.seen = @ \cup found]
       IN  poll' = [poll EXCEPT ![p] =
               IF mem[p].last - @.last > PollLimit THEN [NewPoll EXCEPT !.late = TRUE] ELSE told]
    /\ UNCHANGED <<vars, via, forwards, tasks, export>>

-----------------------------------------------------------------------------
(* Failures, and the whole *)

\* An exception ends the request; a forward that was started goes on.
Fail == Fault /\ ViaKept /\ UNCHANGED <<forwards, tasks, export, poll>>

\* The process dies: its tasks and its forwards go with it, its clients stay.
Restart ==
    /\ Crash
    /\ via' = "none"
    /\ forwards' = [i \in DOMAIN forwards |->
                       IF forwards[i].stage = "posting"
                       THEN [forwards[i] EXCEPT !.stage = "lost"] ELSE forwards[i]]
    /\ tasks' = {}
    /\ UNCHANGED <<export, poll>>

ServerNext ==
    \/ \E p \in Peers : SendRpc(p) \/ SendRest(p) \/ StartExport(p) \/ Poll(p)
    \/ \E p \in Peers, n \in ImportSizes : Import(p, n)
    \/ Record
    \/ Save
    \/ \E t \in tasks : CancelTask(t)
    \/ \E i \in DOMAIN forwards : EndForward(i)
    \/ ExportPage
    \/ Fail
    \/ Restart

ServerSpec == ServerInit /\ [][ServerNext]_allVars

-----------------------------------------------------------------------------
(* Properties *)

\* What CUE gets is in the history: the round of every forward is counted by
\* the saved index, so that no restart forgets it, and its message is on file
\* as long as the file can be read.
ForwardedOnFile ==
    \A i \in DOMAIN forwards :
        LET p == forwards[i].peer
            r == forwards[i].round
        IN  /\ r <= idx[p].last
            /\ (MaxRounds = 0 /\ Readable(file[p])) => Stored(p, r)

\* CUE never gets two messages of a peer for one round: rounds rise from one
\* forward to the next, over failed requests and restarts, although a forward
\* is started before its request is answered and whether or not it is.
ForwardsRise ==
    \A i, j \in DOMAIN forwards :
        (i < j /\ forwards[i].peer = forwards[j].peer) =>
            forwards[i].round < forwards[j].round

\* A task that can be asked for is on file as one exchange: its round has one
\* reply, and the line before that is the message it answers.
TaskIsOneExchange ==
    (MaxRounds = 0 /\ ContextRounds > 0) =>
        \A t \in tasks :
            LET f       == file[t.peer]
                replies == {i \in DOMAIN f : f[i].round = t.round /\ f[i].role = "inbound"}
            IN  Readable(f) => /\ Cardinality(replies) = 1
                               /\ \A i \in replies : i > 1 /\ Opens(f[i - 1], t.round)

\* Pages taken by offset while others write make up a history, if no cap
\* removes lines from its front: every line there was when the export began,
\* in order and once, and perhaps some that came since.
ExportComplete ==
    (MaxRounds = 0 /\ export.stage = "done") =>
        /\ Len(export.got) >= export.begun
        /\ export.got = SubSeq(file[export.peer], 1, Len(export.got))

\* A client that polls for the rounds after the last it was told of, before
\* there are more of them than it takes, sees every message answered up to it:
\* only a failed write and a restart together, which give a round that it was
\* told of to another message, can hide one.
PollMissesNothing ==
    (MaxRounds = 0 /\ (faults = 0 \/ crashes = 0)) =>
        \A p \in Peers : ~poll[p].late =>
            \A a \in DOMAIN acks[p] : \A r \in acks[p][a].first .. acks[p][a].last :
                r <= poll[p].last =>
                    \E i \in poll[p].seen :
                        /\ Opens(file[p][i], r)
                        /\ \A j \in DOMAIN file[p] : Opens(file[p][j], r) => j <= i
=============================================================================
