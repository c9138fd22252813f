--------------------------- MODULE TaskLifecycle ---------------------------
(***************************************************************************)
(* What a client of the gateway may rely on when it polls a task: the task *)
(* appears as working, ends in one final state, and stays in it.           *)
(***************************************************************************)
CONSTANT Tasks   \* the task ids

VARIABLE state   \* the state of every task, as GetTask reports it

Final == {"completed", "failed", "canceled"}

TypeOK == state \in [Tasks -> {"unknown", "working"} \cup Final]

Init == state = [t \in Tasks |-> "unknown"]

Begin(t) ==
    /\ state[t] = "unknown"
    /\ state' = [state EXCEPT ![t] = "working"]

End(t, s) ==
    /\ state[t] = "working"
    /\ state' = [state EXCEPT ![t] = s]

Next == \E t \in Tasks : Begin(t) \/ \E s \in Final : End(t, s)

Spec == Init /\ [][Next]_state
=============================================================================
