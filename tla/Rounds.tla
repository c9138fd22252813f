------------------------------- MODULE Rounds -------------------------------
(***************************************************************************)
(* What the history promises about round numbers: every peer's messages    *)
(* are granted ranges of rounds, each range after all those granted        *)
(* before.  Nothing is granted twice and nothing granted is taken back.    *)
(***************************************************************************)
EXTENDS Integers, Sequences

CONSTANTS
    Peers,  \* the peer uuids
    Kinds   \* the kinds of requests that are granted rounds

VARIABLE
    granted  \* the ranges granted to each peer, oldest first

Grants == [kind : Kinds, first : Nat, last : Nat]

Init == granted = [p \in Peers |-> <<>>]

\* A request of a peer is granted the rounds from g.first to g.last.
Grant(p, g) ==
    /\ g \in Grants
    /\ g.first <= g.last
    /\ \A i \in DOMAIN granted[p] : granted[p][i].last < g.first
    /\ granted' = [granted EXCEPT ![p] = Append(@, g)]

\* The range granted is the one that is new.
Next == \E p \in Peers : /\ Len(granted'[p]) > Len(granted[p])
                        /\ Grant(p, granted'[p][Len(granted'[p])])

Spec == Init /\ [][Next]_granted
=============================================================================
