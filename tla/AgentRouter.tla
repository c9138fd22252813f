---------------------------- MODULE AgentRouter ----------------------------
(***************************************************************************)
(* AgentRouter (server_v2/agent_router.py): the rules of the configuration *)
(* file, and the choice of a peer and an agent for every message.          *)
(*                                                                         *)
(* A text is reduced to the words of interest that it contains, ignoring   *)
(* case.  A word may be part of another (PartOf): who contains "create     *)
(* video" contains "video".  The strings among the values of the metadata  *)
(* are reduced in the same way.                                            *)
(***************************************************************************)
EXTENDS Integers, Sequences, FiniteSets

CONSTANTS
    Words,      \* the words that rules look for
    PartOf,     \* pairs <<v, w>> of words: v is part of w
    Contexts,   \* context ids
    NoContext,  \* no context id given
    Menu,       \* the rules that configuration files are made of
    MaxRules,   \* bound: rules in a file
    Default     \* where the default goes: a target

VARIABLES
    config,   \* routing_rules of the configuration file, in its order
    rules,    \* self._rules
    message,  \* the message being routed, or NoMessage
    outcome   \* where it goes, or NoOutcome

vars == <<config, rules, message, outcome>>

-----------------------------------------------------------------------------
(* Data *)

Target == [peer : STRING, agent : STRING]

\* A pattern is absent, not a regular expression, one that every text
\* matches, or a word.
Rule == [name : STRING, priority : Int,
         context : Contexts \cup {NoContext}, pointer : BOOLEAN, metaTags : SUBSET Words,
         pattern : {"none", "invalid", "any"} \cup Words, tags : SUBSET Words,
         target : Target]

ASSUME RouterAssumption ==
    /\ {"none", "invalid", "any"} \cap Words = {}
    /\ PartOf \subseteq Words \X Words
    /\ NoContext \notin Contexts
    /\ Menu \subseteq Rule
    /\ MaxRules \in Nat
    /\ Default \in Target

\* What a string can contain: with a word, all of its parts.
Contents == {s \in SUBSET Words : \A pair \in PartOf : pair[2] \in s => pair[1] \in s}

\* The workflow_pointer of the metadata is absent, an object with or without
\* a next agent, or something that is not an object.
Metadata == [context : Contexts \cup {NoContext},
             pointer : {"absent", "next", "object", "text"},
             words : Contents, agentId : BOOLEAN, peer : BOOLEAN]

NoMetadata == [pointer |-> "no metadata"]

Messages == [text : Contents, metadata : Metadata \cup {NoMetadata}]

NoMessage == [text |-> {}]

NoOutcome == [kind |-> "none"]

Raised == [kind |-> "raised"]

Routed(rule, target) == [kind |-> "routed", rule |-> rule, target |-> target]

-----------------------------------------------------------------------------
(* The choice *)

\* Rule i of a file comes before rule j in the order of priority.
Before(file, i, j) ==
    \/ file[i].priority > file[j].priority
    \/ file[i].priority = file[j].priority /\ i < j

\* The place that sorting gives to rule i of a file.
Rank(file, i) == 1 + Cardinality({j \in DOMAIN file : Before(file, j, i)})

\* Mutant of Sorted: the rules are tried in the order of the file.
Unsorted(file) == file

\* sort(key=-priority) is stable: rules of one priority keep their order.
Sorted(file) == [k \in DOMAIN file |-> file[CHOOSE i \in DOMAIN file : Rank(file, i) = k]]

\* _rule_matches_metadata: all the conditions that a rule has, and it has one.
MatchesMetadata(rule, metadata) ==
    /\ metadata # NoMetadata
    /\ rule.context # NoContext \/ rule.pointer \/ rule.metaTags # {}
    /\ rule.context # NoContext => metadata.context = rule.context
    /\ rule.pointer => metadata.pointer # "absent"
    /\ rule.metaTags # {} => rule.metaTags \cap metadata.words # {}

\* A rule matches a text by its pattern or by one of its tags, whatever
\* conditions on metadata it has.
MatchesText(rule, text) ==
    \/ rule.pattern = "any"
    \/ rule.pattern \in text
    \/ rule.tags \cap text # {}

\* The first rule, in the order in which they are tried, that matches.
First(order, matching) ==
    LET k == CHOOSE i \in matching : \A j \in matching : i <= j
    IN  Routed(order[k].name, order[k].target)

\* No rule matched: the agent that the metadata names, or the default.
Explicit(metadata) ==
    LET to(agent) == Routed("explicit_agent_id",
                            [peer |-> IF metadata.peer THEN "named peer" ELSE Default.peer,
                             agent |-> agent])
    IN  IF metadata = NoMetadata THEN Routed("default", Default)
        ELSE IF metadata.agentId THEN to("named agent")
        ELSE IF metadata.pointer = "text" THEN Raised
        ELSE IF metadata.pointer = "next" THEN to("next agent")
        ELSE Routed("default", Default)

\* Mutant of Choice: texts are looked at before metadata.
ChoiceTextFirst(order, m) ==
    LET byMetadata == {k \in DOMAIN order : MatchesMetadata(order[k], m.metadata)}
        byText     == {k \in DOMAIN order : MatchesText(order[k], m.text)}
    IN  IF byText # {} THEN First(order, byText)
        ELSE IF byMetadata # {} THEN First(order, byMetadata)
        ELSE Explicit(m.metadata)

\* Mutant of Choice: the agent that the metadata names comes first.
ChoiceExplicitFirst(order, m) ==
    LET byText == {k \in DOMAIN order : MatchesText(order[k], m.text)}
    IN  IF Explicit(m.metadata) # Routed("default", Default) \/ byText = {}
        THEN Explicit(m.metadata) ELSE First(order, byText)

\* route, for rules in the order in which they are tried.
Choice(order, m) ==
    LET byMetadata == {k \in DOMAIN order : MatchesMetadata(order[k], m.metadata)}
        byText     == {k \in DOMAIN order : MatchesText(order[k], m.text)}
    IN  IF byMetadata # {} THEN First(order, byMetadata)
        ELSE IF byText # {} THEN First(order, byText)
        ELSE Explicit(m.metadata)

-----------------------------------------------------------------------------
(* The router *)

Files == UNION {[1 .. n -> Menu] : n \in 0 .. MaxRules}

\* load_rules, when the gateway starts.
Init ==
    /\ config \in Files
    /\ rules = Sorted(config)
    /\ message = NoMessage
    /\ outcome = NoOutcome

\* A message is routed.  route sorts the rules once more.
Route(m) ==
    /\ message = NoMessage
    /\ message' = m
    /\ outcome' = Choice(Sorted(rules), m)
    /\ UNCHANGED <<config, rules>>

\* The executor has taken the outcome and goes on.
Return ==
    /\ message # NoMessage
    /\ message' = NoMessage
    /\ outcome' = NoOutcome
    /\ UNCHANGED <<config, rules>>

Next == Return \/ \E m \in Messages : Route(m)

Spec == Init /\ [][Next]_vars

-----------------------------------------------------------------------------
(* Properties *)

\* The documented precedence (agent_router.py, lines 115-119), stated over the
\* file: the best rule that the metadata meets, else the best that the text
\* meets; and only a message that no rule matches goes where it asks to, by
\* its agent id before its workflow pointer, or else to the default.
PrecedenceKept ==
    message # NoMessage =>
        LET byMetadata == {i \in DOMAIN config : MatchesMetadata(config[i], message.metadata)}
            byText == {i \in DOMAIN config : MatchesText(config[i], message.text)}
            won(i) == outcome = Routed(config[i].name, config[i].target)
        IN  /\ \A i \in byMetadata : (\A j \in byMetadata : ~Before(config, j, i)) => won(i)
            /\ byMetadata = {} =>
                  /\ \A i \in byText : (\A j \in byText : ~Before(config, j, i)) => won(i)
                  /\ byText = {} => outcome = Explicit(message.metadata)

\* Where the priorities of the rules differ, their order in the file does not
\* matter: any other order of the same rules routes the message alike.
FileOrderIrrelevant ==
    (message # NoMessage
        /\ \A i, j \in DOMAIN config : i # j => config[i].priority # config[j].priority) =>
            \A p \in [DOMAIN config -> DOMAIN config] :
                (\A i, j \in DOMAIN config : i # j => p[i] # p[j]) =>
                    Choice(Sorted([i \in DOMAIN config |-> config[p[i]]]), message) = outcome

\* With a rule that every text matches, which the shipped files end in, no
\* message reaches the default or makes the routing raise, and none chooses
\* its own agent.
CatchAllAnswersAll ==
    (message # NoMessage /\ \E i \in DOMAIN config : config[i].pattern = "any") =>
        /\ outcome.kind = "routed"
        /\ \E i \in DOMAIN config : outcome.rule = config[i].name

-----------------------------------------------------------------------------
(* What the documents say, and the code does not do *)

\* server_v2/config.yaml, lines 15 and 46: the rules determine which agent
\* handles a message, one of them video creation.  Then every rule of the file
\* would be the outcome for some message.
EveryRuleReachable ==
    \A i \in DOMAIN config :
        \E m \in Messages : Choice(Sorted(rules), m) = Routed(config[i].name, config[i].target)
=============================================================================
