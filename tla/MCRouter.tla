------------------------------ MODULE MCRouter ------------------------------
(***************************************************************************)
(* AgentRouter on small instances: all files of a menu of rules that has   *)
(* every kind of condition, and the file that is shipped.                  *)
(***************************************************************************)
EXTENDS AgentRouter

To(agent) == [peer |-> "openclaw", agent |-> agent]

\* A rule with no conditions.
Bare(name, priority) ==
    [name |-> name, priority |-> priority, context |-> NoContext, pointer |-> FALSE,
     metaTags |-> {}, pattern |-> "none", tags |-> {}, target |-> To(name)]

MenuWords  == {"video", "create video"}
MenuPartOf == {<<"video", "create video">>}

MenuRules == {
    Bare("bare", 2),
    [Bare("pointer", 0) EXCEPT !.pointer = TRUE],
    [Bare("context", 1) EXCEPT !.context = "c1"],
    [Bare("mixed", 2)   EXCEPT !.metaTags = {"video"}, !.tags = {"create video"}],
    [Bare("all", 1)     EXCEPT !.context = "c1", !.pointer = TRUE, !.metaTags = {"create video"}],
    [Bare("tag", 1)     EXCEPT !.tags = {"video"}],
    [Bare("invalid", 2) EXCEPT !.pattern = "invalid", !.tags = {"create video"}],
    [Bare("pattern", 0) EXCEPT !.pattern = "create video", !.tags = {"video"}],
    [Bare("any", 0)     EXCEPT !.pattern = "any"]}

\* The routing rules of server_v2/config.yaml.  One tag stands for those of
\* its rule that differ in nothing: each tag of vidforge_create has "video"
\* in it.
ShippedWords == {"project:", "alert:", "search", "video", "create video"}

Shipped == <<
    [Bare("script_receiver", 10) EXCEPT !.tags = {"project:"}],
    [Bare("owner_alert", 10)     EXCEPT !.tags = {"alert:"}],
    [Bare("vidhound_video", 5)   EXCEPT !.tags = {"video", "search"}],
    [Bare("vidforge_create", 5)  EXCEPT !.tags = {"create video"}],
    [Bare("catch_all_main", 0)   EXCEPT !.pattern = "any"]>>

ShippedRules == {Shipped[i] : i \in DOMAIN Shipped}

\* The router with the shipped file.
ShippedSpec == (Init /\ config = Shipped) /\ [][Next]_vars

DefaultTarget == To("main")
=============================================================================
