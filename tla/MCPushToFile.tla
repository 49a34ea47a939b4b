----------------------------- MODULE MCPushToFile -----------------------------
(***************************************************************************)
(* PushToFile for TLC: two groups, and the configurations that the run     *)
(* considers.                                                              *)
(***************************************************************************)
EXTENDS PushToFile

CONSTANTS v1, v2

Specs(a, b) == [x \in Groups |-> IF x = 1 THEN a ELSE b]

\* Two groups that share a variable, the second one decoded; all settings.
Named == {c \in ConfigType : /\ c.SecretSpecs = Specs({v1}, {v1, v2})
                             /\ c.base64 = {2} /\ c.decodes /\ ~c.lists
                             /\ c.unremovable => c.faults /\ ~c.deletes}

\* All variables next to one by name, and twice, once with a name in the same
\* group; without an application that deletes files.
Starred == {c \in ConfigType : /\ c.SecretSpecs \in {Specs({Star}, {v2}), Specs({Star}, {Star, v1})}
                               /\ c.base64 = {1} /\ ~c.decodes /\ ~c.deletes
                               /\ ~c.unremovable}

FileConfigs == Named \cup Starred
====
