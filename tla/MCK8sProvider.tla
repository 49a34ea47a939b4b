----------------------------- MODULE MCK8sProvider -----------------------------
(***************************************************************************)
(* K8sProvider for TLC: the manifests users write and the configurations   *)
(* that the runs consider.                                                 *)
(***************************************************************************)
EXTENDS K8sProvider, TLC

CONSTANTS k1, k2, v1, v2, s1, s2

\* Values are only compared.
Symmetry == Permutations(Values)

Map(a, b) == [NoManifest EXCEPT !.map = [k \in Keys |-> IF k = k1 THEN a ELSE b]]
Encoded(m) == [m EXCEPT !.base64 = {k1}]
All(m) == [m EXCEPT !.all = TRUE]
Group(m, g) == [m EXCEPT !.groups[k2] = g]
Garbled == [NoManifest EXCEPT !.garbled = TRUE]
Both  == [vars |-> {v1, v2}, template |-> "text"]
Wrong == [vars |-> {v2}, template |-> "wrong"]
Bare  == [vars |-> {v2}, template |-> "values"]
Empty == [vars |-> {v2}, template |-> "empty"]

\* Both keys, the first only, none: keys come and go.
ShrinkingMaps == {Map(v1, v2), Map(v1, NoVar), Map(NoVar, NoVar)}
\* Both keys or one, never an empty conjur-map; the keys share a variable,
\* which one of them decodes.
SharedMaps == {Encoded(Map(v1, v1)), Map(NoVar, v1)}
\* A conjur-map with one valid and one invalid entry.
InvalidMaps == {Map(v1, v2), Map(v1, BadEntry)}
\* The second key leaves the conjur-map.
LosesKey == {Map(v1, v2), Map(v1, NoVar)}
\* An invalid entry next to "*".
InvalidAll == {Map(v1, v2), All(Map(v1, BadEntry))}
\* A conjur-map that is not YAML, groups that are invalid or cannot be rendered.
Malformeds == {Map(v1, v2), Garbled, Group(Garbled, BadSpecs), Group(Map(v1, NoVar), BadSpecs), Group(NoManifest, Wrong)}
\* A key with a variable or a group, next to a key with a variable.
GroupMaps == {Map(v1, v2), Group(Encoded(Map(v1, NoVar)), Both)}
\* A key with a variable, or with a group that has no text of its own.
BareMaps == {Map(v1, v2), Group(Map(v1, NoVar), Bare), Group(Map(v1, v2), Empty)}
\* All variables, or one by name; the name of the other's key for it.
AllMaps == {All(NoManifest), Map(v1, NoVar), All(Map(NoVar, v1))}

\* Labelled Secrets refreshed by ticks and events, with sanitization and V1.
Labels(existing, manifests, maxChanges) ==
    [labelBased |-> TRUE, sanitizeEnabled |-> TRUE, v2 |-> FALSE, periodic |-> TRUE,
     keyOf |-> [v \in Vars |-> IF v = v1 THEN k1 ELSE k2], lists |-> FALSE, decodes |-> TRUE, lookalike |-> FALSE, clientFails |-> FALSE,
     existing |-> existing, manifests |-> manifests, deletes |-> FALSE, revokes |-> TRUE, maxChanges |-> maxChanges]

WithV2(c) == [c EXCEPT !.v2 = TRUE]
WithDeletes(c) == [c EXCEPT !.deletes = TRUE]
WithLists(c) == [c EXCEPT !.lists = TRUE]
Colliding(c) == [c EXCEPT !.keyOf = [v \in Vars |-> k1]]
Undecodable(c) == [c EXCEPT !.decodes = FALSE]
WithLookalike(c) == [c EXCEPT !.lookalike = TRUE]
Permitted(c) == [c EXCEPT !.revokes = FALSE]
WithoutToken(c) == [c EXCEPT !.clientFails = TRUE]
Required(c) == [c EXCEPT !.labelBased = FALSE, !.sanitizeEnabled = FALSE]
WithoutPeriodic(c) == [c EXCEPT !.periodic = FALSE]

\* One Secret with many changes, two with fewer, two required ones that also
\* come and go, two of which one may have an invalid conjur-map, without and with a
\* client that fails; malformed manifests, groups with and without text of their own,
\* and all variables with and without revocations, each with
\* its own key or with the same.
SafetyConfigs ==
    {WithV2(Labels({s1}, ShrinkingMaps, 4)),
     Labels({s1, s2}, LosesKey, 3),
     WithDeletes(WithV2(Required(Labels({s1, s2}, ShrinkingMaps, 3)))),
     WithDeletes(WithV2(Labels({s1, s2}, InvalidMaps, 2))),
     WithLookalike(Permitted(Labels({s1, s2}, Malformeds, 1))),
     WithLookalike(Permitted(Labels({s1, s2}, InvalidAll, 1))),
     WithLookalike(Labels({s1}, GroupMaps, 3)),
     Undecodable(Required(Labels({s1, s2}, GroupMaps, 2))),
     WithV2(Required(Labels({s1, s2}, BareMaps, 2))),
     Permitted(WithV2(Labels({s1}, BareMaps, 2))),
     WithoutToken(Labels({s1, s2}, InvalidMaps, 2)),
     WithLists(Labels({s1, s2}, AllMaps, 2)),
     Permitted(WithV2(Labels({s1}, AllMaps, 3))),
     Colliding(Labels({s1}, AllMaps, 2))}

\* Keys that share a variable, groups and all variables, with a refresh; a key
\* that leaves the conjur-map, without.
LiveConfigs ==
    {Labels({s1}, SharedMaps, 3),
     Labels({s1}, GroupMaps \cup BareMaps, 2),
     WithV2(Labels({s1}, AllMaps, 2)),
     Colliding(Labels({s1}, AllMaps, 2)),
     WithoutPeriodic(WithV2(Labels({s1}, LosesKey, 2)))}

\* A Secret that is deleted and created.
RecreateConfigs == {WithDeletes(Labels({s1}, {Map(v1, v2)}, 2))}

\* A Secret that may have an invalid conjur-map.
InvalidConfigs == {WithV2(Labels({s1}, InvalidMaps, 1))}
====
