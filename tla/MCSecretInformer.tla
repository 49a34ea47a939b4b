--------------------------- MODULE MCSecretInformer ---------------------------
(***************************************************************************)
(* Instances of SecretInformer for TLC.                                    *)
(***************************************************************************)
EXTENDS SecretInformer

CONSTANTS m1, a1

Manifest(label, map, template) ==
    [label |-> label, map |-> map, groups |-> [specs |-> a1, template |-> template]]

\* Secrets without Data that define a group: with a template, with an empty one and
\* without one, the last with each spelling of the label; one without the label, and
\* one with a conjur-map.
SomeManifests ==
    {Manifest("true", NilData, a1), Manifest("true", NilData, EmptyAnnotation),
     Manifest("true", NilData, NoAnnotation), Manifest("truthy", NilData, NoAnnotation),
     Manifest("no", NilData, a1), Manifest("true", m1, a1)}
====
