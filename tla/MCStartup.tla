----------------------------- MODULE MCStartup -----------------------------
(***************************************************************************)
(* Instances of Startup for TLC: families of inputs, one for each group of *)
(* settings that the code combines.                                        *)
(***************************************************************************)
EXTENDS Startup, TLC

CONSTANTS g1, g2, d1

SomeValues ==
    Modes \cup Stores \cup
    {"", " ", "\t", "x", "true", "TRUE", "false", "-2", "-1", "0", "3", "10m", "1s", "500ms", "-5m", "- s", "s"}

SomeBlanks == {"", " ", "\t"}

\* A directory may have the name that another group's file has by default.
SomeDirs == {d1, <<g1, "yaml">>}

Ints == "-2" :> (-2) @@ "-1" :> (-1) @@ "0" :> 0 @@ "3" :> 3
Bools == "true" :> TRUE @@ "TRUE" :> TRUE @@ "false" :> FALSE @@ "0" :> FALSE
Durations == "10m" :> 6000 @@ "1s" :> 10 @@ "500ms" :> 5 @@ "-5m" :> (-3000) @@ "0" :> 0

\* Spaces are removed from the environment variable, not from the annotation; tabs
\* from neither.
Yaml == " " :> {" "} @@ "\t" :> {"\t"} @@ "- s" :> {"s"} @@ "s" :> {"s"} @@ "x" :> {"x"}
Comma == "" :> {} @@ " " :> {} @@ "\t" :> {"\t"} @@ "s" :> {"s"}

\* Names: a letter first, a dot, a dash, a quote, what only JSON takes, and long.
Name(first, chars, len) == [first |-> first, chars |-> chars, len |-> len]
Shapes ==
    "" :> Name("none", {}, 0) @@ "*" :> Name("printable", {"printable"}, 1) @@
    "p" :> Name("letter", {"letter"}, 1) @@ "1.v" :> Name("digit", {"digit", "dot", "letter"}, 3) @@
    "a.v" :> Name("letter", {"dot", "letter"}, 3) @@ "a-v" :> Name("letter", {"letter", "printable"}, 3) @@
    "quote" :> Name("letter", {"letter", "quote"}, 5) @@ "c1" :> Name("c1", {"c1"}, 1) @@
    "long" :> Name("letter", {"letter"}, 127) @@ "longer" :> Name("letter", {"letter"}, 1025)

Template(parses, names) == [given |-> TRUE, parses |-> parses, names |-> names]
SomeTemplates == {NoTemplate, Template(TRUE, {}), Template(TRUE, {"p"}), Template(TRUE, {"*"}),
                  Template(FALSE, {})}

String(path) == [kind |-> "string", path |-> path]
Map(pairs) == [kind |-> "map", pairs |-> pairs]
List(entries) == [kind |-> "list", entries |-> entries]
SomeSpecs ==
    {[kind |-> "star"], [kind |-> "broken"], List(<<>>), List(<<[kind |-> "other"]>>),
     List(<<Map({})>>), List(<<Map({<<"p", <<"p">>>>, <<"a.v", <<"p">>>>})>>)} \cup
    {List(<<String(path)>>) : path \in {<<n>> : n \in Names} \cup {<<"p", "">>, <<"", "p">>, <<"p", "*">>}} \cup
    {List(<<String(<<"p">>), Map({<<n, <<"*">>>>})>>) : n \in {"p", "*", "longer"}} \cup
    {List(<<Map({<<n, <<"*">>>>})>>) : n \in {"p", "*"}} \cup
    {List(<<Map({<<n, <<"p">>>>})>>) : n \in {"", "*", "a.v"}}

SomePerms ==
    {<<>>, <<"r", "w">>, <<"-", "r", "w", "-", "r", "-", "-", "-", "-", "-">>,
     <<"?", "r", "w", "-", "r", "-", "-", "-", "-", "-">>,
     <<"r", "-", "-", "-", "-", "-", "-", "-", "-">>, <<"r", "w", "x", "w", "-", "-", "-", "-", "-">>}

PlainGroup ==
    [legal |-> TRUE, dirs |-> <<>>, name |-> NoName, format |-> "none",
     template |-> NoTemplate, templateFile |-> "missing", fileContent |-> NoTemplate,
     perms |-> <<>>, policyPath |-> <<"">>, specs |-> List(<<String(<<"p">>)>>)]

NoAnnots == [k \in AnnotKeys |-> Absent]
NoEnv == [k \in EnvKeys |-> ""]
NoGroups == [g \in GroupNames |-> NoGroup]
FileAnnots == [NoAnnots EXCEPT !["secrets-destination"] = "file"]

Input(file, namespace, annots, env, groups) ==
    [file |-> file, namespace |-> namespace, annots |-> annots, env |-> env, groups |-> groups]

\* Container mode and refresh.
ModeInputs ==
    {Input(f, TRUE,
           [NoAnnots EXCEPT !["container-mode"] = m, !["secrets-refresh-interval"] = i,
                            !["secrets-refresh-enabled"] = e,
                            !["secrets-destination"] = "k8s_secrets"],
           [NoEnv EXCEPT !["container-mode"] = v, !["namespace-allowlist"] = "s",
                         !["secrets-destination"] = "k8s_secrets"],
           NoGroups) :
        f \in {"missing", "ok"},
        m \in {Absent, "", "init", "sidecar", "standalone", "x"},
        v \in {"", "application", "sidecar", "standalone", "x"},
        i \in {Absent, "", "1s", "500ms", "-5m", "0", "x"},
        e \in {Absent, "true", "TRUE", "false", "x"}}

\* Destination, K8s Secrets and the allowlist.
StoreInputs ==
    {Input("ok", n,
           [NoAnnots EXCEPT !["container-mode"] = m, !["secrets-destination"] = a,
                            !["k8s-secrets"] = k, !["namespace-allowlist"] = w],
           [NoEnv EXCEPT !["secrets-destination"] = b, !["k8s-secrets"] = l,
                         !["namespace-allowlist"] = x],
           NoGroups) :
        n \in BOOLEAN, m \in {Absent, "sidecar", "standalone"},
        a \in {Absent, "file", "k8s_secrets"}, b \in {"", "file", "k8s_secrets"},
        k \in {Absent, " ", "- s"}, l \in {"", " ", "\t", "s"}, w \in {Absent, " "}, x \in {"", "s"}}

\* Retries and sanitization.
RetryInputs ==
    {Input("ok", TRUE,
           [NoAnnots EXCEPT !["container-mode"] = m, !["retry-count-limit"] = a,
                            !["retry-interval-sec"] = i, !["remove-deleted-secrets-enabled"] = r],
           [NoEnv EXCEPT !["secrets-destination"] = "k8s_secrets", !["retry-count-limit"] = b,
                         !["namespace-allowlist"] = "s"],
           NoGroups) :
        m \in {Absent, "standalone"}, a \in {Absent, "-2", "-1", "0", "x"}, b \in {"", "x", "3"},
        i \in {Absent, "-1", "0"}, r \in {Absent, "0", "x"}}

\* Annotations that are lost behind a line that is too long.
LongInputs ==
    {Input("long", TRUE,
           [NoAnnots EXCEPT !["container-mode"] = "sidecar", !["secrets-destination"] = a,
                            !["secrets-refresh-interval"] = "1s",
                            !["secrets-refresh-enabled"] = "true"],
           [NoEnv EXCEPT !["secrets-destination"] = "k8s_secrets"],
           [NoGroups EXCEPT ![g1] = [PlainGroup EXCEPT !.dirs = <<d1>>, !.name = d1, !.format = "template",
                                                       !.template = Template(TRUE, {"p"}),
                                                       !.policyPath = <<"p", "">>]]) :
        a \in {"file", "k8s_secrets"}}

GroupInput(file, first, second) ==
    Input(file, TRUE, FileAnnots, NoEnv, [NoGroups EXCEPT ![g1] = first, ![g2] = second])

\* Two groups: what the paths and the templates may be.
TemplateGroups ==
    {[PlainGroup EXCEPT !.format = "template", !.template = t, !.templateFile = h,
                        !.fileContent = c] :
        t \in SomeTemplates, h \in {"missing", "unreadable", "read"}, c \in SomeTemplates}
OtherGroups ==
    {[PlainGroup EXCEPT !.legal = l, !.name = m, !.format = z] :
        l \in BOOLEAN, m \in {NoName, <<g1, "yaml">>, <<g1, "out">>, <<g1, "template">>},
        z \in {"none", "json", "unknown"}}
NestedGroups ==
    {GroupInput("ok", [PlainGroup EXCEPT !.dirs = a, !.name = m], [PlainGroup EXCEPT !.dirs = b, !.name = n]) :
        a \in {<<>>, <<d1>>}, b \in {<<>>, <<d1>>, <<d1, d1>>, <<<<g1, "yaml">>>>}, m \in {NoName, Dot, d1}, n \in {NoName, Dot, d1}}
TwoGroups ==
    {GroupInput("ok", [x EXCEPT !.name = n], y) :
        x \in TemplateGroups \cup {PlainGroup}, n \in {NoName, <<g1, "out">>},
        y \in OtherGroups \cup {NoGroup}}

\* One group: specs, aliases, formats and templates; and permissions.
OneGroup ==
    {GroupInput("ok",
                [PlainGroup EXCEPT !.specs = s, !.policyPath = p, !.format = x, !.template = t],
                NoGroup) :
        s \in SomeSpecs, p \in {<<"">>, <<"", "">>, <<"p", "">>, <<"", "p">>, <<"", "", "">>},
        x \in Formats, t \in SomeTemplates}
Permissions ==
    {GroupInput(f, [PlainGroup EXCEPT !.perms = m], NoGroup) : f \in {"broken", "ok"}, m \in SomePerms}

AllInputs ==
    ModeInputs \cup StoreInputs \cup RetryInputs \cup LongInputs \cup TwoGroups \cup OneGroup
    \cup NestedGroups \cup Permissions
====
