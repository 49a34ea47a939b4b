----------------------------- MODULE SecretGroups -----------------------------
(***************************************************************************)
(* A secret group of push-to-file: what its annotations become, what the   *)
(* validation at start refuses, and what rendering it needs in every call. *)
(* Startup makes the groups of a process with these operators; PushToFile  *)
(* takes the groups that passed.                                           *)
(*                                                                         *)
(* A path is the sequence of its parts between slashes: "a/b" is           *)
(* <<"a", "b">>, "a/" is <<"a", "">> and "" is <<"">>. A secret's alias is *)
(* a path too, since it may be the path of its variable. A template is the *)
(* set of aliases it looks up; templates whose lookups depend on the       *)
(* values of secrets are left out. Content types are not represented: one  *)
(* that is neither text nor base64 is only warned of.                      *)
(***************************************************************************)
EXTENDS Naturals, Sequences

CONSTANTS
    Shape,       \* the names that occur, and of what characters they are
    GroupNames,  \* names of secret groups
    Dirs,        \* names of directories, which files may have too
    NoName,      \* a secret-file-path without file name
    Dot          \* one that ends in "." (or in ".." after a directory)

Names == DOMAIN Shape
Formats == {"yaml", "json", "dotenv", "bash", "properties", "template"}
FileNames == GroupNames \X (Formats \cup {"out"})

\* Classes of characters: letter has the underscore, printable is the rest of
\* ASCII, quote the double quote and the backslash, blank tab, LF and CR, control
\* the other ASCII controls, c1 what YAML alone refuses and unicode all others.
Chars == {"letter", "digit", "dot", "printable", "quote", "blank", "control", "c1", "unicode"}

ASSUME ShapeAssumption ==
    /\ \A n \in Names : /\ Shape[n].first \in Chars \cup {"none"}
                        /\ Shape[n].chars \subseteq Chars /\ Shape[n].len \in Nat
    /\ {"", "*"} \subseteq Names
    /\ Shape[""] = [first |-> "none", chars |-> {}, len |-> 0]
    /\ Shape["*"] = [first |-> "printable", chars |-> {"printable"}, len |-> 1]
ASSUME NoNameAssumption ==
    {NoName, Dot} \cap (FileNames \cup Dirs) = {} /\ NoName # Dot

Paths == Seq(Names) \ {<<>>}

\* An entry of a list of specs: a string, a map without its content type, or
\* anything else that YAML has.
Entries == [kind : {"string"}, path : Paths] \cup
           [kind : {"map"}, pairs : SUBSET (Names \X Paths)] \cup [kind : {"other"}]
RawSpecs == [kind : {"star", "broken"}] \cup [kind : {"list"}, entries : Seq(Entries)]

\* given: the text is not empty; names: the aliases it looks up.
Templates == [given : BOOLEAN, parses : BOOLEAN, names : SUBSET Names]

\* The annotations of one group, and its template file. dirs and name are its
\* secret-file-path; legal: that is relative, below the base path and the name is
\* not too long.
GroupAnnots ==
    [legal : BOOLEAN, dirs : Seq(Dirs), name : FileNames \cup Dirs \cup {NoName, Dot},
     format : Formats \cup {"none", "unknown"}, template : Templates,
     templateFile : {"missing", "unreadable", "read"}, fileContent : Templates,
     perms : Seq({"r", "w", "x", "-", "?"}), policyPath : Paths, specs : RawSpecs]

-----------------------------------------------------------------------------
(***************************************************************************)
(* Secret specs.                                                           *)
(***************************************************************************)
LastPart(path) == path[Len(path)]

\* More than one alias in a map is refused.
UnmarshalFails(entry) ==
    \/ entry.kind = "other"
    \/ entry.kind = "map" /\ \E p, q \in entry.pairs : p # q

\* Without alias, the last part of the path is taken.
UnmarshalYAML(entry) ==
    IF entry.kind = "string" THEN [Alias |-> LastPart(entry.path), Path |-> entry.path]
    ELSE IF entry.pairs = {} THEN [Alias |-> "", Path |-> <<"">>]
    ELSE LET pair == CHOOSE p \in entry.pairs : TRUE
         IN  [Alias |-> pair[1], Path |-> pair[2]]

NewSecretSpecsFail(raw) ==
    \/ raw.kind = "broken"
    \/ raw.kind = "list" /\ \E i \in DOMAIN raw.entries : UnmarshalFails(raw.entries[i])

NewSecretSpecs(raw) ==
    IF raw.kind = "star" THEN <<[Alias |-> "*", Path |-> <<"*">>]>>
    ELSE [i \in DOMAIN raw.entries |-> UnmarshalYAML(raw.entries[i])]

TrimPrefix(path) == IF Len(path) > 1 /\ path[1] = "" THEN Tail(path) ELSE path
TrimSuffix(path) ==
    IF Len(path) > 1 /\ LastPart(path) = "" THEN SubSeq(path, 1, Len(path) - 1) ELSE path

\* With a policy path, "*" stands for the variable of that name below it.
resolvedSecretSpecs(prefix, specs) ==
    IF prefix = <<"">> THEN specs
    ELSE [i \in DOMAIN specs |->
            [specs[i] EXCEPT !.Path = TrimSuffix(prefix) \o TrimPrefix(specs[i].Path)]]

SecretSpecs(a) == resolvedSecretSpecs(TrimPrefix(a.policyPath), NewSecretSpecs(a.specs))

FetchAll(specs) == Len(specs) = 1 /\ specs[1].Path = <<"*">>

MaxConjurVarNameLen == 126
validateSecretPath(path) ==
    /\ path # <<"">> /\ LastPart(path) # ""
    /\ Shape[LastPart(path)].len <= MaxConjurVarNameLen

-----------------------------------------------------------------------------
(***************************************************************************)
(* Templates.                                                              *)
(***************************************************************************)
maxYAMLKeyLen == 1024
maxJSONKeyLen == 2097152

validateYAMLKey(n) ==
    Shape[n].len <= maxYAMLKeyLen /\ Shape[n].chars \cap {"control", "c1"} = {}
validateJSONKey(n) ==
    Shape[n].len <= maxJSONKeyLen /\ Shape[n].chars \cap {"quote", "blank", "control"} = {}
validatePropertyVarName(n) ==
    Shape[n].first = "letter" /\ Shape[n].chars \subseteq {"letter", "digit", "dot"}
validateBashVarName(n) ==
    Shape[n].first = "letter" /\ Shape[n].chars \subseteq {"letter", "digit"}

ValidateAlias(format, alias) ==
    /\ format = "yaml" => validateYAMLKey(alias)
    /\ format = "json" => validateJSONKey(alias)
    /\ format = "properties" => validatePropertyVarName(alias)
    /\ format \in {"dotenv", "bash"} => validateBashVarName(alias)

\* There is no standard template for the format, or an alias does not fit it.
FileTemplateForFormatFails(format, specs) ==
    \/ format \notin Formats \ {"template"}
    \/ \E i \in DOMAIN specs : ~ValidateAlias(format, specs[i].Alias)

\* A template file that exists needs a content, unless the annotation has one:
\* then the file must be empty.
collectTemplateFails(a) ==
    \/ a.templateFile = "unreadable"
    \/ a.templateFile = "read" /\ (a.template.given <=> a.fileContent.given)

collectTemplate(a) == IF a.templateFile = "missing" THEN a.template ELSE a.fileContent

NoTemplate == [given |-> FALSE, parses |-> TRUE, names |-> {}]
FileTemplate(a) == IF a.format = "template" THEN collectTemplate(a) ELSE NoTemplate
FileFormat(a) == IF a.format = "none" THEN "yaml" ELSE a.format

\* A template must parse and look up aliases that exist; a failed lookup panics.
pushToWriterFails(template, aliases) ==
    ~template.parses \/ \E n \in template.names : <<n>> \notin aliases

Aliases(specs) == {<<specs[i].Alias>> : i \in DOMAIN specs}

\* The annotations of a group, each on a line of its own.
GroupKeys == {"conjur-secrets", "secret-file-path", "secret-file-format", "secret-file-template",
              "secret-file-permissions", "conjur-secrets-policy-path"}

\* What is left of them without those of the keys; without conjur-secrets there is
\* no group.
Without(keys, a) ==
    LET gone(k) == k \in keys
    IN  [a EXCEPT !.legal = @ \/ gone("secret-file-path"),
                  !.dirs = IF gone("secret-file-path") THEN <<>> ELSE @,
                  !.name = IF gone("secret-file-path") THEN NoName ELSE @,
                  !.format = IF gone("secret-file-format") THEN "none" ELSE @,
                  !.template = IF gone("secret-file-template") THEN NoTemplate ELSE @,
                  !.perms = IF gone("secret-file-permissions") THEN <<>> ELSE @,
                  !.policyPath = IF gone("conjur-secrets-policy-path") THEN <<"">> ELSE @]

-----------------------------------------------------------------------------
(***************************************************************************)
(* Permissions and paths.                                                  *)
(***************************************************************************)
RWX == <<"r", "w", "x", "r", "w", "x", "r", "w", "x">>
Owner == {1, 2}

\* The string without the character for the type of file.
Bits(perms) == IF Len(perms) = 10 THEN Tail(perms) ELSE perms

permStrFails(perms) ==
    /\ perms # <<>>
    /\ \/ Len(perms) \notin {9, 10}
       \/ Len(perms) = 10 /\ perms[1] # "-"
       \/ Bits(perms)[1] # "r" \/ Bits(perms)[2] # "w"
       \/ \E i \in 1..9 : Bits(perms)[i] \notin {"-", RWX[i]}

\* The bits of the file mode, the highest first; the default is 0644.
permStrToFileMode(perms) ==
    IF perms = <<>> THEN Owner \cup {4, 7} ELSE {i \in 1..9 : Bits(perms)[i] # "-"}

\* Below the base path, as path.Join cleans it: "." is the directory itself. A path
\* without file name gets one from the group and its format.
absoluteFilePath(g, a) ==
    IF a.name = Dot THEN a.dirs
    ELSE IF a.name # NoName THEN Append(a.dirs, a.name)
    ELSE Append(a.dirs, <<g, IF FileTemplate(a).given THEN "out" ELSE FileFormat(a)>>)

newSecretGroup(g, a) ==
    [Name |-> g, FilePath |-> absoluteFilePath(g, a), FileTemplate |-> FileTemplate(a),
     FileFormat |-> FileFormat(a), FilePermissions |-> permStrToFileMode(a.perms),
     SecretSpecs |-> SecretSpecs(a)]

\* Mutant: aliases are not compared with the format.
PathsOnly(sg) == \E i \in DOMAIN sg.SecretSpecs : ~validateSecretPath(sg.SecretSpecs[i].Path)

\* The template is tried with a dummy secret for every spec.
validateFails(sg) ==
    \/ \E i \in DOMAIN sg.SecretSpecs : ~validateSecretPath(sg.SecretSpecs[i].Path)
    \/ sg.FileFormat # "template" /\ FileTemplateForFormatFails(sg.FileFormat, sg.SecretSpecs)
    \/ sg.FileTemplate.given /\ pushToWriterFails(sg.FileTemplate, Aliases(sg.SecretSpecs))

newSecretGroupFails(g, a) ==
    \/ a.format = "template" /\ collectTemplateFails(a)
    \/ permStrFails(a.perms)
    \/ NewSecretSpecsFail(a.specs)
    \/ validateFails(newSecretGroup(g, a))
    \/ ~a.legal

-----------------------------------------------------------------------------
(***************************************************************************)
(* What a call does with a group that was accepted.                        *)
(***************************************************************************)
maybeFileTemplateFromFormatFails(sg) ==
    ~sg.FileTemplate.given /\ FileTemplateForFormatFails(sg.FileFormat, sg.SecretSpecs)

\* Without alias, or with "*" for one, a secret has the path of its variable.
getSecretValueByID(spec) == IF spec.Alias \in {"", "*"} THEN spec.Path ELSE <<spec.Alias>>

\* The aliases of the secrets that are there in every call: in fetch-all mode the
\* secrets are those of the policy, and there may be none.
SureAliases(specs) ==
    IF FetchAll(specs) THEN {} ELSE {getSecretValueByID(specs[i]) : i \in DOMAIN specs}

\* Every spec must find its alias among the secrets, and there must be as many
\* secrets as specs: "*" among other specs has one for every variable of Conjur.
validateSecretsAgainstSpecsFails(specs, aliases) ==
    /\ ~FetchAll(specs)
    /\ \/ \E i \in DOMAIN specs : specs[i].Path = <<"*">>
       \/ ~(Aliases(specs) \subseteq aliases)

\* A call with the secrets of these aliases cannot render the group.
pushToFileFails(sg, aliases) ==
    \/ maybeFileTemplateFromFormatFails(sg)
    \/ validateSecretsAgainstSpecsFails(sg.SecretSpecs, aliases)
    \/ sg.FileTemplate.given /\ pushToWriterFails(sg.FileTemplate, aliases)

\* dir is a directory that the file of that path is in.
Above(dir, path) == Len(dir) < Len(path) /\ SubSeq(path, 1, Len(dir)) = dir

\* MkdirAll finds a file where a directory should be, or OpenFile a directory where
\* the file should be, after the files of the groups in done were opened.
openFileAsWriteCloserFails(sg, done) ==
    \/ \E x \in done : Above(x.FilePath, sg.FilePath)
    \/ sg.FilePath = <<>> \/ \E x \in done : Above(sg.FilePath, x.FilePath)
====
