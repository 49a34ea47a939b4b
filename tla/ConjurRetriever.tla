---------------------------- MODULE ConjurRetriever ----------------------------
(***************************************************************************)
(* The retriever: one call of Retrieve authenticates, makes a client,      *)
(* lists the variables page by page if it is asked for all of them, and    *)
(* retrieves them in one batch, with the V2 API or, where that is not      *)
(* available, with the V1 API. Policies and permissions change and         *)
(* requests fail between any two requests. The providers rely on what      *)
(* BatchRetrieval says of the result.                                      *)
(***************************************************************************)
EXTENDS Naturals, FiniteSets, BatchRetrieval

CONSTANTS
    Vars,        \* variables, numbered in the order in which Conjur lists them
    Strip,       \* variable -> what is left of its name, taken for a full id
    PageSize,    \* 100
    MaxSecrets,  \* fetchAllMaxSecrets
    Star,        \* "*"
    Configs      \* the configurations that are considered

Names == Vars \cup {Star}
\* The request for all variables of the host.
All == {Star}

AuthnTypes == {"k8s", "jwt", "iam", "azure", "gcp"}

\* CONJUR_AUTHN_URL: the authenticators whose names it contains, and the one its
\* path names before its last part, the service id.
Urls == [contains : SUBSET AuthnTypes, service : AuthnTypes \cup {"none"}]

ConfigType ==
    [url        : Urls,
     requests   : SUBSET SUBSET Names,  \* what the providers ask for
     v2         : BOOLEAN,          \* the server offers the V2 batch API
     lookalike  : BOOLEAN,          \* texts of faults may contain 403 or 404
     visible    : SUBSET Vars,      \* the variables Conjur lists at the start
     maxChanges : Nat]              \* bound on changes and faults

ASSUME RetrieverAssumption ==
    /\ Vars \subseteq Nat /\ IsFiniteSet(Vars) /\ Strip \in [Vars -> Vars]
    /\ PageSize \in Nat \ {0} /\ MaxSecrets \in Nat \ {0} /\ MaxSecrets % PageSize = 0
    /\ Star \notin Vars
    /\ Configs \subseteq ConfigType

VARIABLES
    config,   \* the configuration, chosen once
    visible,  \* the variables that Conjur lists for the host
    unreadable,  \* those of them whose values it refuses
    authn,    \* the type of the authenticator
    pc,       \* where the call stands
    request,  \* variableIDs
    tokens,   \* the buffers that hold an access token
    offset,   \* offset of the next page
    paths,    \* the variables in allResourcePaths, or those asked for
    length,   \* len(allResourcePaths)
    useV2,    \* of the client wrapper
    got,      \* the variables returned
    ret,      \* result of the call: an error text with 403 or 404 is a "status"
    steady,   \* history: the variables listed ever since the list was started
    shrunk,   \* history: a variable has left the list since then
    refused,  \* history: the variables that could not be read when the call returned
    faulty,   \* history: a request of the call has failed
    changes   \* changes and faults so far

conjurVars  == <<visible, unreadable>>
listVars    == <<offset, paths, length>>
historyVars == <<steady, shrunk, refused, faulty>>
vars == <<config, conjurVars, authn, pc, request, tokens, listVars, useV2, got, ret,
          historyVars, changes>>

Readable == visible \ unreadable

Init ==
    /\ config \in Configs
    /\ visible = config.visible /\ unreadable = {}
    /\ authn = "none" /\ pc = "start"
    /\ request = {} /\ tokens = {}
    /\ offset = 0 /\ paths = {} /\ length = 0
    /\ useV2 = TRUE
    /\ got = {} /\ ret = "none"
    /\ steady = {} /\ shrunk = FALSE /\ refused = {} /\ faulty = FALSE
    /\ changes = 0

\* The environment acts at most config.maxChanges times.
Change == changes < config.maxChanges /\ changes' = changes + 1

-----------------------------------------------------------------------------
(***************************************************************************)
(* NewAuthenticator and GetAccessToken.                                    *)
(***************************************************************************)
\* The switch takes the first case that applies.
AuthenticatorFor(url) ==
    CASE "k8s"   \in url.contains -> "k8s"
      [] "k8s"   \notin url.contains /\ "jwt" \in url.contains -> "jwt"
      [] url.contains \cap {"k8s", "jwt"} = {} /\ "iam" \in url.contains -> "iam"
      [] url.contains \cap {"k8s", "jwt", "iam"} = {} /\ "azure" \in url.contains -> "azure"
      [] url.contains = {"gcp"} -> "gcp"
      [] url.contains = {} -> "none"

\* The configuration of conjur-authn-k8s-client, which k8s and jwt need, may not load.
NewAuthenticator ==
    /\ pc = "start"
    /\ \E loaded \in BOOLEAN :
          /\ loaded \/ AuthenticatorFor(config.url) \in {"k8s", "jwt"}
          /\ authn' = AuthenticatorFor(config.url)
          /\ pc' = IF loaded /\ authn' # "none" THEN "idle" ELSE "failed"
    /\ UNCHANGED <<config, conjurVars, request, tokens, listVars, useV2, got, ret,
                   historyVars, changes>>

Call ==
    /\ pc = "idle"
    /\ request' \in config.requests
    /\ pc' = "connect"
    /\ got' = {} /\ ret' = "none" /\ faulty' = FALSE /\ refused' = {}
    /\ UNCHANGED <<config, conjurVars, authn, tokens, listVars, useV2, steady, shrunk, changes>>

\* What a call leaves alone before it has a client.
AuthenticationUnchanged ==
    UNCHANGED <<config, conjurVars, authn, request, listVars, useV2, got, steady, shrunk, refused>>

\* parseServiceID, for the authenticators with a service.
ServiceIDParsed == authn \in {"iam", "azure"} => config.url.service = authn

\* The in-memory token and its authenticator are made, or the client of the
\* cloud's authenticator.
MakeAuthenticator ==
    /\ pc = "connect" /\ ServiceIDParsed
    /\ pc' = "authenticate"
    /\ AuthenticationUnchanged /\ UNCHANGED <<tokens, ret, faulty, changes>>

\* AuthenticateWithContext keeps the token in memory, InternalAuthenticate
\* returns it.
Authenticate ==
    /\ pc = "authenticate"
    /\ tokens' = tokens \cup {IF authn \in {"k8s", "jwt"} THEN "memory" ELSE "accessTokenData"}
    /\ pc' = IF authn \in {"k8s", "jwt"} THEN "read" ELSE "client"
    /\ AuthenticationUnchanged /\ UNCHANGED <<ret, faulty, changes>>

\* Mutant: the token in memory is neither overwritten nor deleted.
CopyToken == tokens \cup {"accessTokenData"}
\* The token is copied, overwritten and deleted.
MoveToken == (tokens \ {"memory"}) \cup {"accessTokenData"}

\* Read fails only where no token was written.
ReadToken ==
    /\ pc = "read"
    /\ tokens' = MoveToken
    /\ pc' = "client"
    /\ AuthenticationUnchanged /\ UNCHANGED <<ret, faulty, changes>>

\* Nothing has been allocated that the caller would clear: Retrieve returns.
AuthenticationFails ==
    /\ \/ pc = "connect" /\ ~ServiceIDParsed /\ UNCHANGED changes
       \/ pc \in {"connect", "authenticate"} /\ Change
    /\ pc' = "idle" /\ ret' = "error" /\ faulty' = TRUE
    /\ AuthenticationUnchanged /\ UNCHANGED tokens

-----------------------------------------------------------------------------
(***************************************************************************)
(* The client, and the list of variables.                                  *)
(***************************************************************************)
\* NewConjurClient: every call starts with the V2 API.
NewConjurClient ==
    /\ pc = "client"
    /\ tokens' = tokens \cup {"client"}
    /\ useV2' = TRUE
    /\ offset' = 0 /\ length' = 0
    /\ paths' = IF request = All THEN {} ELSE request
    /\ pc' = IF request = All THEN "list" ELSE IF request = {} THEN "return" ELSE "batch"
    /\ ret' = IF request = {} THEN "error" ELSE ret
    /\ steady' = visible /\ shrunk' = FALSE
    /\ UNCHANGED <<config, conjurVars, authn, request, got, refused, faulty, changes>>

\* LoadConfig or NewClientFromToken returns an error.
NewConjurClientFails ==
    /\ pc = "client"
    /\ Change
    /\ pc' = "return" /\ ret' = "error" /\ faulty' = TRUE
    /\ AuthenticationUnchanged /\ UNCHANGED tokens

\* The variables at offset, offset + 1, ... of the list.
Page == {v \in visible : LET rank == Cardinality({w \in visible : w < v})
                         IN  offset <= rank /\ rank < offset + PageSize}

\* Mutant: a full page is taken for the last one.
LastIfFull(page) == Cardinality(page) <= PageSize
LastPage(page) == Cardinality(page) < PageSize

\* Mutant: the limit is noticed one page late.
AboveLimit(n) == n > MaxSecrets
LimitReached(n) == n >= MaxSecrets

ListPage ==
    /\ pc = "list"
    /\ paths' = paths \cup Page
    /\ length' = length + Cardinality(Page)
    /\ offset' = offset + PageSize
    /\ pc' = IF ~LastPage(Page) /\ ~LimitReached(length') THEN "list"
             ELSE IF length' = 0 THEN "return" ELSE "batch"
    /\ ret' = IF pc' = "return" THEN "error" ELSE ret
    /\ UNCHANGED <<config, conjurVars, authn, request, tokens, useV2, got, historyVars, changes>>

-----------------------------------------------------------------------------
(***************************************************************************)
(* RetrieveBatchSecretsSafe.                                               *)
(***************************************************************************)
\* A name with two colons that was asked for is taken for a full id; the names
\* in the list of Conjur are full ids. Next to other names, "*" is one of them.
Normalised(v) == IF request = All \/ v = Star THEN v ELSE Strip[v]
batch == {Normalised(v) : v \in paths}

Finish(result, values) ==
    /\ pc' = "return" /\ ret' = result /\ got' = values
    /\ refused' = Names \ Readable
    /\ UNCHANGED <<config, conjurVars, authn, request, tokens, listVars, steady, shrunk>>

\* Mutant: one variable that is refused fails the batch.
AllOrNothing(ok) == IF batch \subseteq ok THEN batch ELSE {}
\* The entries of the response with status 200.
Successes(ok) == batch \cap ok

\* The response has a status for every variable. It is an error if none is 200.
BatchV2 ==
    /\ pc = "batch" /\ useV2 /\ config.v2
    /\ LET secrets == Successes(Readable)
       IN  Finish(IF secrets = {} THEN "error" ELSE "ok", secrets)
    /\ UNCHANGED <<useV2, faulty, changes>>

\* isV2NotAvailableError: the server answers 404, or the client knows that the
\* server does not support it.
FallBack ==
    /\ pc = "batch" /\ useV2
    /\ \/ ~config.v2 /\ UNCHANGED <<faulty, changes>>
       \/ config.lookalike /\ Change /\ faulty' = TRUE
    /\ useV2' = FALSE
    /\ UNCHANGED <<config, conjurVars, authn, pc, request, tokens, listVars, got, ret,
                   steady, shrunk, refused>>

\* The V1 API answers with all values, or with the status of one it refuses.
BatchV1 ==
    /\ pc = "batch" /\ ~useV2
    /\ IF batch \subseteq Readable THEN Finish("ok", batch) ELSE Finish("status", {})
    /\ UNCHANGED <<useV2, faulty, changes>>

\* A request fails for another reason.
RequestFails ==
    /\ pc \in {"list", "batch"}
    /\ Change
    /\ \E result \in {"error"} \cup (IF config.lookalike THEN {"status"} ELSE {}) :
          Finish(result, {})
    /\ faulty' = TRUE
    /\ UNCHANGED useV2

\* Mutant: the token is cleared together with the client only.
ClearedWithClient == IF "client" \in tokens THEN {"client", "accessTokenData"} ELSE {}
\* The deferred functions: the token is overwritten, and the client cleaned up.
Cleared == {"client", "accessTokenData"}

Return ==
    /\ pc = "return"
    /\ pc' = "idle"
    /\ tokens' = tokens \ Cleared
    /\ UNCHANGED <<config, conjurVars, authn, request, listVars, useV2, got, ret,
                   historyVars, changes>>

RetrieverStep ==
    \/ NewAuthenticator \/ Call
    \/ MakeAuthenticator \/ Authenticate \/ ReadToken
    \/ NewConjurClient \/ ListPage \/ BatchV2 \/ FallBack \/ BatchV1 \/ Return

-----------------------------------------------------------------------------
(***************************************************************************)
(* Conjur and the network.                                                 *)
(***************************************************************************)
ConjurChange ==
    /\ Change
    /\ UNCHANGED <<config, authn, pc, request, tokens, listVars, useV2, got, ret, refused, faulty>>

\* A policy adds a variable or lets the host see it.
Add(v) ==
    /\ v \notin visible /\ visible' = visible \cup {v}
    /\ UNCHANGED <<unreadable, steady, shrunk>>
    /\ ConjurChange

\* A policy deletes a variable or hides it from the host.
Remove(v) ==
    /\ v \in visible /\ visible' = visible \ {v} /\ unreadable' = unreadable \ {v}
    /\ steady' = steady \ {v} /\ shrunk' = TRUE
    /\ ConjurChange

\* The host may still see the variable but not read it.
Revoke(v) ==
    /\ v \in Readable /\ unreadable' = unreadable \cup {v}
    /\ UNCHANGED <<visible, steady, shrunk>>
    /\ ConjurChange

Environment ==
    \/ AuthenticationFails \/ NewConjurClientFails \/ RequestFails
    \/ \E v \in Vars : Add(v) \/ Remove(v) \/ Revoke(v)

\* The process ends without an authenticator.
Failed == pc = "failed" /\ UNCHANGED vars

Next == RetrieverStep \/ Environment \/ Failed

Spec == Init /\ [][Next]_vars

-----------------------------------------------------------------------------
(***************************************************************************)
(* Properties.                                                             *)
(***************************************************************************)
\* Every variable holds a value of its Go type.
TypeOK ==
    /\ config \in Configs
    /\ visible \subseteq Vars /\ unreadable \subseteq visible
    /\ authn \in AuthnTypes \cup {"none"}
    /\ pc \in {"start", "failed", "idle", "connect", "authenticate", "read", "client", "list",
               "batch", "return"}
    /\ request \subseteq Names
    /\ tokens \subseteq {"memory", "accessTokenData", "client"}
    /\ offset \in Nat /\ paths \subseteq Names /\ length \in Nat
    /\ useV2 \in BOOLEAN /\ got \subseteq Vars /\ ret \in {"none", "ok", "error", "status"}
    /\ steady \subseteq Vars /\ shrunk \in BOOLEAN /\ refused \subseteq Names /\ faulty \in BOOLEAN
    /\ changes \in 0..config.maxChanges

\* Between two calls no buffer holds an access token, whichever step of the
\* last call failed and whichever authenticator it used.
TokenCleared == pc = "idle" => tokens = {}

\* A call for all variables asks for at most fetchAllMaxSecrets, and below that
\* for every variable that was there all the time, even if a policy added others
\* between two pages. If a variable leaves the list meanwhile, those behind it
\* move up, and one may be passed over.
ListComplete ==
    (pc = "batch" /\ request = All) =>
        /\ length <= MaxSecrets
        /\ length < MaxSecrets /\ ~shrunk => steady \subseteq paths

\* A call that met no fault returns what BatchRetrieval promises of the variables
\* that were asked for and those that could not be read when the batch was
\* retrieved, except for names that are taken for full ids.
AnswersAsPromised ==
    (pc = "return" /\ ~faulty /\ paths # {} /\ \A v \in paths : Normalised(v) = v) =>
        /\ got = Returned(paths, refused, config.v2)
        /\ ret = IF got # {} THEN "ok"
                 ELSE IF StatusError(paths, refused, config.v2) THEN "status" ELSE "error"
====
