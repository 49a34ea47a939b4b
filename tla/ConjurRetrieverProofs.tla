------------------------ MODULE ConjurRetrieverProofs ------------------------
(***************************************************************************)
(* Proofs about the retriever, for any number of variables, any page size  *)
(* and any limit that is a multiple of it. The paging of fetch-all is an   *)
(* argument about the rank of a variable in the list of Conjur: ranks fill *)
(* an initial segment of the numbers, so a page that is not full is the    *)
(* last one, and policies that only add variables only raise ranks.        *)
(***************************************************************************)
EXTENDS ConjurRetriever, TLAPS, FiniteSetTheorems

-----------------------------------------------------------------------------
(***************************************************************************)
(* Ranks and pages.                                                        *)
(***************************************************************************)
\* The place of v in the list of the variables in S.
RankIn(S, v) == Cardinality({w \in S : w < v})

\* A rank is a number, and a variable comes behind those that are smaller.
LEMMA RankOrder ==
    ASSUME NEW S \in SUBSET Nat, IsFiniteSet(S)
    PROVE  /\ \A v \in Nat : RankIn(S, v) \in Nat
           /\ \A v, w \in S : v < w => RankIn(S, v) < RankIn(S, w)
<1> DEFINE Below(v) == {w \in S : w < v}
<1>1. \A v \in Nat : IsFiniteSet(Below(v)) /\ Cardinality(Below(v)) \in Nat
  <2> TAKE v \in Nat
  <2>1. Below(v) \in SUBSET S
    OBVIOUS
  <2>2. IsFiniteSet(Below(v))
    BY <2>1, FS_Subset
  <2> QED
    BY <2>2, FS_CardinalityType
<1>2. ASSUME NEW v \in S, NEW w \in S, v < w
      PROVE  Cardinality(Below(v)) < Cardinality(Below(w))
  <2>0. v \in Nat /\ w \in Nat /\ S \subseteq Nat
    OBVIOUS
  <2>1. Below(v) \in SUBSET Below(w) /\ v \in Below(w) /\ v \notin Below(v)
    <3>1. \A x \in S : x < v => x < w
      BY <1>2, <2>0
    <3>2. v \in Below(w)
      BY <1>2
    <3>3. v \notin Below(v)
      BY <2>0
    <3>4. Below(v) \subseteq Below(w)
      BY <3>1
    <3> QED
      BY <3>2, <3>3, <3>4
  <2>2. Cardinality(Below(v)) <= Cardinality(Below(w))
    BY <1>1, <2>1, FS_Subset
  <2>3. Cardinality(Below(w)) # Cardinality(Below(v))
    BY <1>1, <2>1, FS_Subset
  <2> QED
    BY <1>1, <2>2, <2>3
<1> QED
  BY <1>1, <1>2 DEF RankIn

\* Two variables of a list never have the same rank.
LEMMA RankInjective ==
    ASSUME NEW S \in SUBSET Nat, IsFiniteSet(S), NEW v \in S, NEW w \in S,
           RankIn(S, v) = RankIn(S, w)
    PROVE  v = w
<1>1. RankIn(S, v) \in Nat /\ RankIn(S, w) \in Nat
  BY RankOrder
<1>2. ~(v < w) /\ ~(w < v)
  BY <1>1, RankOrder
<1> QED
  BY <1>2

\* Every rank below that of a variable is the rank of another one.
LEMMA RanksFill ==
    ASSUME NEW S \in SUBSET Nat, IsFiniteSet(S), NEW v \in S, NEW n \in Nat, n < RankIn(S, v)
    PROVE  \E w \in S : RankIn(S, w) = n
<1> DEFINE B == {w \in S : w < v}
           r == RankIn(S, v)
           T == 0 .. (r - 1)
           f == [w \in B |-> RankIn(S, w)]
<1>1. r \in Nat /\ r = Cardinality(B)
  BY RankOrder DEF RankIn
<1>2. IsFiniteSet(T) /\ Cardinality(T) = r
  <2>1. 0 \in Int /\ r - 1 \in Int
    BY <1>1
  <2>2. IsFiniteSet(T) /\ Cardinality(T) = IF 0 > r - 1 THEN 0 ELSE (r - 1) - 0 + 1
    BY <2>1, FS_Interval
  <2> QED
    BY <1>1, <2>2
<1>3. \A w \in B : RankIn(S, w) \in T
  <2>1. \A w \in B : RankIn(S, w) \in Nat /\ RankIn(S, w) < r
    BY RankOrder
  <2> QED
    BY <1>1, <2>1
<1>4. f \in [B -> T]
  BY <1>3
<1>5. f \in Injection(B, T)
  <2>1. \A a, b \in B : f[a] = f[b] => a = b
    BY RankInjective
  <2> QED
    BY <1>4, <2>1 DEF Injection, IsInjective
<1>6. f \in Surjection(B, T)
  BY <1>1, <1>2, <1>5, FS_Injection
<1>7. n \in T
  BY <1>1
<1>8. \E w \in B : f[w] = n
  BY <1>6, <1>7 DEF Surjection
<1> QED
  BY <1>8

\* A variable that is added to the list does not lower the rank of any other.
LEMMA RankGrows ==
    ASSUME NEW S \in SUBSET Nat, IsFiniteSet(S), NEW T \in SUBSET S, NEW v \in Nat
    PROVE  RankIn(T, v) <= RankIn(S, v)
<1>1. {w \in S : w < v} \in SUBSET S /\ {w \in T : w < v} \in SUBSET {w \in S : w < v}
  OBVIOUS
<1>2. IsFiniteSet({w \in S : w < v})
  BY <1>1, FS_Subset
<1> QED
  BY <1>1, <1>2, FS_Subset DEF RankIn
-----------------------------------------------------------------------------
(***************************************************************************)
(* Pages of the list.                                                      *)
(***************************************************************************)
\* What Conjur lists is a finite set of numbers, and a page is a part of it.
LEMMA PageFacts ==
    ASSUME TypeOK
    PROVE  /\ visible \in SUBSET Nat /\ IsFiniteSet(visible)
           /\ Page = {v \in visible : offset <= RankIn(visible, v) /\ RankIn(visible, v) < offset + PageSize}
           /\ IsFiniteSet(Page) /\ Cardinality(Page) \in Nat
<1>1. visible \in SUBSET Vars /\ Vars \subseteq Nat /\ IsFiniteSet(Vars)
  BY RetrieverAssumption DEF TypeOK
<1>2. IsFiniteSet(visible)
  BY <1>1, FS_Subset
<1>3. Page \in SUBSET visible
  BY DEF Page
<1>4. IsFiniteSet(Page)
  BY <1>2, <1>3, FS_Subset
<1>5. Cardinality(Page) \in Nat
  BY <1>4, FS_CardinalityType
<1> QED
  BY <1>1, <1>2, <1>4, <1>5 DEF Page, RankIn

\* The ranks of one page: PageSize numbers.
LEMMA WindowFacts ==
    ASSUME TypeOK
    PROVE  LET T == offset .. (offset + PageSize - 1)
           IN  IsFiniteSet(T) /\ Cardinality(T) = PageSize
<1>1. offset \in Nat /\ PageSize \in Nat \ {0}
  BY RetrieverAssumption DEF TypeOK
<1>2. offset \in Int /\ offset + PageSize - 1 \in Int
  BY <1>1
<1>3. /\ IsFiniteSet(offset .. (offset + PageSize - 1))
      /\ Cardinality(offset .. (offset + PageSize - 1)) =
            IF offset > offset + PageSize - 1 THEN 0 ELSE (offset + PageSize - 1) - offset + 1
  BY <1>2, FS_Interval
<1> QED
  BY <1>1, <1>3

\* A page has at most PageSize variables.
LEMMA PageAtMost == TypeOK => Cardinality(Page) <= PageSize
<1> SUFFICES ASSUME TypeOK PROVE Cardinality(Page) <= PageSize
  OBVIOUS
<1> DEFINE T == offset .. (offset + PageSize - 1)
           f == [v \in Page |-> RankIn(visible, v)]
<1>1. visible \in SUBSET Nat /\ IsFiniteSet(visible) /\ Page \subseteq visible
  BY PageFacts
<1>2. \A v \in Page : RankIn(visible, v) \in T
  <2>1. offset \in Nat /\ PageSize \in Nat
    BY RetrieverAssumption DEF TypeOK
  <2>2. \A v \in Page : /\ RankIn(visible, v) \in Nat
                        /\ offset <= RankIn(visible, v) /\ RankIn(visible, v) < offset + PageSize
    BY <1>1, PageFacts, RankOrder
  <2> QED
    BY <2>1, <2>2
<1>3. f \in [Page -> T]
  BY <1>2
<1>4. \A a, b \in Page : f[a] = f[b] => a = b
  BY <1>1, RankInjective
<1>5. f \in Injection(Page, T)
  BY <1>3, <1>4 DEF Injection, IsInjective
<1>6. Cardinality(Page) <= Cardinality(T)
  BY <1>5, WindowFacts, FS_Injection
<1> QED
  BY <1>6, WindowFacts

\* If a variable comes behind the page, the page is full.
LEMMA BehindFullPage ==
    ASSUME TypeOK, NEW v \in visible, offset + PageSize <= RankIn(visible, v)
    PROVE  Cardinality(Page) >= PageSize
<1> DEFINE T == offset .. (offset + PageSize - 1)
           f == [w \in Page |-> RankIn(visible, w)]
<1>1. visible \in SUBSET Nat /\ IsFiniteSet(visible) /\ IsFiniteSet(Page) /\ Page \subseteq visible
  BY PageFacts
<1>2. offset \in Nat /\ PageSize \in Nat /\ RankIn(visible, v) \in Nat
  BY <1>1, RankOrder, RetrieverAssumption DEF TypeOK
<1>3. \A w \in Page : RankIn(visible, w) \in T
  <2>1. \A w \in Page : /\ RankIn(visible, w) \in Nat
                        /\ offset <= RankIn(visible, w) /\ RankIn(visible, w) < offset + PageSize
    BY <1>1, PageFacts, RankOrder
  <2> QED
    BY <1>2, <2>1
<1>4. \A n \in T : \E w \in Page : RankIn(visible, w) = n
  <2> TAKE n \in T
  <2>1. n \in Nat /\ n < RankIn(visible, v) /\ offset <= n /\ n < offset + PageSize
    BY <1>2
  <2>2. \E w \in visible : RankIn(visible, w) = n
    BY <1>1, <2>1, RanksFill
  <2> QED
    BY <2>1, <2>2, PageFacts
<1>5. f \in Surjection(Page, T)
  <2>1. f \in [Page -> T]
    BY <1>3
  <2>2. \A n \in T : \E w \in Page : f[w] = n
    BY <1>4
  <2> QED
    BY <2>1, <2>2 DEF Surjection
<1>6. Cardinality(T) <= Cardinality(Page)
  BY <1>1, <1>5, FS_Surjection
<1> QED
  BY <1>1, <1>6, WindowFacts, FS_CardinalityType, RetrieverAssumption

-----------------------------------------------------------------------------
(***************************************************************************)
(* Types.                                                                  *)
(***************************************************************************)
\* What a batch returns is among the variables.
LEMMA BatchTyped == TypeOK => batch \subseteq Names /\ Readable \subseteq Vars
  BY RetrieverAssumption DEF TypeOK, batch, Normalised, Names, Readable

\* Every step of a call, of Conjur and of the network keeps the types.
LEMMA TypeStep == TypeOK /\ [Next]_vars => TypeOK'
<1> SUFFICES ASSUME TypeOK, [Next]_vars PROVE TypeOK'
  OBVIOUS
<1>0. config.maxChanges \in Nat /\ \A r \in config.requests : r \subseteq Names
  BY RetrieverAssumption DEF TypeOK, ConfigType
<1> USE DEF TypeOK, conjurVars, listVars, historyVars, AuthenticationUnchanged, Change
<1>1. CASE NewAuthenticator
  <2>1. authn' = AuthenticatorFor(config.url)
    BY <1>1 DEF NewAuthenticator
  <2>2. authn' \in AuthnTypes \cup {"none"}
    BY <2>1, RetrieverAssumption DEF AuthenticatorFor, AuthnTypes, ConfigType, Urls
  <2>3. pc' \in {"idle", "failed"}
    BY <1>1 DEF NewAuthenticator
  <2> QED
    BY <1>1, <2>2, <2>3 DEF NewAuthenticator
<1>2. CASE Call
  BY <1>2, <1>0 DEF Call
<1>3. CASE MakeAuthenticator
  BY <1>3 DEF MakeAuthenticator
<1>4. CASE Authenticate
  BY <1>4 DEF Authenticate
<1>5. CASE ReadToken
  BY <1>5 DEF ReadToken, MoveToken
<1>6. CASE NewConjurClient
  BY <1>6 DEF NewConjurClient, Names
<1>7. CASE ListPage
  <2>1. Page \subseteq Names /\ Cardinality(Page) \in Nat
    BY PageFacts DEF Page, Names
  <2>2. offset' \in Nat /\ length' \in Nat /\ paths' \subseteq Names
    BY <1>7, <2>1, RetrieverAssumption DEF ListPage
  <2>3. pc' \in {"list", "return", "batch"} /\ ret' \in {"error", ret}
    BY <1>7 DEF ListPage
  <2> QED
    BY <1>7, <2>2, <2>3 DEF ListPage
<1>8. CASE BatchV2
  BY <1>8, BatchTyped DEF BatchV2, Finish, Successes, Names
<1>9. CASE FallBack
  <2>1. useV2' = FALSE /\ faulty' \in {faulty, TRUE} /\ changes' \in 0..config.maxChanges
    <3>1. CASE UNCHANGED <<faulty, changes>>
      BY <1>9, <3>1 DEF FallBack
    <3>2. CASE Change /\ faulty' = TRUE
      BY <1>9, <1>0, <3>2 DEF FallBack
    <3> QED
      BY <1>9, <3>1, <3>2 DEF FallBack
  <2> QED
    BY <1>9, <2>1 DEF FallBack
<1>10. CASE BatchV1
  BY <1>10, BatchTyped DEF BatchV1, Finish, Names
<1>11. CASE Return
  BY <1>11 DEF Return, Cleared
<1>12. CASE AuthenticationFails
  BY <1>12, <1>0 DEF AuthenticationFails
<1>13. CASE NewConjurClientFails
  BY <1>13, <1>0 DEF NewConjurClientFails
<1>14. CASE RequestFails
  BY <1>14, <1>0 DEF RequestFails, Finish, Names
<1>15. ASSUME NEW v \in Vars, Add(v) PROVE TypeOK'
  BY <1>15, <1>0 DEF Add, ConjurChange
<1>16. ASSUME NEW v \in Vars, Remove(v) PROVE TypeOK'
  BY <1>16, <1>0 DEF Remove, ConjurChange
<1>17. ASSUME NEW v \in Vars, Revoke(v) PROVE TypeOK'
  BY <1>17, <1>0 DEF Revoke, ConjurChange, Readable
<1>18. CASE Failed
  BY <1>18 DEF Failed, vars
<1>19. CASE UNCHANGED vars
  BY <1>19 DEF vars
<1> QED
  BY <1>1, <1>2, <1>3, <1>4, <1>5, <1>6, <1>7, <1>8, <1>9, <1>10,
     <1>11, <1>12, <1>13, <1>14, <1>15, <1>16, <1>17, <1>18, <1>19
  DEF Next, RetrieverStep, Environment

\* Every variable keeps its type (TypeOK), for every page size, limit and
\* configuration.
THEOREM TypeCorrect == Spec => []TypeOK
<1>1. Init => TypeOK
  <2> SUFFICES ASSUME Init PROVE TypeOK
    OBVIOUS
  <2>1. config \in ConfigType
    BY RetrieverAssumption DEF Init
  <2>2. config.visible \subseteq Vars /\ config.maxChanges \in Nat
    BY <2>1 DEF ConfigType
  <2>3. useV2 \in BOOLEAN /\ shrunk \in BOOLEAN /\ faulty \in BOOLEAN
    BY DEF Init
  <2>4. changes \in 0..config.maxChanges /\ offset \in Nat /\ length \in Nat
    BY <2>2 DEF Init
  <2>5. /\ visible \subseteq Vars /\ unreadable \subseteq visible /\ request \subseteq Names
        /\ paths \subseteq Names /\ got \subseteq Vars /\ steady \subseteq Vars /\ refused \subseteq Names
        /\ tokens \subseteq {"memory", "accessTokenData", "client"}
    BY <2>2 DEF Init
  <2> QED
    BY <2>3, <2>4, <2>5, Zenon DEF Init, TypeOK
<1> QED
  BY <1>1, TypeStep, PTL DEF Spec

-----------------------------------------------------------------------------
(***************************************************************************)
(* Access tokens.                                                          *)
(***************************************************************************)
\* Where a call may keep an access token: none before it has authenticated, the
\* authenticator's memory only until it is read, and then what Retrieve clears.
TokenInv ==
    /\ pc \in {"start", "failed", "idle", "connect", "authenticate"} => tokens = {}
    /\ pc = "read" => tokens \subseteq {"memory"}
    /\ pc \in {"client", "list", "batch", "return"} => tokens \subseteq Cleared

\* Every step of a call knows where its token is.
LEMMA TokenStep == TypeOK /\ TokenInv /\ [Next]_vars => TokenInv'
<1> SUFFICES ASSUME TypeOK, TokenInv, [Next]_vars PROVE TokenInv'
  OBVIOUS
<1> USE DEF TypeOK, TokenInv, Cleared, conjurVars, listVars, historyVars, AuthenticationUnchanged, Change
<1>1. CASE NewAuthenticator
  BY <1>1 DEF NewAuthenticator, AuthenticatorFor
<1>2. CASE Call
  BY <1>2 DEF Call
<1>3. CASE MakeAuthenticator
  BY <1>3 DEF MakeAuthenticator
<1>4. CASE Authenticate
  BY <1>4 DEF Authenticate
<1>5. CASE ReadToken
  BY <1>5 DEF ReadToken, MoveToken
<1>6. CASE NewConjurClient
  BY <1>6 DEF NewConjurClient
<1>7. CASE ListPage
  <2>1. pc' \in {"list", "return", "batch"} /\ pc = "list" /\ tokens' = tokens
    BY <1>7 DEF ListPage
  <2> QED
    BY <2>1
<1>8. CASE BatchV2
  BY <1>8 DEF BatchV2, Finish
<1>9. CASE FallBack
  BY <1>9 DEF FallBack
<1>10. CASE BatchV1
  BY <1>10 DEF BatchV1, Finish
<1>11. CASE Return
  BY <1>11 DEF Return, Cleared
<1>12. CASE AuthenticationFails
  BY <1>12 DEF AuthenticationFails
<1>13. CASE NewConjurClientFails
  BY <1>13 DEF NewConjurClientFails
<1>14. CASE RequestFails
  BY <1>14 DEF RequestFails, Finish
<1>15. ASSUME NEW v \in Vars, Add(v) PROVE TokenInv'
  BY <1>15 DEF Add, ConjurChange
<1>16. ASSUME NEW v \in Vars, Remove(v) PROVE TokenInv'
  BY <1>16 DEF Remove, ConjurChange
<1>17. ASSUME NEW v \in Vars, Revoke(v) PROVE TokenInv'
  BY <1>17 DEF Revoke, ConjurChange
<1>18. CASE Failed
  BY <1>18 DEF Failed, vars
<1>19. CASE UNCHANGED vars
  BY <1>19 DEF vars
<1> QED
  BY <1>1, <1>2, <1>3, <1>4, <1>5, <1>6, <1>7, <1>8, <1>9, <1>10,
     <1>11, <1>12, <1>13, <1>14, <1>15, <1>16, <1>17, <1>18, <1>19
  DEF Next, RetrieverStep, Environment

\* Between two calls no buffer holds an access token (TokenCleared), with every
\* authenticator and whichever step failed.
THEOREM TokenClearedHolds == Spec => []TokenCleared
<1>1. Init => TokenInv
  BY DEF Init, TokenInv
<1>2. TypeOK /\ TokenInv /\ [Next]_vars => TokenInv'
  BY TokenStep
<1>3. TokenInv => TokenCleared
  BY DEF TokenInv, TokenCleared
<1> QED
  BY <1>1, <1>2, <1>3, TypeCorrect, PTL DEF Spec

-----------------------------------------------------------------------------
(***************************************************************************)
(* Fetch-all.                                                              *)
(***************************************************************************)
\* After full pages only, the length of the list is the offset, a multiple of
\* PageSize below the limit. What was listed all the time and is ranked before the
\* offset has been fetched, unless a variable left the list.
ListInv ==
    /\ steady \subseteq visible
    /\ pc = "list" =>
          /\ request = All
          /\ length = offset /\ offset < MaxSecrets /\ \E k \in Nat : offset = k * PageSize
          /\ ~shrunk => \A v \in steady : RankIn(visible, v) < offset => v \in paths
    /\ ListComplete

\* A further page does not exceed the limit.
LEMMA PageBelowLimit ==
    ASSUME NEW k \in Nat, k * PageSize < MaxSecrets
    PROVE  k * PageSize + PageSize <= MaxSecrets
<1>1. PageSize \in Nat \ {0} /\ MaxSecrets \in Nat /\ MaxSecrets % PageSize = 0
  BY RetrieverAssumption
<1>2. PICK m \in Nat : MaxSecrets = m * PageSize
  BY <1>1
<1>3. k < m
  BY <1>1, <1>2
<1>4. k + 1 <= m
  BY <1>3
<1>5. (k + 1) * PageSize <= m * PageSize
  BY <1>1, <1>4
<1> QED
  BY <1>1, <1>2, <1>5

\* A page leaves behind it everything that comes before the next offset, and
\* the last page everything that is listed.
LEMMA PageCovers ==
    ASSUME TypeOK, ListInv, pc = "list", ~shrunk, NEW v \in steady, v \notin paths, v \notin Page
    PROVE  offset + PageSize <= RankIn(visible, v) /\ Cardinality(Page) >= PageSize
<1>1. v \in visible /\ visible \in SUBSET Nat /\ IsFiniteSet(visible)
  BY PageFacts DEF ListInv
<1>2. RankIn(visible, v) \in Nat /\ offset \in Nat /\ PageSize \in Nat
  BY <1>1, RankOrder, RetrieverAssumption DEF TypeOK
<1>3. ~(RankIn(visible, v) < offset)
  BY DEF ListInv
<1>4. offset + PageSize <= RankIn(visible, v)
  BY <1>1, <1>2, <1>3, PageFacts
<1> QED
  BY <1>1, <1>4, BehindFullPage

\* Every step keeps the list complete up to its offset.
LEMMA ListStep == TypeOK /\ ListInv /\ [Next]_vars => ListInv'
<1> SUFFICES ASSUME TypeOK, ListInv, [Next]_vars PROVE ListInv'
  OBVIOUS
<1> USE DEF ListInv, ListComplete, conjurVars, listVars, historyVars, AuthenticationUnchanged, Change
<1>1. CASE NewAuthenticator
  BY <1>1 DEF NewAuthenticator, AuthenticatorFor
<1>2. CASE Call
  BY <1>2 DEF Call
<1>3. CASE MakeAuthenticator
  BY <1>3 DEF MakeAuthenticator
<1>4. CASE Authenticate
  BY <1>4 DEF Authenticate
<1>5. CASE ReadToken
  BY <1>5 DEF ReadToken, MoveToken
<1>6. CASE NewConjurClient
  <2>1. steady' = visible /\ visible' = visible /\ request' = request /\ offset' = 0 /\ length' = 0
    BY <1>6 DEF NewConjurClient
  <2>2. pc' = IF request = All THEN "list" ELSE IF request = {} THEN "return" ELSE "batch"
    BY <1>6 DEF NewConjurClient
  <2>3. 0 < MaxSecrets /\ PageSize \in Nat
    BY RetrieverAssumption
  <2>4. \E k \in Nat : 0 = k * PageSize
    BY <2>3
  <2>5. \A v \in visible : ~(RankIn(visible, v) < 0)
    BY PageFacts, RankOrder
  <2> QED
    BY <2>1, <2>2, <2>3, <2>4, <2>5
<1>7. CASE ListPage
  <2>1. /\ pc = "list" /\ paths' = paths \cup Page /\ length' = length + Cardinality(Page)
        /\ offset' = offset + PageSize
        /\ UNCHANGED <<request, visible, steady, shrunk>>
    BY <1>7 DEF ListPage
  <2>2. pc' = IF ~LastPage(Page) /\ ~LimitReached(length') THEN "list"
              ELSE IF length' = 0 THEN "return" ELSE "batch"
    BY <1>7 DEF ListPage
  <2>3. /\ offset \in Nat /\ PageSize \in Nat /\ MaxSecrets \in Nat /\ Cardinality(Page) \in Nat
        /\ Cardinality(Page) <= PageSize
    BY PageFacts, PageAtMost, RetrieverAssumption DEF TypeOK
  <2>4. PICK k \in Nat : offset = k * PageSize
    BY <2>1
  <2>5. offset + PageSize <= MaxSecrets
    BY <2>1, <2>4, PageBelowLimit
  <2>6. CASE ~LastPage(Page) /\ ~LimitReached(length')
    <3>1. length' = offset' /\ offset' < MaxSecrets
      BY <2>1, <2>3, <2>6 DEF LastPage, LimitReached
    <3>2. offset' = (k + 1) * PageSize
      BY <2>1, <2>3, <2>4
    <3>3. ~shrunk => \A v \in steady : RankIn(visible, v) < offset + PageSize => v \in paths'
      <4> SUFFICES ASSUME ~shrunk, NEW v \in steady, RankIn(visible, v) < offset + PageSize
                   PROVE  v \in paths'
        OBVIOUS
      <4>1. RankIn(visible, v) \in Nat
        BY PageFacts, RankOrder
      <4> QED
        BY <2>1, <2>3, <4>1, PageCovers
    <3> QED
      BY <2>1, <2>2, <2>6, <3>1, <3>2, <3>3
  <2>7. CASE LastPage(Page) \/ LimitReached(length')
    <3>1. length' <= MaxSecrets
      BY <2>1, <2>3, <2>5
    <3>2. length' < MaxSecrets /\ ~shrunk => steady \subseteq paths'
      <4> SUFFICES ASSUME length' < MaxSecrets, ~shrunk, NEW v \in steady PROVE v \in paths'
        OBVIOUS
      <4>1. LastPage(Page)
        BY <2>1, <2>3, <2>7 DEF LimitReached, TypeOK
      <4>2. ~(Cardinality(Page) >= PageSize)
        BY <2>3, <4>1 DEF LastPage
      <4> QED
        BY <2>1, <4>2, PageCovers
    <3> QED
      BY <2>1, <2>2, <2>7, <3>1, <3>2
  <2> QED
    BY <2>6, <2>7
<1>8. CASE BatchV2
  BY <1>8 DEF BatchV2, Finish
<1>9. CASE FallBack
  BY <1>9 DEF FallBack
<1>10. CASE BatchV1
  BY <1>10 DEF BatchV1, Finish
<1>11. CASE Return
  BY <1>11 DEF Return, Cleared
<1>12. CASE AuthenticationFails
  BY <1>12 DEF AuthenticationFails
<1>13. CASE NewConjurClientFails
  BY <1>13 DEF NewConjurClientFails
<1>14. CASE RequestFails
  BY <1>14 DEF RequestFails, Finish, Finish
<1>15. ASSUME NEW v \in Vars, Add(v) PROVE ListInv'
  <2>1. visible' = visible \cup {v} /\ UNCHANGED <<pc, request, length, offset, paths, shrunk, steady>>
    BY <1>15 DEF Add, ConjurChange
  <2>2. visible' \in SUBSET Nat /\ IsFiniteSet(visible')
    <3>1. visible' \in SUBSET Vars
      BY <2>1 DEF TypeOK
    <3> QED
      BY <3>1, RetrieverAssumption, FS_Subset
  <2>3. \A w \in steady : RankIn(visible', w) < offset => RankIn(visible, w) < offset
    <3> TAKE w \in steady
    <3>1. w \in Nat /\ visible \in SUBSET visible' /\ visible \in SUBSET Nat /\ IsFiniteSet(visible)
      BY <2>1, PageFacts
    <3>2. RankIn(visible, w) \in Nat /\ RankIn(visible', w) \in Nat /\ offset \in Nat
      BY <2>2, <3>1, RankOrder DEF TypeOK
    <3>3. RankIn(visible, w) <= RankIn(visible', w)
      BY <2>2, <3>1, RankGrows
    <3> QED
      BY <3>2, <3>3
  <2> QED
    BY <2>1, <2>3
<1>16. ASSUME NEW v \in Vars, Remove(v) PROVE ListInv'
  BY <1>16 DEF Remove, ConjurChange
<1>17. ASSUME NEW v \in Vars, Revoke(v) PROVE ListInv'
  BY <1>17 DEF Revoke, ConjurChange
<1>18. CASE Failed
  BY <1>18 DEF Failed, vars
<1>19. CASE UNCHANGED vars
  BY <1>19 DEF vars
<1> QED
  BY <1>1, <1>2, <1>3, <1>4, <1>5, <1>6, <1>7, <1>8, <1>9, <1>10,
     <1>11, <1>12, <1>13, <1>14, <1>15, <1>16, <1>17, <1>18, <1>19
  DEF Next, RetrieverStep, Environment

\* A call for all variables asks for at most fetchAllMaxSecrets, and below that for
\* every variable that was listed all the time, unless one left the list meanwhile
\* (ListComplete), for every number of pages.
THEOREM ListCompleteHolds == Spec => []ListComplete
<1>1. Init => ListInv
  BY DEF Init, ListInv, ListComplete
<1>2. TypeOK /\ ListInv /\ [Next]_vars => ListInv'
  BY ListStep
<1>3. ListInv => ListComplete
  BY DEF ListInv
<1> QED
  BY <1>1, <1>2, <1>3, TypeCorrect, PTL DEF Spec

-----------------------------------------------------------------------------
(***************************************************************************)
(* The answer.                                                             *)
(***************************************************************************)
\* A list without length is empty, and only a server without the V2 API, or a
\* fault, makes a call use the V1 API.
AnswerInv ==
    /\ pc = "list" /\ length = 0 => paths = {}
    /\ pc \in {"list", "batch"} /\ ~useV2 /\ ~faulty => ~config.v2
    /\ AnswersAsPromised

\* If no name is taken for a full id, the batch is what was asked for.
LEMMA BatchIsPaths ==
    ASSUME TypeOK, \A v \in paths : Normalised(v) = v
    PROVE  batch = paths
  BY DEF batch

\* Every step of a call keeps to what BatchRetrieval says.
LEMMA AnswerStep == TypeOK /\ AnswerInv /\ [Next]_vars => AnswerInv'
<1> SUFFICES ASSUME TypeOK, AnswerInv, [Next]_vars PROVE AnswerInv'
  OBVIOUS
<1> USE DEF TypeOK, AnswerInv, AnswersAsPromised, Normalised, conjurVars, listVars, historyVars, AuthenticationUnchanged, Change
<1>1. CASE NewAuthenticator
  BY <1>1 DEF NewAuthenticator, AuthenticatorFor
<1>2. CASE Call
  BY <1>2 DEF Call
<1>3. CASE MakeAuthenticator
  BY <1>3 DEF MakeAuthenticator
<1>4. CASE Authenticate
  BY <1>4 DEF Authenticate
<1>5. CASE ReadToken
  BY <1>5 DEF ReadToken, MoveToken
<1>6. CASE NewConjurClient
  BY <1>6 DEF NewConjurClient
<1>7. CASE ListPage
  <2>1. /\ pc = "list" /\ paths' = paths \cup Page /\ length' = length + Cardinality(Page)
        /\ UNCHANGED <<config, faulty, useV2>>
    BY <1>7 DEF ListPage
  <2>2. pc' \in {"list", "return", "batch"} /\ (pc' = "return" => length' = 0)
    BY <1>7 DEF ListPage
  <2>3. length' = 0 => length = 0 /\ Cardinality(Page) = 0
    BY <2>1, PageFacts
  <2>4. Cardinality(Page) = 0 => Page = {}
    BY PageFacts, FS_EmptySet
  <2>5. length' = 0 => paths' = {}
    BY <2>1, <2>3, <2>4
  <2> QED
    BY <2>1, <2>2, <2>5
<1>8. CASE BatchV2
  <2> SUFFICES ASSUME ~faulty, paths # {}, \A v \in paths : Normalised(v) = v
               PROVE  /\ got' = Returned(paths, refused', config.v2)
                      /\ ret' = IF got' # {} THEN "ok"
                                ELSE IF StatusError(paths, refused', config.v2) THEN "status" ELSE "error"
    BY <1>8 DEF BatchV2, Finish
  <2>1. batch = paths
    BY BatchIsPaths
  <2>2. refused' = Names \ Readable /\ got' = paths \cap Readable /\ config.v2
    BY <1>8, <2>1 DEF BatchV2, Finish, Successes
  <2>3. got' = Returned(paths, refused', config.v2)
    BY <2>2 DEF Returned
  <2>4. ret' = IF got' = {} THEN "error" ELSE "ok"
    BY <1>8, <2>1 DEF BatchV2, Finish
  <2> QED
    BY <2>2, <2>3, <2>4 DEF StatusError
<1>9. CASE FallBack
  BY <1>9 DEF FallBack
<1>10. CASE BatchV1
  <2> SUFFICES ASSUME ~faulty, paths # {}, \A v \in paths : Normalised(v) = v
               PROVE  /\ got' = Returned(paths, refused', config.v2)
                      /\ ret' = IF got' # {} THEN "ok"
                                ELSE IF StatusError(paths, refused', config.v2) THEN "status" ELSE "error"
    BY <1>10 DEF BatchV1, Finish
  <2>1. batch = paths
    BY BatchIsPaths
  <2>2. refused' = Names \ Readable /\ ~config.v2
    BY <1>10 DEF BatchV1, Finish
  <2>3. paths \subseteq Readable <=> paths \cap refused' = {}
    BY <2>2
  <2>4. CASE paths \subseteq Readable
    BY <1>10, <2>1, <2>2, <2>3, <2>4 DEF BatchV1, Finish, Returned
  <2>5. CASE ~(paths \subseteq Readable)
    BY <1>10, <2>1, <2>2, <2>3, <2>5 DEF BatchV1, Finish, Returned, StatusError
  <2> QED
    BY <2>4, <2>5
<1>11. CASE Return
  BY <1>11 DEF Return, Cleared
<1>12. CASE AuthenticationFails
  BY <1>12 DEF AuthenticationFails
<1>13. CASE NewConjurClientFails
  BY <1>13 DEF NewConjurClientFails
<1>14. CASE RequestFails
  BY <1>14 DEF RequestFails, Finish
<1>15. ASSUME NEW v \in Vars, Add(v) PROVE AnswerInv'
  BY <1>15 DEF Add, ConjurChange
<1>16. ASSUME NEW v \in Vars, Remove(v) PROVE AnswerInv'
  BY <1>16 DEF Remove, ConjurChange
<1>17. ASSUME NEW v \in Vars, Revoke(v) PROVE AnswerInv'
  BY <1>17 DEF Revoke, ConjurChange
<1>18. CASE Failed
  BY <1>18 DEF Failed, vars
<1>19. CASE UNCHANGED vars
  BY <1>19 DEF vars
<1> QED
  BY <1>1, <1>2, <1>3, <1>4, <1>5, <1>6, <1>7, <1>8, <1>9, <1>10,
     <1>11, <1>12, <1>13, <1>14, <1>15, <1>16, <1>17, <1>18, <1>19
  DEF Next, RetrieverStep, Environment

\* A call that met no fault returns what BatchRetrieval promises to the providers
\* (AnswersAsPromised), whatever changes in Conjur meanwhile.
THEOREM AnswersAsPromisedHolds == Spec => []AnswersAsPromised
<1>1. Init => AnswerInv
  BY DEF Init, AnswerInv, AnswersAsPromised
<1>2. TypeOK /\ AnswerInv /\ [Next]_vars => AnswerInv'
  BY AnswerStep
<1>3. AnswerInv => AnswersAsPromised
  BY DEF AnswerInv
<1> QED
  BY <1>1, <1>2, <1>3, TypeCorrect, PTL DEF Spec
====
