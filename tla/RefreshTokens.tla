--------------------------- MODULE RefreshTokens ---------------------------
(***************************************************************************)
(* The refresh tokens of one user: creation with a limit on the active     *)
(* ones, rotation within a family, revocation, and the revocation of a     *)
(* family when a spent token comes back.  A request interleaves with the   *)
(* others at every await, that is between any two calls to the database    *)
(* and to the blacklist in the cache.                                      *)
(***************************************************************************)
EXTENDS Integers, FiniteSets

CONSTANTS
  Requests,                     \* requests in progress at once
  MAX_ACTIVE_TOKENS_PER_USER,
  MaxTokens,                    \* bound: tokens ever created
  MaxErrors                     \* bound: database errors that end a request

ASSUME LimitAssumption == MAX_ACTIVE_TOKENS_PER_USER \in Nat \ {0}
ASSUME RequestAssumption == IsFiniteSet(Requests)
ASSUME TokenAssumption == MaxTokens \in Nat /\ MaxErrors \in Nat

Tokens == 1..MaxTokens

VARIABLES
  row,           \* RefreshToken rows; ids follow lastUsedAt
  family,        \* familyId of each token
  blacklist,     \* tokens in the blacklist: rotated or logged out
  badFamilies,   \* families in the blacklist
  userRevoked,   \* the key of blacklistAllUserTokens
  request,       \* what each request is doing
  spent,         \* tokens a finished rotation or logout has used up
  tokenErrors    \* database errors met

tokenVars == <<row, family, blacklist, badFamilies, userRevoked, request, spent, tokenErrors>>

Ready == [at |-> "ready", token |-> 0, wasActive |-> FALSE, late |-> FALSE,
          count |-> 0, victims |-> {}]

Active == {i \in Tokens : row[i] = "active"}
Issued == {i \in Tokens : row[i] # "none"}

Steps == {"ready", "blacklistCheck", "familyRevoke", "siblings", "deactivateSiblings",
          "userCheck", "spend", "deactivateOld", "count", "oldest", "evict", "insert",
          "logoutRow", "revokeRows"}

TokensTypeOK ==
  /\ row \in [Tokens -> {"none", "active", "inactive"}]
  /\ family \in [Tokens -> 0..MaxTokens]
  /\ blacklist \subseteq Issued /\ badFamilies \subseteq Tokens /\ spent \subseteq Issued
  /\ userRevoked \in BOOLEAN /\ tokenErrors \in 0..MaxErrors
  /\ \A r \in Requests : /\ request[r].at \in Steps /\ request[r].token \in 0..MaxTokens
                         /\ request[r].victims \subseteq Issued

TokensInit ==
  /\ row = [i \in Tokens |-> "none"]
  /\ family = [i \in Tokens |-> 0]
  /\ blacklist = {} /\ badFamilies = {} /\ userRevoked = FALSE /\ tokenErrors = 0
  /\ request = [r \in Requests |-> Ready]
  /\ spent = {}

Goto(r, step) == request' = [request EXCEPT ![r].at = step]
End(r) == request' = [request EXCEPT ![r] = Ready]
Old(r) == request[r].token

\* A token that must not work any more: spent, logged out, of a revoked family,
\* or revoked with all the others.
Dead(i) == i \in spent \/ family[i] \in badFamilies \/ userRevoked

-----------------------------------------------------------------------------
(* createRefreshToken: count, evict the oldest, insert. *)

Login(r) ==
  /\ request[r].at = "ready"
  /\ Goto(r, "count")
  /\ UNCHANGED <<row, family, blacklist, badFamilies, userRevoked, spent, tokenErrors>>

CountActive(r) ==
  /\ request[r].at = "count"
  /\ request' = [request EXCEPT ![r].count = Cardinality(Active),
       ![r].at = IF Cardinality(Active) >= MAX_ACTIVE_TOKENS_PER_USER THEN "oldest" ELSE "insert"]
  /\ UNCHANGED <<row, family, blacklist, badFamilies, userRevoked, spent, tokenErrors>>

TooMany(count) == count - MAX_ACTIVE_TOKENS_PER_USER + 1
TooManyShort(count) == count - MAX_ACTIVE_TOKENS_PER_USER
Surplus(count) == TooMany(count)

Oldest(n) == {i \in Active : Cardinality({j \in Active : j < i}) < n}

FindOldest(r) ==
  /\ request[r].at = "oldest"
  /\ request' = [request EXCEPT ![r].at = "evict", ![r].victims = Oldest(Surplus(request[r].count))]
  /\ UNCHANGED <<row, family, blacklist, badFamilies, userRevoked, spent, tokenErrors>>

DeactivateAll(ids) == row' = [i \in Tokens |-> IF i \in ids THEN "inactive" ELSE row[i]]

EvictOldest(r) ==
  /\ request[r].at = "evict"
  /\ DeactivateAll(request[r].victims)
  /\ request' = [request EXCEPT ![r].at = "insert", ![r].victims = {}]
  /\ UNCHANGED <<family, blacklist, badFamilies, userRevoked, spent, tokenErrors>>

NewToken == 1 + Cardinality(Issued)

InsertToken(r) ==
  /\ request[r].at = "insert" /\ NewToken \in Tokens
  /\ row' = [row EXCEPT ![NewToken] = "active"]
  /\ family' = [family EXCEPT ![NewToken] = IF Old(r) = 0 THEN NewToken ELSE family[Old(r)]]
  /\ spent' = IF Old(r) = 0 THEN spent ELSE spent \cup {Old(r)}
  /\ End(r)
  /\ UNCHANGED <<blacklist, badFamilies, userRevoked, tokenErrors>>

-----------------------------------------------------------------------------
(* rotateRefreshToken. *)

\* The row is read once, before the checks that use it.
FindRow(r, i) ==
  /\ request[r].at = "ready" /\ i \in Issued
  /\ request' = [request EXCEPT ![r] =
       [Ready EXCEPT !.at = "blacklistCheck", !.token = i, !.late = Dead(i),
                     !.wasActive = row[i] = "active"]]
  /\ UNCHANGED <<row, family, blacklist, badFamilies, userRevoked, spent, tokenErrors>>

IsTokenBlacklisted(i) == i \in blacklist \/ family[i] \in badFamilies \/ userRevoked
IsOnlyTokenBlacklisted(i) == i \in blacklist \/ userRevoked
Blacklisted(i) == IsTokenBlacklisted(i)

\* An inactive row, or a blacklisted token whose entry says "rotation", is reuse.
CheckBlacklist(r) ==
  /\ request[r].at = "blacklistCheck"
  /\ \/ ~request[r].wasActive /\ Goto(r, "familyRevoke")
     \/ request[r].wasActive /\ Old(r) \in blacklist
        /\ \E rotated \in BOOLEAN : IF rotated THEN Goto(r, "familyRevoke") ELSE End(r)
     \/ request[r].wasActive /\ Old(r) \notin blacklist /\ Blacklisted(Old(r)) /\ End(r)
     \/ request[r].wasActive /\ ~Blacklisted(Old(r)) /\ Old(r) \notin blacklist
        /\ Goto(r, "userCheck")
  /\ UNCHANGED <<row, family, blacklist, badFamilies, userRevoked, spent, tokenErrors>>

\* handleTokenFamilyCompromise
RevokeTokenFamily(r) ==
  /\ request[r].at = "familyRevoke"
  /\ badFamilies' = badFamilies \cup {family[Old(r)]}
  /\ Goto(r, "siblings")
  /\ UNCHANGED <<row, family, blacklist, userRevoked, spent, tokenErrors>>

FindSiblings(r) ==
  /\ request[r].at = "siblings"
  /\ request' = [request EXCEPT ![r].at = "deactivateSiblings",
                   ![r].victims = {i \in Active : family[i] = family[Old(r)]}]
  /\ UNCHANGED <<row, family, blacklist, badFamilies, userRevoked, spent, tokenErrors>>

DeactivateSiblings(r) ==
  /\ request[r].at = "deactivateSiblings"
  /\ DeactivateAll(request[r].victims)
  /\ End(r)
  /\ UNCHANGED <<family, blacklist, badFamilies, userRevoked, spent, tokenErrors>>

AreAllUserTokensBlacklisted(r) ==
  /\ request[r].at = "userCheck"
  /\ IF userRevoked THEN End(r) ELSE Goto(r, "spend")
  /\ UNCHANGED <<row, family, blacklist, badFamilies, userRevoked, spent, tokenErrors>>

SpendToken(r) ==
  /\ request[r].at = "spend"
  /\ blacklist' = blacklist \cup {Old(r)}
  /\ Goto(r, "deactivateOld")
  /\ UNCHANGED <<row, family, badFamilies, userRevoked, spent, tokenErrors>>

DeactivateOld(r) ==
  /\ request[r].at = "deactivateOld"
  /\ DeactivateAll({Old(r)})
  /\ Goto(r, "count")
  /\ UNCHANGED <<family, blacklist, badFamilies, userRevoked, spent, tokenErrors>>

-----------------------------------------------------------------------------
(* revokeRefreshToken and revokeAllUserTokens: blacklist first, rows second. *)

Logout(r, i) ==
  /\ request[r].at = "ready" /\ i \in Issued
  /\ blacklist' = blacklist \cup {i}
  /\ request' = [request EXCEPT ![r].at = "logoutRow", ![r].token = i]
  /\ UNCHANGED <<row, family, badFamilies, userRevoked, spent, tokenErrors>>

LogoutRow(r) ==
  /\ request[r].at = "logoutRow"
  /\ DeactivateAll({Old(r)})
  /\ spent' = spent \cup {Old(r)}
  /\ End(r)
  /\ UNCHANGED <<family, blacklist, badFamilies, userRevoked, tokenErrors>>

RevokeAllUserTokens(r) ==
  /\ request[r].at = "ready" /\ ~userRevoked
  /\ userRevoked' = TRUE
  /\ Goto(r, "revokeRows")
  /\ UNCHANGED <<row, family, blacklist, badFamilies, spent, tokenErrors>>

RevokeRows(r) ==
  /\ request[r].at = "revokeRows"
  /\ DeactivateAll(Active)
  /\ End(r)
  /\ UNCHANGED <<family, blacklist, badFamilies, userRevoked, spent, tokenErrors>>

TokenStep(r) ==
  \/ CountActive(r)
  \/ FindOldest(r)
  \/ EvictOldest(r)
  \/ InsertToken(r)
  \/ CheckBlacklist(r)
  \/ RevokeTokenFamily(r)
  \/ FindSiblings(r)
  \/ DeactivateSiblings(r)
  \/ AreAllUserTokensBlacklisted(r)
  \/ SpendToken(r)
  \/ DeactivateOld(r)
  \/ LogoutRow(r)
  \/ RevokeRows(r)

\* A database error ends the request where it stands: earlier steps stay done.
DatabaseFails(r) ==
  /\ request[r].at # "ready" /\ tokenErrors < MaxErrors
  /\ tokenErrors' = tokenErrors + 1
  /\ End(r)
  /\ UNCHANGED <<row, family, blacklist, badFamilies, userRevoked, spent>>

TokensNext ==
  \E r \in Requests :
    \/ Login(r)
    \/ DatabaseFails(r)
    \/ RevokeAllUserTokens(r)
    \/ \E i \in Tokens : FindRow(r, i) \/ Logout(r, i)
    \/ TokenStep(r)

TokensSpec == TokensInit /\ [][TokensNext]_tokenVars

-----------------------------------------------------------------------------
(* Properties. *)

(* A request that presents a token after its rotation or logout has finished, *)
(* after its family was revoked, or after all tokens were, never gets as far  *)
(* as a new token, however it interleaves with the other requests.            *)
DeadTokenMintsNothing ==
  \A r \in Requests :
    request[r].late =>
      request[r].at \notin {"userCheck", "spend", "deactivateOld", "count", "oldest",
                            "evict", "insert"}

(* The limit on active tokens is overrun by at most one token per other       *)
(* request in progress: requests that counted before each other's insert.     *)
ActiveTokensBounded ==
  Cardinality(Active) <= MAX_ACTIVE_TOKENS_PER_USER + Cardinality(Requests) - 1
=============================================================================
