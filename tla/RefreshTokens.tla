---------------------------- MODULE RefreshTokens ----------------------------
(***************************************************************************)
(* The refresh_tokens rows of one user and what RefreshTokenService does   *)
(* to them.  A row stands for the token that carries its jti.  Rows are    *)
(* numbered in the order they are committed; the rows 1 .. issued exist.   *)
(* Sessions extends this module and says who calls the service, and when.  *)
(***************************************************************************)
EXTENDS Naturals

CONSTANT MaxTokens       \* bound: rows that may be inserted

ASSUME TokensAssumption == MaxTokens \in Nat

VARIABLES
  issued,       \* rows inserted so far
  revoked,      \* revoked_at is set
  replacedBy,   \* the successor a rotation has recorded
  expired       \* expires_at has passed

storeVars == <<issued, revoked, replacedBy, expired>>

Token   == 1 .. MaxTokens
NoToken == 0
Rows    == 1 .. issued

StoreTypeOK ==
  /\ issued     \in 0 .. MaxTokens
  /\ revoked    \in [Token -> BOOLEAN]
  /\ replacedBy \in [Token -> Token \union {NoToken}]
  /\ expired    \in [Token -> BOOLEAN]

StoreInit ==
  /\ issued     = 0
  /\ revoked    = [t \in Token |-> FALSE]
  /\ replacedBy = [t \in Token |-> NoToken]
  /\ expired    = [t \in Token |-> FALSE]

Valid(t) == ~ revoked[t] /\ ~ expired[t]

\* Mistake: a request without the cookie passes.
VerifiesMissing(t) == t \in Rows => Valid(t)

\* verify(): anything but a valid row is null.
Verifies(t) == t \in Rows /\ Valid(t)

\* What rotate() makes of the row it has read.
Reused(t)     == replacedBy[t] # NoToken
Refuses(t)    == Reused(t) \/ ~ Valid(t)

Insert == issued < MaxTokens /\ issued' = issued + 1

Issue == Insert /\ UNCHANGED <<revoked, replacedBy, expired>>

\* Mistake: only the pointer is written.
RotateUnrevoked(t) ==
  /\ Insert
  /\ replacedBy' = [replacedBy EXCEPT ![t] = issued + 1]
  /\ UNCHANGED <<revoked, expired>>

(***************************************************************************)
(* The writes of rotate(), committed together.  They are made under the    *)
(* row's id alone: whatever became of the row since it was read, it is     *)
(* revoked and points to this successor.                                   *)
(***************************************************************************)
Rotate(t) ==
  /\ Insert
  /\ revoked'    = [revoked    EXCEPT ![t] = TRUE]
  /\ replacedBy' = [replacedBy EXCEPT ![t] = issued + 1]
  /\ UNCHANGED expired

(***************************************************************************)
(* rotate() refuses by throwing.  For a reused token it first revokes all  *)
(* of the user's rows and audits that, in the transaction which the        *)
(* exception then rolls back.                                              *)
(***************************************************************************)
Refuse(t) == Refuses(t) /\ UNCHANGED storeVars

Revoke(t) ==
  /\ revoked' = [revoked EXCEPT ![t] = TRUE]
  /\ UNCHANGED <<issued, replacedBy, expired>>

Expire(t) ==
  /\ t \in Rows /\ ~ expired[t]
  /\ expired' = [expired EXCEPT ![t] = TRUE]
  /\ UNCHANGED <<issued, revoked, replacedBy>>

(***************************************************************************)
(* Following replaced_by from any row leads to newer rows and over revoked *)
(* ones only, whichever rotations of one token have overwritten each       *)
(* other's pointer; and nothing is known of a row before it is inserted.   *)
(***************************************************************************)
ChainsEnd ==
  \A t \in Token :
    /\ Reused(t) => revoked[t] /\ replacedBy[t] \in t + 1 .. issued
    /\ t \notin Rows => Valid(t) /\ ~ Reused(t)
=============================================================================
