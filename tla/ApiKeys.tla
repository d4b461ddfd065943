------------------------------ MODULE ApiKeys -------------------------------
(***************************************************************************)
(* API keys: issue, use, expiry and revocation (services/api_key.py,       *)
(* routes/api_keys.py).  A request first authenticates with a key, which   *)
(* marks the time in the key's row but does not commit, and then lists,    *)
(* makes or revokes keys of the same user.  What is marked is written with *)
(* the request's own commit, if it has one.                                *)
(***************************************************************************)
EXTENDS Common, Naturals

\* MaxTime bounds the clock; Never is no time.
CONSTANTS Keys, Never, MaxTime

Times == 0..MaxTime

Key == [user : Users, expires : Times \cup {Never}, used : Times \cup {Never}]

\* None is neither a row nor a request.
ASSUME ApiKeysAssumption ==
    /\ None \notin Key
    /\ None \notin [by : Keys, user : Users, at : Times]
    /\ MaxTime \in Nat

VARIABLES
    key,        \* the api_keys table
    keyRequest, \* per request: the key it has authenticated with, and when
    now

keysVars == <<key, keyRequest, now>>

KeysTypeOK ==
    /\ key \in [Keys -> Key \cup {None}]
    /\ keyRequest \in [Requests -> [by : Keys, user : Users, at : Times] \cup {None}]
    /\ now \in Times

\* No handler makes a user's first key.
KeysInit ==
    /\ key \in [Keys -> {None} \cup [user : Users, expires : {Never}, used : {Never}]]
    /\ keyRequest = [q \in Requests |-> None]
    /\ now = 0

\* Bound: MaxTime
Tick ==
    /\ now < MaxTime
    /\ now' = now + 1
    /\ UNCHANGED <<key, keyRequest>>

\* A key is good until the moment at which it expires, that moment included.
Valid(k) == key[k] # None /\ (key[k].expires # Never => key[k].expires >= now)

\* get_current_user_from_api_key; the user, active or not, is not looked up.
Authenticate(q, k) ==
    /\ keyRequest[q] = None
    /\ Valid(k)
    /\ keyRequest' = [keyRequest EXCEPT ![q] = [by |-> k, user |-> key[k].user, at |-> now]]
    /\ UNCHANGED <<key, now>>

\* Primary keys are new: not one that a request still refers to.
Fresh(k) == key[k] = None /\ \A q \in Requests : keyRequest[q] # None => keyRequest[q].by # k

Finish(q) == keyRequest' = [keyRequest EXCEPT ![q] = None]

\* The UPDATE that marks the key; none if the key is gone, then the
\* transaction fails.
Marked(q) == [key EXCEPT ![keyRequest[q].by].used = keyRequest[q].at]

\* list_keys has no commit: the mark is rolled back.
ListKeys(q) ==
    /\ keyRequest[q] # None
    /\ Finish(q)
    /\ UNCHANGED <<key, now>>

\* Mutant: the mark is not written together with the new key.
CreateKey_Unmarked(q, k, days) ==
    /\ keyRequest[q] # None
    /\ Fresh(k)
    /\ key' = [key EXCEPT ![k] = [user |-> keyRequest[q].user, used |-> Never,
                   expires |-> IF days = 0 THEN Never ELSE now + days]]
    /\ Finish(q)
    /\ UNCHANGED now

\* create_key; no days, or none given, and it never expires.
CreateKey(q, k, days) ==
    /\ keyRequest[q] # None
    /\ Fresh(k)
    /\ now + days <= MaxTime
    /\ key' = IF key[keyRequest[q].by] = None THEN key
              ELSE [Marked(q) EXCEPT ![k] =
                       [user |-> keyRequest[q].user, used |-> Never,
                        expires |-> IF days = 0 THEN Never ELSE now + days]]
    /\ Finish(q)
    /\ UNCHANGED now

\* delete_key, of a key of the same user; without one there is no commit.
RevokeKey(q, k) ==
    /\ keyRequest[q] # None
    /\ key' = IF key[keyRequest[q].by] = None \/ key[k] = None \/ key[k].user # keyRequest[q].user
              THEN key ELSE [Marked(q) EXCEPT ![k] = None]
    /\ Finish(q)
    /\ UNCHANGED now

\* The process ends, and with it the requests.
Stop ==
    /\ keyRequest' = [q \in Requests |-> None]
    /\ UNCHANGED <<key, now>>

KeysNext ==
    \/ Tick
    \/ Stop
    \/ \E q \in Requests :
          \/ \E k \in Keys :
                \/ Authenticate(q, k)
                \/ \E days \in Times : CreateKey(q, k, days)
                \/ RevokeKey(q, k)
          \/ ListKeys(q)

KeysSpec == KeysInit /\ [][KeysNext]_keysVars

-----------------------------------------------------------------------------
\* A key that has been revoked has no effect any more, not even through a
\* request that had authenticated with it before: every change of the table is
\* made with a key that is still there, for its own user.
RevokedKeyIsDead ==
    [][key' # key =>
          \E q \in Requests :
              /\ keyRequest[q] # None /\ keyRequest'[q] = None
              /\ key[keyRequest[q].by] # None
              /\ \A k \in Keys : key'[k] # key[k] =>
                    keyRequest[q].user \in {r.user : r \in {key[k], key'[k]} \ {None}}]_keysVars
=============================================================================
