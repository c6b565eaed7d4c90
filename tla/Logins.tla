-------------------------------- MODULE Logins --------------------------------
(***************************************************************************)
(* OAuth logins on the SQLite store of src/src/auth.c: the handlers of     *)
(* POST /auth/google and /auth/facebook upsert the user's row, take its id *)
(* from sqlite3_last_insert_rowid, store a session for that id and write   *)
(* an audit row.  All threads share one connection, opened FULLMUTEX: each *)
(* statement is atomic, sequences of them are not, and the last insert     *)
(* rowid is that of the last INSERT of any thread into any table.          *)
(*                                                                         *)
(* A login is answered with an access token, signed with the process's     *)
(* secret, which later requests show in a header or a cookie               *)
(* (fp_auth_validate_access, fp_authenticate_request).                     *)
(***************************************************************************)
EXTENDS Integers, Sequences, FiniteSets, Functions

CONSTANTS
    Logins,         (* login requests *)
    IdentityOf,     (* the provider and provider_user_id of each *)
    Lengths,        (* of the identities' tokens, which have their email and name in them *)
    TokenRoom,      (* the longest token that can be issued: 511 *)
    Rooms,          (* the longest read of a "header", 248, or a "cookie", 501 *)
    Lifetime,       (* access_ttl_seconds *)
    LastTick,       (* bound: the clock stops there *)
    MaxInserts,     (* bound: rows other requests insert *)
    MaxRestarts,    (* bound: restarts of the server *)
    MaxConcurrent   (* bound: logins served at once *)

ASSUME LoginAssumption ==
    /\ MaxInserts \in Nat /\ MaxRestarts \in Nat /\ MaxConcurrent \in Nat
    /\ TokenRoom \in Nat /\ Lifetime \in Nat /\ LastTick \in Nat
    /\ Lengths \subseteq [{IdentityOf[l] : l \in Logins} -> Nat]
    /\ \A how \in DOMAIN Rooms : Rooms[how] \in Nat

VARIABLES
    users,       (* the identity in each row of the users table, by id *)
    rows,        (* ids given out so far in the other tables *)
    lastId,      (* the connection's last insert rowid; 0 when just opened *)
    pc,          (* where each login is *)
    uid,         (* the user id a login has *)
    lengthOf,    (* the length of the token of each identity *)
    token,       (* the access token of each login *)
    now,         (* the clock *)
    secret,      (* the process's jwt_secret *)
    configured,  (* whether it comes from FP_JWT_SECRET *)
    restarts,
    undisturbed, (* history: logins whose lastId is right until someone inserts *)
    issued       (* history: the time and the restarts when a token was issued *)

process == <<lengthOf, now, secret, configured, restarts>>
vars == <<users, rows, lastId, pc, uid, token, process, undisturbed, issued>>

Tables == {"sessions", "audit", "api_keys"}
Identities == {IdentityOf[l] : l \in Logins}
Ids == 1 .. Len(users)

NoToken == [sub |-> 0, exp |-> 0, key |-> 0, length |-> 0]

Init ==
    /\ users = <<>>
    /\ rows = [t \in Tables |-> 0]
    /\ lastId = 0
    /\ pc = [l \in Logins |-> "new"]
    /\ uid = [l \in Logins |-> 0]
    /\ lengthOf \in Lengths
    /\ token = [l \in Logins |-> NoToken]
    /\ now = 0 /\ secret = 1 /\ configured \in BOOLEAN
    /\ restarts = 0
    /\ undisturbed = {}
    /\ issued = [l \in Logins |-> [at |-> 0, run |-> 0]]

Goto(l, from, to) ==
    /\ pc[l] = from
    /\ pc' = [pc EXCEPT ![l] = to]

(* The row of the identity that logs in. *)
OwnRow(l) == CHOOSE i \in Ids : users[i] = IdentityOf[l]

InFlight == {l \in Logins : pc[l] \in {"upserted", "known", "session"}}

(* An INSERT into one of the other tables; AUTOINCREMENT counts on. *)
Insert(t) ==
    /\ rows' = [rows EXCEPT ![t] = @ + 1]
    /\ lastId' = rows[t] + 1
    /\ undisturbed' = {l \in undisturbed : pc[l] # "upserted"}
-----------------------------------------------------------------------------
(* Plausible mistakes, never part of Next: the properties must catch them. *)

(* The session's user is not looked at: foreign keys are off by default.   *)
StoreRefreshUnchecked(l) ==
    /\ Goto(l, "known", "session")
    /\ Insert("sessions")
    /\ UNCHANGED <<users, uid, token, process, issued>>

(* A token is good for ever. *)
ValidForEver(t) == IF t.key = secret /\ t.sub > 0 THEN t.sub ELSE 0

(* The rowid used without a look at whether there is one. *)
TakeRowidBlindly(l) ==
    /\ Goto(l, "upserted", "known")
    /\ uid' = [uid EXCEPT ![l] = lastId]
    /\ UNCHANGED <<users, rows, lastId, token, process, undisturbed, issued>>

(* A new row for each login. *)
InsertAlways(l) ==
    /\ Cardinality(InFlight) < MaxConcurrent
    /\ Goto(l, "new", "upserted")
    /\ users' = Append(users, IdentityOf[l])
    /\ lastId' = Len(users) + 1
    /\ undisturbed' = {k \in undisturbed : pc[k] # "upserted"} \cup {l}
    /\ UNCHANGED <<rows, uid, token, process, issued>>
-----------------------------------------------------------------------------
(* fp_auth_upsert_user: INSERT ... ON CONFLICT DO UPDATE; an update leaves *)
(* the last insert rowid as it was.                                        *)
Upsert(l) ==
    /\ Cardinality(InFlight) < MaxConcurrent
    /\ Goto(l, "new", "upserted")
    /\ IF \E i \in Ids : users[i] = IdentityOf[l]
       THEN /\ undisturbed' = IF lastId = 0 THEN undisturbed \cup {l} ELSE undisturbed
            /\ UNCHANGED <<users, lastId>>
       ELSE /\ users' = Append(users, IdentityOf[l])
            /\ lastId' = Len(users) + 1
            /\ undisturbed' = {k \in undisturbed : pc[k] # "upserted"} \cup {l}
    /\ UNCHANGED <<rows, uid, token, process, issued>>

(* The rowid, or a lookup when the connection has not inserted yet. *)
TakeRowid(l) ==
    /\ Goto(l, "upserted", "known")
    /\ uid' = [uid EXCEPT ![l] = IF lastId = 0 THEN OwnRow(l) ELSE lastId]
    /\ UNCHANGED <<users, rows, lastId, token, process, undisturbed, issued>>

(* fp_auth_build_access_token: the row's email and name go into it. *)
AccessToken(l) ==
    [sub |-> uid[l], exp |-> now + Lifetime, key |-> secret,
     length |-> lengthOf[IF uid[l] \in Ids THEN users[uid[l]] ELSE IdentityOf[l]]]

(* fp_auth_issue_tokens: the access token names uid; the session row needs *)
(* a user with that id (foreign_keys=ON).                                  *)
StoreRefresh(l) ==
    /\ AccessToken(l).length <= TokenRoom
    /\ uid[l] \in Ids
    /\ Goto(l, "known", "session")
    /\ Insert("sessions")
    /\ token' = [token EXCEPT ![l] = AccessToken(l)]
    /\ issued' = [issued EXCEPT ![l] = [at |-> now, run |-> restarts]]
    /\ UNCHANGED <<users, uid, process>>

(* 500 "Unable to issue tokens" *)
StoreRefreshFails(l) ==
    /\ AccessToken(l).length > TokenRoom \/ uid[l] \notin Ids
    /\ Goto(l, "known", "failed")
    /\ UNCHANGED <<users, rows, lastId, uid, token, process, undisturbed, issued>>

(* fp_auth_record_audit, and the answer: the user uid and its tokens. *)
Answer(l) ==
    /\ Goto(l, "session", "answered")
    /\ Insert("audit")
    /\ UNCHANGED <<users, uid, token, process, issued>>

(* Another handler inserts, whatever the table: here, POST /api/keys. *)
OtherInsert ==
    /\ users # <<>>
    /\ rows["api_keys"] < MaxInserts
    /\ Insert("api_keys")
    /\ UNCHANGED <<users, pc, uid, token, process, issued>>

(* The server is stopped and started: the requests are gone, the tables    *)
(* stay, the connection is new, and so is a secret that is not configured. *)
Restart ==
    /\ restarts < MaxRestarts
    /\ restarts' = restarts + 1
    /\ pc' = [l \in Logins |-> IF l \in InFlight THEN "lost" ELSE pc[l]]
    /\ lastId' = 0
    /\ secret' = IF configured THEN secret ELSE secret + 1
    /\ UNCHANGED <<users, rows, uid, lengthOf, token, now, configured, undisturbed, issued>>

Tick ==
    /\ now < LastTick
    /\ now' = now + 1
    /\ UNCHANGED <<users, rows, lastId, pc, uid, lengthOf, token, secret, configured, restarts,
                   undisturbed, issued>>
-----------------------------------------------------------------------------
(* What is read of a token: cut, it has no signature any more. *)
Shown(t, how) == IF t.length > Rooms[how] THEN [t EXCEPT !.key = 0] ELSE t

(* fp_auth_validate_access: the user a token stands for, or 0. *)
Validate(t) == IF t.key = secret /\ t.exp >= now /\ t.sub > 0 THEN t.sub ELSE 0

(* fp_authenticate_request, for the token of login l. *)
Authenticated(l, how) == Validate(Shown(token[l], how))
-----------------------------------------------------------------------------
LoginStep(l) ==
    \/ Upsert(l) \/ TakeRowid(l)
    \/ StoreRefresh(l) \/ StoreRefreshFails(l) \/ Answer(l)

Next ==
    \/ \E l \in Logins : LoginStep(l)
    \/ OtherInsert
    \/ Restart
    \/ Tick

Spec == Init /\ [][Next]_vars
-----------------------------------------------------------------------------
(* Types of the state; rows are one to an identity (UNIQUE). *)
TypeOK ==
    /\ users \in Seq(Identities) /\ IsInjective(users)
    /\ rows \in [Tables -> Nat]
    /\ lastId \in Nat
    /\ pc \in [Logins -> {"new", "upserted", "known", "session",
                          "answered", "failed", "lost"}]
    /\ uid \in [Logins -> Nat]
    /\ lengthOf \in Lengths
    /\ token \in [Logins -> [sub : Nat, exp : Nat, key : Nat, length : Nat]]
    /\ now \in 0 .. LastTick /\ secret \in Nat \ {0} /\ configured \in BOOLEAN
    /\ restarts \in 0 .. MaxRestarts
    /\ undisturbed \subseteq Logins
    /\ issued \in [Logins -> [at : Nat, run : Nat]]

(* A login that is answered has an account that exists, and some id. *)
AnsweredUserExists == \A l \in Logins : pc[l] = "answered" => uid[l] \in Ids

(* When the user is new, or the connection is, and no other thread inserts *)
(* a row between the upsert and the reading of the rowid, the login is the *)
(* identity's own.                                                         *)
OwnWhenUndisturbed ==
    \A l \in undisturbed :
        pc[l] \in {"known", "session", "answered"} =>
            uid[l] \in Ids /\ users[uid[l]] = IdentityOf[l]

(* The token of an answered login stands for the user of the answer, for   *)
(* its lifetime and no longer; a restart ends it, unless the secret is     *)
(* configured.  This takes a token that is read in one piece: a header has *)
(* less room than a token may need.                                        *)
TokenGoodForItsLifetime ==
    \A l \in Logins, how \in DOMAIN Rooms :
        pc[l] = "answered" /\ token[l].length <= Rooms[how] =>
            Authenticated(l, how) =
                IF /\ now - issued[l].at <= Lifetime
                   /\ configured \/ restarts = issued[l].run
                THEN uid[l] ELSE 0

(* "create or update the user row and issue a short-lived JWT"             *)
(* (EXPERT_MODE.md:21): the tokens are for the row of the identity.        *)
LoginIsOwn ==
    \A l \in Logins : pc[l] = "answered" => users[uid[l]] = IdentityOf[l]
=============================================================================
