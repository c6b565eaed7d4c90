---------------------------- MODULE LoginsProofs ----------------------------
(***************************************************************************)
(* Proofs about Logins for any number of logins, identities, insertions,   *)
(* restarts and ticks of the clock.                                        *)
(***************************************************************************)
EXTENDS Logins, TLAPS

Stored(l) == \E i \in Ids : users[i] = IdentityOf[l]

(* A login that has upserted finds the identity's row. *)
RowStays ==
    \A l \in Logins : pc[l] \in {"upserted", "known", "session", "answered"} => Stored(l)

(* A session names an existing user. *)
SessionUserExists == \A l \in Logins : pc[l] \in {"session", "answered"} => uid[l] \in Ids

(* The rowid is that of the row of a login whose upsert has not been       *)
(* disturbed, or is not there.                                             *)
RowidIsOwn ==
    \A l \in undisturbed :
        pc[l] = "upserted" => lastId = 0 \/ (lastId \in Ids /\ users[lastId] = IdentityOf[l])

(* The secret a start of the server has. *)
SecretOf(run) == IF configured THEN 1 ELSE run + 1

(* A session's token is what was issued. *)
TokenAsIssued ==
    /\ secret = SecretOf(restarts)
    /\ \A l \in Logins :
         pc[l] \in {"session", "answered"} =>
             /\ token[l].sub = uid[l]
             /\ token[l].exp = issued[l].at + Lifetime
             /\ token[l].key = SecretOf(issued[l].run)

(* The inductive invariant. *)
LoginInv ==
    /\ TypeOK
    /\ \A l \in undisturbed : pc[l] # "new"
    /\ RowStays
    /\ SessionUserExists
    /\ RowidIsOwn
    /\ OwnWhenUndisturbed
    /\ TokenAsIssued
-----------------------------------------------------------------------------
LEMMA RoomForIds == TypeOK => /\ Len(users) \in Nat
                              /\ \A i \in Ids : i \in Nat /\ i > 0 /\ users[i] \in Identities
BY DEF TypeOK, Ids

(* A new identity gets a row of its own after the others. *)
LEMMA NewRow ==
    ASSUME TypeOK, NEW l \in Logins, ~Stored(l), users' = Append(users, IdentityOf[l])
    PROVE  /\ users' \in Seq(Identities) /\ IsInjective(users')
           /\ Ids' = Ids \cup {Len(users) + 1}
           /\ \A i \in Ids : users'[i] = users[i]
           /\ users'[Len(users) + 1] = IdentityOf[l]
<1>1. /\ users \in Seq(Identities) /\ IdentityOf[l] \in Identities /\ Len(users) \in Nat
      /\ \A i, j \in 1 .. Len(users) : users[i] = users[j] => i = j
  <2>1. users \in Seq(Identities) /\ IsInjective(users)
    BY DEF TypeOK
  <2>2. Len(users) \in Nat /\ DOMAIN users = 1 .. Len(users)
    BY <2>1
  <2>3. \A i, j \in 1 .. Len(users) : users[i] = users[j] => i = j
    BY <2>1, <2>2 DEF IsInjective
  <2> QED
    BY <2>1, <2>2, <2>3 DEF Identities
<1>2. /\ users' \in Seq(Identities) /\ Len(users') = Len(users) + 1
      /\ \A i \in 1 .. Len(users) : users'[i] = users[i]
      /\ users'[Len(users) + 1] = IdentityOf[l]
  BY <1>1
<1>3. \A i \in 1 .. Len(users) : users[i] # IdentityOf[l]
  BY DEF Stored, Ids
<1>4. 1 .. Len(users') = (1 .. Len(users)) \cup {Len(users) + 1}
  BY <1>1, <1>2
<1>5. \A i, j \in 1 .. Len(users') : users'[i] = users'[j] => i = j
  BY <1>1, <1>2, <1>3, <1>4
<1>6. DOMAIN users' = 1 .. Len(users')
  BY <1>2
<1> QED
  BY <1>2, <1>4, <1>5, <1>6 DEF IsInjective, Ids

Places == {"new", "upserted", "known", "session", "answered", "failed", "lost"}

LEMMA UpsertKnown ==
    ASSUME LoginInv, NEW l \in Logins, Upsert(l), Stored(l)
    PROVE  LoginInv'
<1> USE DEF LoginInv
<1>1. /\ pc[l] = "new" /\ pc' = [pc EXCEPT ![l] = "upserted"]
      /\ UNCHANGED <<rows, uid, token, lengthOf, now, secret, configured, restarts, issued>>
      /\ undisturbed' = IF lastId = 0 THEN undisturbed \cup {l} ELSE undisturbed
      /\ users' = users /\ lastId' = lastId
  BY DEF Upsert, Goto, Stored, process
<1>2. /\ pc'[l] = "upserted" /\ pc' \in [Logins -> Places]
      /\ \A k \in Logins : k # l => pc'[k] = pc[k]
  BY <1>1 DEF TypeOK, Places
<1>3. /\ Ids' = Ids /\ undisturbed \subseteq Logins /\ l \notin undisturbed
      /\ \A k \in undisturbed' : k \in undisturbed \/ (k = l /\ lastId = 0)
  BY <1>1 DEF Ids, TypeOK
<1>4. TypeOK'
  BY <1>1, <1>2 DEF TypeOK, Places
<1>5. \A k \in undisturbed' : pc'[k] # "new"
  BY <1>2, <1>3
<1>6. RowStays' /\ SessionUserExists'
  BY <1>1, <1>2, <1>3 DEF RowStays, SessionUserExists, Stored
<1>7. RowidIsOwn' /\ OwnWhenUndisturbed'
  BY <1>1, <1>2, <1>3 DEF RowidIsOwn, OwnWhenUndisturbed
<1>8. TokenAsIssued'
  BY <1>1, <1>2 DEF TokenAsIssued, SecretOf
<1> QED
  BY <1>4, <1>5, <1>6, <1>7, <1>8

LEMMA UpsertNew ==
    ASSUME LoginInv, NEW l \in Logins, Upsert(l), ~Stored(l)
    PROVE  LoginInv'
<1> USE DEF LoginInv
<1>1. /\ pc[l] = "new" /\ pc' = [pc EXCEPT ![l] = "upserted"]
      /\ UNCHANGED <<rows, uid, token, lengthOf, now, secret, configured, restarts, issued>>
      /\ undisturbed' = {k \in undisturbed : pc[k] # "upserted"} \cup {l}
      /\ users' = Append(users, IdentityOf[l]) /\ lastId' = Len(users) + 1
  BY DEF Upsert, Goto, Stored, process
<1>2. /\ pc'[l] = "upserted" /\ pc' \in [Logins -> Places]
      /\ \A k \in Logins : k # l => pc'[k] = pc[k]
  BY <1>1 DEF TypeOK, Places
<1>3. /\ users' \in Seq(Identities) /\ IsInjective(users')
      /\ Ids' = Ids \cup {Len(users) + 1}
      /\ \A i \in Ids : users'[i] = users[i]
      /\ users'[Len(users) + 1] = IdentityOf[l]
      /\ Len(users) \in Nat
  BY <1>1, NewRow, RoomForIds
<1>4. TypeOK'
  BY <1>1, <1>2, <1>3 DEF TypeOK, Places
<1>5. undisturbed \subseteq Logins /\ \A k \in undisturbed' : pc'[k] # "new"
  BY <1>1, <1>2 DEF TypeOK
<1>6. \A k \in Logins : Stored(k) => Stored(k)'
  BY <1>3 DEF Stored
<1>7. RowStays'
  <2>1. Stored(l)'
    BY <1>3 DEF Stored
  <2> QED
    BY <1>2, <1>6, <2>1 DEF RowStays
<1>8. SessionUserExists'
  BY <1>1, <1>2, <1>3 DEF SessionUserExists
<1>9. RowidIsOwn' /\ OwnWhenUndisturbed'
  BY <1>1, <1>2, <1>3, <1>5 DEF RowidIsOwn, OwnWhenUndisturbed
<1>10. TokenAsIssued'
  BY <1>1, <1>2 DEF TokenAsIssued, SecretOf
<1> QED
  BY <1>4, <1>5, <1>7, <1>8, <1>9, <1>10

LEMMA TakeRowidKeeps ==
    ASSUME LoginInv, NEW l \in Logins, TakeRowid(l)
    PROVE  LoginInv'
<1> USE DEF LoginInv
<1>1. /\ pc[l] = "upserted" /\ pc' = [pc EXCEPT ![l] = "known"]
      /\ uid' = [uid EXCEPT ![l] = IF lastId = 0 THEN OwnRow(l) ELSE lastId]
      /\ UNCHANGED <<users, rows, lastId, token, lengthOf, now, secret, configured, restarts,
                     undisturbed, issued>>
  BY DEF TakeRowid, Goto, process
<1>2. /\ pc'[l] = "known" /\ pc' \in [Logins -> Places]
      /\ \A k \in Logins : k # l => pc'[k] = pc[k] /\ uid'[k] = uid[k]
  BY <1>1 DEF TypeOK, Places
<1>3. /\ Ids' = Ids /\ undisturbed \subseteq Logins
  BY <1>1 DEF Ids, TypeOK
<1>4. OwnRow(l) \in Ids /\ users[OwnRow(l)] = IdentityOf[l] /\ OwnRow(l) \in Nat
  BY <1>1, RoomForIds DEF RowStays, Stored, OwnRow
<1>5. uid'[l] = IF lastId = 0 THEN OwnRow(l) ELSE lastId
  BY <1>1 DEF TypeOK
<1>6. TypeOK'
  <2>1. uid' \in [Logins -> Nat]
    BY <1>1, <1>4 DEF TypeOK
  <2> QED
    BY <1>1, <1>2, <2>1 DEF TypeOK, Places
<1>7. \A k \in undisturbed' : pc'[k] # "new"
  BY <1>1, <1>2, <1>3
<1>8. RowStays'
  BY <1>1, <1>2, <1>3 DEF RowStays, Stored
<1>9. SessionUserExists'
  BY <1>1, <1>2, <1>3 DEF SessionUserExists
<1>10. RowidIsOwn' /\ OwnWhenUndisturbed'
  <2>1. l \in undisturbed => uid'[l] \in Ids /\ users[uid'[l]] = IdentityOf[l]
    BY <1>1, <1>4, <1>5 DEF RowidIsOwn
  <2> QED
    BY <1>1, <1>2, <1>3, <2>1 DEF RowidIsOwn, OwnWhenUndisturbed
<1>11. TokenAsIssued'
  BY <1>1, <1>2 DEF TokenAsIssued, SecretOf
<1> QED
  BY <1>6, <1>7, <1>8, <1>9, <1>10, <1>11

LEMMA StoreRefreshKeeps ==
    ASSUME LoginInv, NEW l \in Logins, StoreRefresh(l)
    PROVE  LoginInv'
<1> USE LoginAssumption DEF LoginInv
<1>1. /\ pc[l] = "known" /\ pc' = [pc EXCEPT ![l] = "session"] /\ uid[l] \in Ids
      /\ rows' = [rows EXCEPT !["sessions"] = @ + 1]
      /\ lastId' = rows["sessions"] + 1
      /\ undisturbed' = {k \in undisturbed : pc[k] # "upserted"}
      /\ token' = [token EXCEPT ![l] = AccessToken(l)]
      /\ issued' = [issued EXCEPT ![l] = [at |-> now, run |-> restarts]]
      /\ UNCHANGED <<users, uid, lengthOf, now, secret, configured, restarts>>
  BY DEF StoreRefresh, Goto, Insert, process
<1>2. /\ pc'[l] = "session" /\ pc' \in [Logins -> Places]
      /\ \A k \in Logins : k # l => /\ pc'[k] = pc[k] /\ token'[k] = token[k]
                                    /\ issued'[k] = issued[k]
      /\ token'[l] = AccessToken(l) /\ issued'[l] = [at |-> now, run |-> restarts]
  BY <1>1 DEF TypeOK, Places
<1>3. /\ Ids' = Ids /\ undisturbed \subseteq Logins
  BY <1>1 DEF Ids, TypeOK
<1>4. /\ AccessToken(l) \in [sub : Nat, exp : Nat, key : Nat, length : Nat]
      /\ AccessToken(l).sub = uid[l] /\ AccessToken(l).exp = now + Lifetime
      /\ AccessToken(l).key = secret
  <2>1. users[uid[l]] \in Identities
    BY <1>1, RoomForIds
  <2>2. lengthOf \in [Identities -> Nat]
    BY DEF TypeOK, Identities
  <2>3. lengthOf[IF uid[l] \in Ids THEN users[uid[l]] ELSE IdentityOf[l]] \in Nat
    BY <1>1, <2>1, <2>2
  <2>4. uid[l] \in Nat /\ now + Lifetime \in Nat /\ secret \in Nat
    BY DEF TypeOK
  <2> QED
    BY <2>3, <2>4 DEF AccessToken
<1>5. TypeOK'
  <2>1. rows' \in [Tables -> Nat] /\ lastId' \in Nat
    <3>1. "sessions" \in Tables
      BY DEF Tables
    <3> QED
      BY <1>1, <3>1 DEF TypeOK
  <2>2. token' \in [Logins -> [sub : Nat, exp : Nat, key : Nat, length : Nat]]
    BY <1>1, <1>4 DEF TypeOK
  <2>3. issued' \in [Logins -> [at : Nat, run : Nat]]
    <3>1. [at |-> now, run |-> restarts] \in [at : Nat, run : Nat]
      BY DEF TypeOK
    <3> QED
      BY <1>1, <3>1 DEF TypeOK
  <2>4. undisturbed' \subseteq Logins
    BY <1>1, <1>3
  <2> QED
    BY <1>1, <1>2, <2>1, <2>2, <2>3, <2>4 DEF TypeOK, Places
<1>6. \A k \in undisturbed' : pc'[k] # "new"
  BY <1>1, <1>2, <1>3
<1>7. RowStays'
  BY <1>1, <1>2, <1>3 DEF RowStays, Stored
<1>8. SessionUserExists'
  BY <1>1, <1>2, <1>3 DEF SessionUserExists
<1>9. RowidIsOwn' /\ OwnWhenUndisturbed'
  BY <1>1, <1>2, <1>3 DEF RowidIsOwn, OwnWhenUndisturbed
<1>10. TokenAsIssued'
  BY <1>1, <1>2, <1>4 DEF TokenAsIssued, SecretOf
<1> QED
  BY <1>5, <1>6, <1>7, <1>8, <1>9, <1>10

(* Steps that change no user, no id and no token, and let no login go on   *)
(* but from its session to its answer.                                     *)
LEMMA QuietStep ==
    ASSUME LoginInv, TypeOK', UNCHANGED <<users, uid, token, configured, issued>>,
           secret' = SecretOf(restarts)', undisturbed' \subseteq undisturbed,
           \A k \in Logins : \/ pc'[k] = pc[k]
                             \/ pc[k] = "session" /\ pc'[k] = "answered"
                             \/ pc'[k] \in {"failed", "lost"},
           \A k \in undisturbed' : pc'[k] = "upserted" => lastId' \in {0, lastId}
    PROVE  LoginInv'
<1> USE DEF LoginInv
<1>1. Ids' = Ids /\ undisturbed \subseteq Logins
  BY DEF Ids, TypeOK
<1>2. \A k \in undisturbed' : pc'[k] # "new"
  BY <1>1
<1>3. RowStays'
  BY <1>1 DEF RowStays, Stored
<1>4. SessionUserExists'
  BY <1>1 DEF SessionUserExists
<1>5. RowidIsOwn'
  BY <1>1 DEF RowidIsOwn
<1>6. OwnWhenUndisturbed'
  BY <1>1 DEF OwnWhenUndisturbed
<1>7. TokenAsIssued'
  BY DEF TokenAsIssued, SecretOf
<1> QED
  BY <1>2, <1>3, <1>4, <1>5, <1>6, <1>7

LEMMA InsertTypes ==
    ASSUME TypeOK, NEW t \in Tables, Insert(t)
    PROVE  rows' \in [Tables -> Nat] /\ lastId' \in Nat /\ undisturbed' \subseteq undisturbed
BY DEF TypeOK, Insert

LEMMA LoginStepKeeps ==
    ASSUME LoginInv, NEW l \in Logins, LoginStep(l)
    PROVE  LoginInv'
<1>1. CASE StoreRefreshFails(l)
  <2>1. /\ pc' = [pc EXCEPT ![l] = "failed"]
        /\ UNCHANGED <<users, rows, lastId, uid, token, lengthOf, now, secret, configured,
                       restarts, undisturbed, issued>>
    BY <1>1 DEF StoreRefreshFails, Goto, process
  <2>2. TypeOK'
    BY <2>1 DEF LoginInv, TypeOK
  <2>3. \A k \in Logins : pc'[k] = pc[k] \/ pc'[k] = "failed"
    BY <2>1 DEF LoginInv, TypeOK
  <2>4. secret' = SecretOf(restarts)'
    BY <2>1 DEF LoginInv, TokenAsIssued, SecretOf
  <2> QED
    BY <2>1, <2>2, <2>3, <2>4, QuietStep
<1>2. CASE Answer(l)
  <2>1. /\ pc[l] = "session" /\ pc' = [pc EXCEPT ![l] = "answered"] /\ Insert("audit")
        /\ UNCHANGED <<users, uid, token, lengthOf, now, secret, configured, restarts, issued>>
    BY <1>2 DEF Answer, Goto, process
  <2>2. /\ rows' \in [Tables -> Nat] /\ lastId' \in Nat /\ undisturbed' \subseteq undisturbed
    <3>1. "audit" \in Tables
      BY DEF Tables
    <3> QED
      BY <2>1, <3>1, InsertTypes DEF LoginInv
  <2>3. TypeOK'
    BY <2>1, <2>2 DEF LoginInv, TypeOK
  <2>4. \A k \in Logins : pc'[k] = pc[k] \/ (pc[k] = "session" /\ pc'[k] = "answered")
    BY <2>1 DEF LoginInv, TypeOK
  <2>5. \A k \in undisturbed' : pc'[k] # "upserted"
    BY <2>1 DEF Insert, LoginInv, TypeOK
  <2>6. secret' = SecretOf(restarts)'
    BY <2>1 DEF LoginInv, TokenAsIssued, SecretOf
  <2> QED
    BY <2>1, <2>2, <2>3, <2>4, <2>5, <2>6, QuietStep
<1> QED
  BY <1>1, <1>2, UpsertKnown, UpsertNew, TakeRowidKeeps, StoreRefreshKeeps DEF LoginStep

LEMMA OtherStepKeeps ==
    ASSUME LoginInv, OtherInsert \/ Restart \/ Tick \/ UNCHANGED vars
    PROVE  LoginInv'
<1>1. CASE OtherInsert
  <2>1. /\ Insert("api_keys")
        /\ UNCHANGED <<users, pc, uid, token, lengthOf, now, secret, configured, restarts, issued>>
    BY <1>1 DEF OtherInsert, process
  <2>2. /\ rows' \in [Tables -> Nat] /\ lastId' \in Nat /\ undisturbed' \subseteq undisturbed
    <3>1. "api_keys" \in Tables
      BY DEF Tables
    <3> QED
      BY <2>1, <3>1, InsertTypes DEF LoginInv
  <2>3. TypeOK'
    BY <2>1, <2>2 DEF LoginInv, TypeOK
  <2>4. \A k \in undisturbed' : pc'[k] # "upserted"
    BY <2>1 DEF Insert
  <2>5. secret' = SecretOf(restarts)'
    BY <2>1 DEF LoginInv, TokenAsIssued, SecretOf
  <2> QED
    BY <2>1, <2>2, <2>3, <2>4, <2>5, QuietStep
<1>2. CASE Restart
  <2>1. /\ restarts < MaxRestarts /\ restarts' = restarts + 1
        /\ pc' = [l \in Logins |-> IF l \in InFlight THEN "lost" ELSE pc[l]]
        /\ lastId' = 0 /\ secret' = IF configured THEN secret ELSE secret + 1
        /\ UNCHANGED <<users, rows, uid, lengthOf, token, now, configured, undisturbed, issued>>
    BY <1>2 DEF Restart
  <2>2. TypeOK'
    <3>1. pc' \in [Logins -> Places]
      BY <2>1 DEF LoginInv, TypeOK, Places
    <3>2. secret' \in Nat \ {0} /\ restarts' \in 0 .. MaxRestarts
      BY <2>1, LoginAssumption DEF LoginInv, TypeOK
    <3> QED
      BY <2>1, <3>1, <3>2 DEF LoginInv, TypeOK, Places
  <2>3. \A k \in Logins : pc'[k] = pc[k] \/ pc'[k] = "lost"
    BY <2>1
  <2>4. secret' = SecretOf(restarts)'
    BY <2>1 DEF LoginInv, TypeOK, TokenAsIssued, SecretOf
  <2> QED
    BY <2>1, <2>2, <2>3, <2>4, QuietStep
<1>3. CASE Tick \/ UNCHANGED vars
  <2>1. /\ now' \in {now, now + 1} /\ now' \in 0 .. LastTick
        /\ UNCHANGED <<users, rows, lastId, pc, uid, lengthOf, token, secret, configured, restarts,
                       undisturbed, issued>>
    BY <1>3, LoginAssumption DEF Tick, vars, process, LoginInv, TypeOK
  <2>2. TypeOK'
    BY <2>1 DEF LoginInv, TypeOK
  <2>3. secret' = SecretOf(restarts)'
    BY <2>1 DEF LoginInv, TokenAsIssued, SecretOf
  <2> QED
    BY <2>1, <2>2, <2>3, QuietStep
<1> QED
  BY <1>1, <1>2, <1>3

LEMMA LoginInvariant == Spec => []LoginInv
<1>1. ASSUME Init PROVE LoginInv
  <2>1. TypeOK
    <3>1. users \in Seq(Identities) /\ IsInjective(users)
      BY <1>1 DEF Init, IsInjective
    <3>2. token \in [Logins -> [sub : Nat, exp : Nat, key : Nat, length : Nat]]
      BY <1>1 DEF Init, NoToken
    <3>3. /\ issued \in [Logins -> [at : Nat, run : Nat]]
          /\ rows \in [Tables -> Nat] /\ uid \in [Logins -> Nat]
      BY <1>1 DEF Init
    <3>4. now \in 0 .. LastTick /\ restarts \in 0 .. MaxRestarts
      BY <1>1, LoginAssumption DEF Init
    <3> QED
      BY <1>1, <3>1, <3>2, <3>3, <3>4 DEF Init, TypeOK
  <2>2. \A l \in Logins : pc[l] = "new"
    BY <1>1 DEF Init
  <2>3. undisturbed = {} /\ secret = 1 /\ restarts = 0
    BY <1>1 DEF Init
  <2> QED
    BY <2>1, <2>2, <2>3 DEF LoginInv, RowStays, SessionUserExists, RowidIsOwn,
                            OwnWhenUndisturbed, TokenAsIssued, SecretOf
<1>2. LoginInv /\ [Next]_vars => LoginInv'
  BY LoginStepKeeps, OtherStepKeeps DEF Next
<1> QED
  BY <1>1, <1>2, PTL DEF Spec
-----------------------------------------------------------------------------
(* The types of the state, and one row to an identity. *)
THEOREM LoginTypes == Spec => []TypeOK
<1>1. LoginInv => TypeOK
  BY DEF LoginInv
<1> QED
  BY <1>1, LoginInvariant, PTL

(* An answered login names a user that is in the table, whoever inserts    *)
(* what in between: the session's foreign key sees to it.                  *)
THEOREM AnswersNameAUser == Spec => []AnsweredUserExists
<1>1. LoginInv => AnsweredUserExists
  BY DEF LoginInv, SessionUserExists, AnsweredUserExists
<1> QED
  BY <1>1, LoginInvariant, PTL

(* A login nobody's insert disturbs is the identity's own. *)
THEOREM UndisturbedLoginsAreOwn == Spec => []OwnWhenUndisturbed
<1>1. LoginInv => OwnWhenUndisturbed
  BY DEF LoginInv
<1> QED
  BY <1>1, LoginInvariant, PTL

(* A token that is read whole stands for the user of the answer until it   *)
(* expires, or the server is restarted with another secret.                *)
THEOREM TokensLastTheirLifetime == Spec => []TokenGoodForItsLifetime
<1>1. ASSUME LoginInv PROVE TokenGoodForItsLifetime
  <2>1. ASSUME NEW l \in Logins, NEW how \in DOMAIN Rooms,
               pc[l] = "answered", token[l].length <= Rooms[how]
        PROVE  Authenticated(l, how) =
                   IF /\ now - issued[l].at <= Lifetime
                      /\ configured \/ restarts = issued[l].run
                   THEN uid[l] ELSE 0
    <3>1. Shown(token[l], how) = token[l]
      <4>1. token[l].length \in Nat /\ Rooms[how] \in Nat
        BY <1>1, LoginAssumption DEF LoginInv, TypeOK
      <4> QED
        BY <2>1, <4>1 DEF Shown
    <3>2. uid[l] \in Nat /\ uid[l] > 0
      BY <1>1, <2>1, RoomForIds DEF LoginInv, SessionUserExists
    <3>3. /\ now \in Nat /\ issued[l].at \in Nat /\ issued[l].run \in Nat /\ restarts \in Nat
          /\ Lifetime \in Nat
      BY <1>1, LoginAssumption DEF LoginInv, TypeOK
    <3>4. token[l].key = secret <=> configured \/ restarts = issued[l].run
      BY <1>1, <2>1, <3>3 DEF LoginInv, TokenAsIssued, SecretOf
    <3>5. token[l].exp >= now <=> now - issued[l].at <= Lifetime
      BY <1>1, <2>1, <3>3 DEF LoginInv, TokenAsIssued
    <3>6. token[l].sub = uid[l]
      BY <1>1, <2>1 DEF LoginInv, TokenAsIssued
    <3> QED
      BY <3>1, <3>2, <3>4, <3>5, <3>6 DEF Authenticated, Validate
  <2> QED
    BY <2>1 DEF TokenGoodForItsLifetime
<1> QED
  BY <1>1, LoginInvariant, PTL
=============================================================================
