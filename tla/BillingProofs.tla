---------------------------- MODULE BillingProofs ----------------------------
(***************************************************************************)
(* Proofs about Billing, for any users, keys, checkouts, events, webhook   *)
(* threads and Expert requests.                                            *)
(***************************************************************************)
EXTENDS Billing, TLAPS

Statuses == {"none", "active", "trialing", "past_due", "canceled"}

Places == {"new", "sync", "check", "revoke", "done", "identified", "granted", "denied"}

Rows == [status : Statuses, customer : Checkouts \cup {None}, until : Nat]

(* A handler has an event and a user from the moment it has found them.    *)
HandlersKnow ==
    \A h \in Handlers : pc[h] \in {"sync", "check", "revoke"} =>
        on[h] \in Events /\ target[h] \in Users

(* The row of the user whose event was the last written says what the      *)
(* event says.                                                             *)
RowsFollowEvents ==
    \A u \in Users : lastSync[u] \in Events =>
        /\ subs[u].status = FinalStatus(lastSync[u])
        /\ lastSync[u].customer # None => subs[u].customer = lastSync[u].customer
        /\ lastSync[u].until > 0 => subs[u].until = lastSync[u].until

(* A handler about to revoke has found its user without a subscription,    *)
(* and only another write can have changed that.                           *)
RevokersLooked ==
    \A h \in Handlers : pc[h] = "revoke" /\ h \notin raced => ~Entitled(target[h])

(* The keys a handler has seen are the user's, and issued.                 *)
SeenKeysExist ==
    \A h \in Handlers : pc[h] \in {"check", "revoke"} =>
        \A k \in seen[h] : OwnerOf[k] = target[h] /\ keys[k] # "none"

BarredKeysRevoked == \A k \in barred : keys[k] = "revoked"

(* The inductive invariant. *)
BillingInv ==
    /\ TypeOK
    /\ subs \in [Users -> Rows]
    /\ pc \in [Handlers \cup Gates -> Places]
    /\ HandlersKnow
    /\ RowsFollowEvents
    /\ RevokersLooked
    /\ SeenKeysExist
    /\ BarredKeysRevoked
-----------------------------------------------------------------------------
(* What the proofs of single steps need of the constants. *)
LEMMA Disjoint ==
    /\ Handlers \cap Gates = {}
    /\ None \notin Users /\ None \notin Events
    /\ Checkouts \cap Events = {}
    /\ LastTick \in Nat /\ \A n \in Periods : n \in Nat
    /\ \A c \in Checkouts : BuyerOf[c] \in Users
BY BillingAssumption

(* What an event writes. *)
LEMMA FinalStatuses ==
    ASSUME NEW e \in Events
    PROVE  FinalStatus(e) \in Statuses
BY BillingAssumption DEF FinalStatus, Statuses

LEMMA EventFields ==
    ASSUME NEW e \in Events
    PROVE  e.customer \in Checkouts \cup {None} /\ e.until \in Nat
BY BillingAssumption

(* A subscription that has lapsed does not come back by itself. *)
LEMMA LapsedStaysLapsed ==
    ASSUME BillingInv, NEW u \in Users, now' \in {now, now + 1}, subs'[u] = subs[u], ~Entitled(u)
    PROVE  ~Entitled(u)'
BY DEF BillingInv, TypeOK, Rows, Entitled

(* A write leaves rows, and what is known of them and of the handlers.     *)
LEMMA WriteStep ==
    ASSUME BillingInv, NEW u \in Users, NEW status \in Statuses,
           NEW customer \in Checkouts \cup {None}, NEW until \in Nat,
           NEW by \in Events \cup Checkouts,
           Write(u, status, customer, until, by), UNCHANGED <<now, target>>,
           by \in Events => /\ status = FinalStatus(by)
                            /\ customer = by.customer /\ until = by.until
    PROVE  /\ subs' \in [Users -> Rows]
           /\ lastSync' \in [Users -> Events \cup Checkouts \cup {None}]
           /\ raced' \subseteq Handlers
           /\ RowsFollowEvents'
           /\ \A h \in Handlers : pc[h] = "revoke" /\ h \notin raced' => ~Entitled(target[h])'
<1> USE Disjoint DEF BillingInv
<1>1. Synced(subs[u], status, customer, until) \in Rows
  BY DEF Synced, Rows
<1>2. subs' \in [Users -> Rows]
  BY <1>1 DEF Write
<1>3. lastSync' \in [Users -> Events \cup Checkouts \cup {None}] /\ raced' \subseteq Handlers
  BY DEF Write, TypeOK
<1>4. RowsFollowEvents'
  <2> SUFFICES ASSUME NEW v \in Users, lastSync'[v] \in Events
               PROVE  /\ subs'[v].status = FinalStatus(lastSync'[v])
                      /\ lastSync'[v].customer # None => subs'[v].customer = lastSync'[v].customer
                      /\ lastSync'[v].until > 0 => subs'[v].until = lastSync'[v].until
    BY DEF RowsFollowEvents
  <2>1. CASE v = u
    BY <2>1 DEF Write, Synced, TypeOK
  <2>2. CASE v # u
    BY <2>2 DEF Write, RowsFollowEvents, TypeOK
  <2> QED
    BY <2>1, <2>2
<1>5. ASSUME NEW h \in Handlers, pc[h] = "revoke", h \notin raced'
      PROVE  ~Entitled(target[h])'
  <2>1. target[h] \in Users /\ target[h] # u /\ h \notin raced
    BY <1>5 DEF Write, HandlersKnow
  <2>2. UNCHANGED <<subs[target[h]], now>> /\ ~Entitled(target[h])
    BY <1>5, <2>1 DEF Write, RevokersLooked, TypeOK
  <2> QED
    BY <2>2 DEF Entitled
<1> QED
  BY <1>2, <1>3, <1>4, <1>5
(* A thread goes to a place of its own kind. *)
LEMMA ThreadMoves ==
    ASSUME BillingInv, NEW t \in Handlers \cup Gates, pc' = [pc EXCEPT ![t] = pc'[t]],
           t \in Handlers => pc'[t] \in {"new", "sync", "check", "revoke", "done"},
           t \in Gates => pc'[t] \in {"new", "identified", "granted", "denied"}
    PROVE  /\ pc' \in [Handlers \cup Gates -> Places]
           /\ \A h \in Handlers : pc'[h] \in {"new", "sync", "check", "revoke", "done"}
           /\ \A g \in Gates : pc'[g] \in {"new", "identified", "granted", "denied"}
<1>1. pc \in [Handlers \cup Gates -> Places] /\ pc'[t] \in Places
  BY DEF BillingInv, Places
<1>2. \A u \in Handlers \cup Gates : u # t => pc'[u] = pc[u]
  BY <1>1
<1> QED
  BY <1>1, <1>2 DEF BillingInv, TypeOK
-----------------------------------------------------------------------------
(* The steps. *)

LEMMA TickBills ==
    ASSUME BillingInv, Tick
    PROVE  BillingInv'
<1> USE Disjoint DEF BillingInv
<1>1. /\ now < LastTick /\ now' = now + 1
      /\ UNCHANGED <<subs, keys, bought, pc, on, target, lastSync, seen, barred, raced>>
  BY DEF Tick, tables, threads, history
<1>2. TypeOK'
  BY <1>1 DEF TypeOK
<1>3. RevokersLooked'
  <2> SUFFICES ASSUME NEW h \in Handlers, pc[h] = "revoke", h \notin raced
               PROVE  ~Entitled(target[h])'
    BY <1>1 DEF RevokersLooked
  <2>1. target[h] \in Users /\ ~Entitled(target[h])
    BY DEF RevokersLooked, HandlersKnow
  <2>2. ASSUME NEW u \in Users, ~Entitled(u) PROVE ~Entitled(u)'
    BY <1>1, <2>2, LapsedStaysLapsed
  <2> QED
    BY <1>1, <2>1, <2>2
<1>4. HandlersKnow' /\ RowsFollowEvents' /\ SeenKeysExist' /\ BarredKeysRevoked'
  BY <1>1 DEF HandlersKnow, RowsFollowEvents, SeenKeysExist, BarredKeysRevoked
<1> QED
  BY <1>1, <1>2, <1>3, <1>4

LEMMA CheckoutBills ==
    ASSUME BillingInv, NEW c \in Checkouts, Checkout(c)
    PROVE  BillingInv'
<1> USE Disjoint DEF BillingInv
<1>1. PICK n \in Periods : Write(BuyerOf[c], "active", c, now + n, c)
  BY DEF Checkout
<1>2. /\ bought' = bought \cup {c}
      /\ UNCHANGED <<now, keys, pc, on, target, seen, barred>>
  BY DEF Checkout, threads
<1>3. /\ subs' \in [Users -> Rows]
      /\ lastSync' \in [Users -> Events \cup Checkouts \cup {None}]
      /\ raced' \subseteq Handlers
      /\ RowsFollowEvents'
      /\ \A h \in Handlers : pc[h] = "revoke" /\ h \notin raced' => ~Entitled(target[h])'
  <2>1. BuyerOf[c] \in Users /\ now + n \in Nat /\ "active" \in Statuses /\ c \notin Events
    BY DEF TypeOK, Statuses
  <2> DEFINE u == BuyerOf[c]
             t == now + n
  <2>2. Write(u, "active", c, t, c) /\ u \in Users /\ t \in Nat
    BY <1>1, <2>1
  <2> HIDE DEF u, t
  <2>3. UNCHANGED <<now, target>>
    BY <1>2
  <2> HIDE DEF BillingInv
  <2> QED
    BY <2>1, <2>2, <2>3, WriteStep
<1>4. TypeOK'
  BY <1>2, <1>3 DEF TypeOK, Rows, Statuses
<1>5. RevokersLooked'
  BY <1>2, <1>3 DEF RevokersLooked
<1>6. HandlersKnow' /\ SeenKeysExist' /\ BarredKeysRevoked'
  BY <1>2 DEF HandlersKnow, SeenKeysExist, BarredKeysRevoked
<1> QED
  BY <1>2, <1>3, <1>4, <1>5, <1>6

LEMMA IssueKeyBills ==
    ASSUME BillingInv, NEW k \in Keys, IssueKey(k)
    PROVE  BillingInv'
<1> USE Disjoint DEF BillingInv
<1>1. /\ keys[k] = "none" /\ keys' = [keys EXCEPT ![k] = "active"]
      /\ UNCHANGED <<now, subs, bought, pc, on, target, lastSync, seen, barred, raced>>
  BY DEF IssueKey, threads, history
<1>2. TypeOK'
  BY <1>1 DEF TypeOK
<1>3. SeenKeysExist' /\ BarredKeysRevoked'
  BY <1>1 DEF SeenKeysExist, BarredKeysRevoked, TypeOK
<1>4. RevokersLooked'
  BY <1>1 DEF RevokersLooked, Entitled
<1>5. HandlersKnow' /\ RowsFollowEvents'
  BY <1>1 DEF HandlersKnow, RowsFollowEvents
<1> QED
  BY <1>1, <1>2, <1>3, <1>4, <1>5

(* A handler finds its user, or ends without writing. *)
LEMMA HandlerMovesBill ==
    ASSUME BillingInv, NEW h \in Handlers,
           Receive(h) \/ Ignore(h) \/ Check(h) \/ RevokeFails(h)
    PROVE  BillingInv'
<1> USE Disjoint DEF BillingInv
<1>1. /\ UNCHANGED <<now, subs, keys, bought, lastSync, seen, barred, raced>>
      /\ pc' = [pc EXCEPT ![h] = pc'[h]]
      /\ \/ pc[h] = "new" /\ pc'[h] = "sync"
            /\ \E e \in Events, u \in Users : /\ on' = [on EXCEPT ![h] = e]
                                             /\ target' = [target EXCEPT ![h] = u]
         \/ pc'[h] = "done" /\ UNCHANGED <<on, target>>
         \/ /\ pc[h] = "check" /\ pc'[h] = "revoke" /\ UNCHANGED <<on, target>>
            /\ ~Entitled(target[h])
  BY DEF Receive, Ignore, Check, RevokeFails, Goto, tables, history
<1>2. \A t \in (Handlers \cup Gates) \ {h} : pc'[t] = pc[t]
  BY <1>1
<1>3. \A t \in Handlers \ {h} : on'[t] = on[t] /\ target'[t] = target[t]
  BY <1>1 DEF TypeOK
<1>4. on' \in [Handlers -> Events \cup {None}] /\ target' \in [Handlers -> Users \cup {None}]
  BY <1>1 DEF TypeOK
<1>5. HandlersKnow'
  BY <1>1, <1>2, <1>3, <1>4 DEF HandlersKnow, TypeOK
<1>6. RevokersLooked'
  BY <1>1, <1>2, <1>3 DEF RevokersLooked, Entitled
<1>7. SeenKeysExist'
  BY <1>1, <1>2, <1>3 DEF SeenKeysExist
<1>8. RowsFollowEvents' /\ BarredKeysRevoked'
  BY <1>1 DEF RowsFollowEvents, BarredKeysRevoked
<1>9. /\ pc' \in [Handlers \cup Gates -> Places]
      /\ \A t \in Handlers : pc'[t] \in {"new", "sync", "check", "revoke", "done"}
      /\ \A g \in Gates : pc'[g] \in {"new", "identified", "granted", "denied"}
  BY <1>1, ThreadMoves
<1>10. TypeOK'
  BY <1>1, <1>4, <1>9 DEF TypeOK
<1> QED
  BY <1>1, <1>5, <1>6, <1>7, <1>8, <1>9, <1>10

LEMMA SyncBills ==
    ASSUME BillingInv, NEW h \in Handlers, Sync(h) \/ SyncFails(h)
    PROVE  BillingInv'
<1> USE Disjoint DEF BillingInv
<1> DEFINE e == on[h]
           Now == {k \in Keys : OwnerOf[k] = target[h] /\ keys[k] # "none"}
<1>1. /\ pc[h] = "sync" /\ pc' = [pc EXCEPT ![h] = "check"]
      /\ seen' = [seen EXCEPT ![h] = Now]
      /\ UNCHANGED <<now, keys, bought, on, target, barred>>
      /\ \/ Write(target[h], FinalStatus(e), e.customer, e.until, e)
         \/ UNCHANGED <<subs, lastSync, raced>>
  BY DEF Sync, SyncFails, Goto, tables
<1>2. e \in Events /\ target[h] \in Users
  BY <1>1 DEF HandlersKnow
<1>3. /\ subs' \in [Users -> Rows]
      /\ lastSync' \in [Users -> Events \cup Checkouts \cup {None}]
      /\ raced' \subseteq Handlers
      /\ RowsFollowEvents'
      /\ \A t \in Handlers : pc[t] = "revoke" /\ t \notin raced' => ~Entitled(target[t])'
  <2>1. CASE Write(target[h], FinalStatus(e), e.customer, e.until, e)
    <3>1. /\ FinalStatus(e) \in Statuses /\ e.customer \in Checkouts \cup {None}
          /\ e.until \in Nat
      BY <1>2, FinalStatuses, EventFields
    <3> DEFINE u == target[h]
               status == FinalStatus(e)
               customer == e.customer
               until == e.until
    <3>2. /\ Write(u, status, customer, until, e) /\ u \in Users /\ e \in Events
          /\ status \in Statuses /\ customer \in Checkouts \cup {None} /\ until \in Nat
          /\ status = FinalStatus(e) /\ customer = e.customer /\ until = e.until
      BY <1>2, <2>1, <3>1
    <3>3. UNCHANGED <<now, target>>
      BY <1>1
    <3> HIDE DEF u, status, customer, until, e, BillingInv
    <3> QED
      BY <3>2, <3>3, WriteStep
  <2>2. CASE UNCHANGED <<subs, lastSync, raced>>
    BY <1>1, <2>2 DEF RowsFollowEvents, RevokersLooked, Entitled, TypeOK
  <2> QED
    BY <1>1, <2>1, <2>2
<1>4. \A t \in (Handlers \cup Gates) \ {h} : pc'[t] = pc[t]
  BY <1>1
<1>5. seen' \in [Handlers -> SUBSET Keys] /\ seen'[h] = Now
      /\ \A t \in Handlers \ {h} : seen'[t] = seen[t]
  BY <1>1 DEF TypeOK
<1>6. SeenKeysExist'
  BY <1>1, <1>4, <1>5 DEF SeenKeysExist
<1>7. RevokersLooked'
  BY <1>1, <1>3, <1>4 DEF RevokersLooked
<1>8. HandlersKnow' /\ BarredKeysRevoked'
  BY <1>1, <1>4 DEF HandlersKnow, BarredKeysRevoked
<1>9. /\ pc' \in [Handlers \cup Gates -> Places]
      /\ \A t \in Handlers : pc'[t] \in {"new", "sync", "check", "revoke", "done"}
      /\ \A g \in Gates : pc'[g] \in {"new", "identified", "granted", "denied"}
  <2>1. pc' = [pc EXCEPT ![h] = pc'[h]] /\ pc'[h] = "check"
    BY <1>1
  <2> QED
    BY <2>1, ThreadMoves
<1>10. \A u \in Users : /\ subs'[u].status \in Statuses
                        /\ subs'[u].customer \in Checkouts \cup {None}
                        /\ subs'[u].until \in Nat
  BY <1>3 DEF Rows
<1>11. TypeOK'
  BY <1>1, <1>3, <1>5, <1>9, <1>10 DEF TypeOK, Statuses
<1> QED
  BY <1>1, <1>3, <1>6, <1>7, <1>8, <1>9, <1>11

LEMMA RevokeBills ==
    ASSUME BillingInv, NEW h \in Handlers, Revoke(h)
    PROVE  BillingInv'
<1> USE Disjoint DEF BillingInv
<1>1. /\ pc[h] = "revoke" /\ pc' = [pc EXCEPT ![h] = "done"]
      /\ keys' = [k \in Keys |-> IF OwnerOf[k] = target[h] /\ keys[k] = "active"
                                 THEN "revoked" ELSE keys[k]]
      /\ barred' = barred \cup seen[h]
      /\ UNCHANGED <<now, subs, bought, on, target, lastSync, seen, raced>>
  BY DEF Revoke, Goto
<1>2. \A t \in (Handlers \cup Gates) \ {h} : pc'[t] = pc[t]
  BY <1>1
<1>3. BarredKeysRevoked'
  <2>1. \A k \in seen[h] : OwnerOf[k] = target[h] /\ keys[k] # "none" /\ k \in Keys
    BY <1>1 DEF SeenKeysExist, TypeOK
  <2> QED
    BY <1>1, <2>1 DEF BarredKeysRevoked, TypeOK
<1>4. SeenKeysExist'
  BY <1>1, <1>2 DEF SeenKeysExist, TypeOK
<1>5. HandlersKnow' /\ RowsFollowEvents' /\ RevokersLooked'
  BY <1>1, <1>2 DEF HandlersKnow, RowsFollowEvents, RevokersLooked, Entitled
<1>6. /\ pc' \in [Handlers \cup Gates -> Places]
      /\ \A t \in Handlers : pc'[t] \in {"new", "sync", "check", "revoke", "done"}
      /\ \A g \in Gates : pc'[g] \in {"new", "identified", "granted", "denied"}
  <2>1. pc' = [pc EXCEPT ![h] = pc'[h]] /\ pc'[h] = "done"
    BY <1>1
  <2> QED
    BY <2>1, ThreadMoves
<1>7. keys' \in [Keys -> {"none", "active", "revoked"}] /\ barred' \subseteq Keys
  BY <1>1 DEF TypeOK
<1>8. TypeOK'
  BY <1>1, <1>6, <1>7 DEF TypeOK
<1> QED
  BY <1>1, <1>3, <1>4, <1>5, <1>6, <1>8

LEMMA GateBills ==
    ASSUME BillingInv, NEW g \in Gates,
           AdmitUngated(g) \/ Identify(g) \/ TurnAway(g) \/ Decide(g)
    PROVE  BillingInv'
<1> USE Disjoint DEF BillingInv
<1>1. /\ UNCHANGED <<now, subs, keys, bought, on, target, lastSync, seen, barred, raced>>
      /\ pc' = [pc EXCEPT ![g] = pc'[g]] /\ pc'[g] \in {"identified", "granted", "denied"}
  BY DEF AdmitUngated, Identify, TurnAway, Decide, Goto, tables, history
<1>2. \A t \in (Handlers \cup Gates) \ {g} : pc'[t] = pc[t]
  BY <1>1
<1>3. TypeOK' /\ pc' \in [Handlers \cup Gates -> Places]
  BY <1>1, ThreadMoves DEF TypeOK
<1>4. HandlersKnow' /\ RowsFollowEvents' /\ RevokersLooked' /\ SeenKeysExist'
      /\ BarredKeysRevoked'
  BY <1>1, <1>2 DEF HandlersKnow, RowsFollowEvents, RevokersLooked, Entitled, SeenKeysExist,
                    BarredKeysRevoked
<1> QED
  BY <1>1, <1>3, <1>4
-----------------------------------------------------------------------------
LEMMA BillingInvariant == Spec => []BillingInv
<1>1. Init => BillingInv
  <2> SUFFICES ASSUME Init PROVE BillingInv
    OBVIOUS
  <2> USE Disjoint
  <2>1. subs \in [Users -> Rows] /\ pc \in [Handlers \cup Gates -> Places]
    BY DEF Init, Rows, Statuses, Places
  <2>2. TypeOK
    BY DEF Init, TypeOK
  <2> QED
    BY <2>1, <2>2 DEF Init, BillingInv, HandlersKnow, RowsFollowEvents, RevokersLooked,
                      SeenKeysExist, BarredKeysRevoked
<1>2. BillingInv /\ [Next]_vars => BillingInv'
  <2> SUFFICES ASSUME BillingInv, [Next]_vars PROVE BillingInv'
    OBVIOUS
  <2>1. CASE UNCHANGED vars
    BY <2>1 DEF vars, tables, threads, history, BillingInv, TypeOK, HandlersKnow,
                RowsFollowEvents, RevokersLooked, Entitled, SeenKeysExist, BarredKeysRevoked
  <2>2. ASSUME NEW h \in Handlers,
               \/ Receive(h) \/ Ignore(h) \/ Sync(h) \/ SyncFails(h) \/ Check(h)
               \/ Revoke(h) \/ RevokeFails(h)
        PROVE  BillingInv'
    BY <2>2, HandlerMovesBill, SyncBills, RevokeBills
  <2> QED
    BY <2>1, <2>2, TickBills, CheckoutBills, IssueKeyBills, GateBills DEF Next
<1> QED
  BY <1>1, <1>2, PTL DEF Spec

(* Types, whatever the order and number of the webhooks. *)
THEOREM BillingTypes == Spec => []TypeOK
<1>1. BillingInv => TypeOK
  BY DEF BillingInv
<1> QED
  BY <1>1, BillingInvariant, PTL

(* A key that the loss of a subscription was to revoke is revoked for good *)
(* and lets nobody in any more.                                            *)
THEOREM LostKeysOpenNothing == Spec => LossStopsAccess
<1>1. BillingInv /\ [Next]_vars =>
        [\A g \in Gates :
            pc[g] = "new" /\ CredOf[g] \in barred => pc'[g] \in {"new", "denied"}]_vars
  <2> SUFFICES ASSUME BillingInv, Next, NEW g \in Gates, pc[g] = "new", CredOf[g] \in barred
               PROVE  pc'[g] \in {"new", "denied"}
    OBVIOUS
  <2>1. CredOf[g] \in Keys /\ keys[CredOf[g]] = "revoked"
    BY DEF BillingInv, BarredKeysRevoked, TypeOK
  <2>2. CredOf[g] \notin Users /\ CredOf[g] # None
    BY <2>1, BillingAssumption
  <2>3. ~(AdmitUngated(g) \/ Identify(g) \/ Decide(g))
    BY <2>1, <2>2 DEF AdmitUngated, Identify, Decide, Goto
  <2>4. ASSUME NEW h \in Handlers,
               \/ Receive(h) \/ Ignore(h) \/ Sync(h) \/ SyncFails(h) \/ Check(h)
               \/ Revoke(h) \/ RevokeFails(h)
        PROVE  pc'[g] = pc[g]
    BY <2>4, Disjoint DEF Receive, Ignore, Sync, SyncFails, Check, Revoke, RevokeFails, Goto,
                          BillingInv
  <2>5. ASSUME NEW f \in Gates,
               AdmitUngated(f) \/ Identify(f) \/ TurnAway(f) \/ Decide(f)
        PROVE  pc'[g] \in {"new", "denied"}
    <3>1. pc' = [pc EXCEPT ![f] = pc'[f]] /\ (f = g => pc'[f] = "denied")
      BY <2>3, <2>5 DEF AdmitUngated, Identify, TurnAway, Decide, Goto, BillingInv
    <3> QED
      BY <3>1 DEF BillingInv
  <2>6. ASSUME Tick \/ (\E c \in Checkouts : Checkout(c)) \/ (\E k \in Keys : IssueKey(k))
        PROVE  pc'[g] = pc[g]
    BY <2>6 DEF Tick, Checkout, IssueKey, threads
  <2> QED
    BY <2>4, <2>5, <2>6 DEF Next
<1> QED
  BY <1>1, BillingInvariant, PTL DEF Spec, LossStopsAccess

(* A webhook that revokes a paying user's keys has been overtaken by       *)
(* another write of that user's subscription since it looked.              *)
THEOREM OnlyRacesRevokeThePaying == Spec => RevokesOnlyTheUnentitled
<1>1. BillingInv /\ [Next]_vars =>
        [\A k \in Keys :
            keys[k] = "active" /\ keys'[k] = "revoked" =>
                \/ ~Entitled(OwnerOf[k])
                \/ \E h \in raced : pc[h] = "revoke" /\ target[h] = OwnerOf[k]]_vars
  <2> SUFFICES ASSUME BillingInv, Next, NEW k \in Keys,
                      keys[k] = "active", keys'[k] = "revoked", ~Entitled(OwnerOf[k]) = FALSE
               PROVE  \E h \in raced : pc[h] = "revoke" /\ target[h] = OwnerOf[k]
    OBVIOUS
  <2>1. PICK h \in Handlers : Revoke(h)
    <3>1. ASSUME NEW j \in Keys, IssueKey(j) PROVE keys'[k] \in {keys[k], "active"}
      BY <3>1 DEF IssueKey, BillingInv, TypeOK
    <3> QED
      BY <3>1 DEF Next, Tick, Checkout, Receive, Ignore, Sync, SyncFails, Check, RevokeFails,
                  AdmitUngated, Identify, TurnAway, Decide, tables
  <2>2. pc[h] = "revoke" /\ target[h] = OwnerOf[k]
    BY <2>1 DEF Revoke, Goto
  <2>3. h \in raced
    BY <2>2 DEF BillingInv, RevokersLooked
  <2> QED
    BY <2>2, <2>3
<1> QED
  BY <1>1, BillingInvariant, PTL DEF Spec, RevokesOnlyTheUnentitled

(* An event delivered again, with no other write in between, leaves the    *)
(* subscription as it is.                                                  *)
THEOREM RedeliveryChangesNothing == Spec => RedeliveryIsIdempotent
<1>1. BillingInv /\ [Next]_vars =>
        [\A h \in Handlers :
            pc[h] = "sync" /\ pc'[h] = "check" /\ lastSync[target[h]] = on[h]
                => subs' = subs]_vars
  <2> SUFFICES ASSUME BillingInv, Next, NEW h \in Handlers, pc[h] = "sync", pc'[h] = "check",
                      lastSync[target[h]] = on[h]
               PROVE  subs' = subs
    OBVIOUS
  <2> DEFINE e == on[h]
             u == target[h]
  <2>1. e \in Events /\ u \in Users
    BY DEF BillingInv, HandlersKnow
  <2>2. CASE Sync(h)
    <3>1. subs' = [subs EXCEPT ![u] = Synced(subs[u], FinalStatus(e), e.customer, e.until)]
      BY <2>2 DEF Sync, Write
    <3>2. /\ subs \in [Users -> Rows]
          /\ subs[u].status = FinalStatus(e)
          /\ e.customer # None => subs[u].customer = e.customer
          /\ e.until > 0 => subs[u].until = e.until
      BY <2>1 DEF BillingInv, RowsFollowEvents
    <3>3. Synced(subs[u], FinalStatus(e), e.customer, e.until) =
            [status |-> subs[u].status, customer |-> subs[u].customer, until |-> subs[u].until]
      BY <3>2 DEF Synced
    <3>4. subs[u] =
            [status |-> subs[u].status, customer |-> subs[u].customer, until |-> subs[u].until]
      BY <2>1, <3>2 DEF Rows
    <3> QED
      BY <2>1, <3>1, <3>2, <3>3, <3>4
  <2>3. CASE ~Sync(h)
    <3>1. ASSUME NEW t \in (Handlers \cup Gates) \ {h}, pc' = [pc EXCEPT ![t] = pc'[t]]
          PROVE  FALSE
      BY <3>1 DEF BillingInv
    <3>2. ~\E c \in Checkouts : Checkout(c)
      BY DEF Checkout, threads
    <3>3. ASSUME NEW t \in Handlers, t # h PROVE ~Sync(t)
      <4>1. ASSUME Sync(t) PROVE pc' = [pc EXCEPT ![t] = pc'[t]]
        BY <4>1 DEF Sync, Goto, BillingInv
      <4> QED
        BY <3>1, <3>3, <4>1
    <3> QED
      BY <2>3, <3>2, <3>3 DEF Next, Tick, IssueKey, Receive, Ignore, SyncFails, Check, Revoke,
                              RevokeFails, AdmitUngated, Identify, TurnAway, Decide, tables
  <2> QED
    BY <2>2, <2>3
<1> QED
  BY <1>1, BillingInvariant, PTL DEF Spec, RedeliveryIsIdempotent
=============================================================================
