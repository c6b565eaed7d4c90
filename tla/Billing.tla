-------------------------------- MODULE Billing --------------------------------
(***************************************************************************)
(* Subscriptions, API keys and the gate of Expert mode: checkouts and      *)
(* payment webhooks write the subscriptions table, the loss of a           *)
(* subscription revokes the user's API keys, and every Expert request is   *)
(* let in or turned away by what the tables say (fp_handle_checkout_       *)
(* session, fp_handle_stripe_webhook, fp_handle_api_key_issue,             *)
(* fp_is_expert_authorized).  Each SQL statement is atomic; a handler is   *)
(* several, and handlers run concurrently.                                 *)
(*                                                                         *)
(* The payment provider is external: it delivers any event at any time, in *)
(* any order and as often as it likes.  A checkout makes a customer and a  *)
(* subscription id together, so one id stands for both.  Keys are of the   *)
(* "expert" scope; audit rows are left out, nothing reads them.            *)
(***************************************************************************)
EXTENDS Naturals, FiniteSets

CONSTANTS
    Users,
    Keys,        (* API keys that may be issued *)
    OwnerOf,     (* the user of each *)
    Checkouts,   (* checkout requests; each names the ids it makes up *)
    BuyerOf,     (* the user of each *)
    Handlers,    (* threads, one per webhook delivery *)
    Events,      (* [user, customer, type, status, until] *)
    Gates,       (* threads, one per Expert request *)
    CredOf,      (* what each shows: a key, a user's token, or None *)
    None,        (* a missing field or header *)
    Periods,     (* lengths of a subscription *)
    LastTick     (* bound: the clock stops there *)

(* A key is no user's token, and a status that is none of those that       *)
(* entitle counts as "canceled".                                           *)
ASSUME BillingAssumption ==
    /\ OwnerOf \in [Keys -> Users]
    /\ BuyerOf \in [Checkouts -> Users]
    /\ CredOf \in [Gates -> Users \cup Keys \cup {None}]
    /\ Events \subseteq [user : Users \cup {None}, customer : Checkouts \cup {None},
                        type : STRING, until : Nat,
                        status : {"", "active", "trialing", "past_due", "canceled"}]
    /\ Periods \subseteq Nat \ {0}
    /\ LastTick \in Nat
    /\ None \notin Users \cup Keys \cup Checkouts \cup Events
    /\ Users \cap Keys = {} /\ Handlers \cap Gates = {} /\ Checkouts \cap Events = {}

VARIABLES
    now,
    subs,       (* subscriptions, by user *)
    keys,       (* api_keys.status *)
    pc,         (* where each handler and gate is *)
    on,         (* the event a handler serves *)
    target,     (* the user it is for *)
    bought,     (* checkouts done *)
    lastSync,   (* history: the event or checkout last written for a user *)
    seen,       (* history: keys its user had when a handler wrote *)
    barred,     (* history: keys that a loss of subscription was to revoke *)
    raced       (* history: handlers about to revoke whose user was written again *)

tables == <<subs, keys, bought>>
threads == <<pc, on, target>>
history == <<lastSync, seen, barred, raced>>
vars == <<now, tables, threads, history>>

Init ==
    /\ now = 0
    /\ subs = [u \in Users |-> [status |-> "none", customer |-> None, until |-> 0]]
    /\ keys = [k \in Keys |-> "none"]
    /\ bought = {}
    /\ pc = [t \in Handlers \cup Gates |-> "new"]
    /\ on = [h \in Handlers |-> None]
    /\ target = [h \in Handlers |-> None]
    /\ lastSync = [u \in Users |-> None]
    /\ seen = [h \in Handlers |-> {}]
    /\ barred = {}
    /\ raced = {}

Goto(t, from, to) ==
    /\ pc[t] = from
    /\ pc' = [pc EXCEPT ![t] = to]

(* fp_status_allows_entitlement; no row, or no known status, is no.        *)
Entitled(u) ==
    /\ subs[u].status \in {"active", "trialing", "past_due"}
    /\ subs[u].until > 0 => subs[u].until >= now

(* A plausible mistake, never part of Next: the time left is kept on top.  *)
SyncedOnTop(row, status, customer, until) ==
    [status |-> status,
     customer |-> IF customer # None THEN customer ELSE row.customer,
     until |-> row.until + until]

(* fp_auth_sync_subscription: what an upsert leaves in a row; an id or a   *)
(* period that is missing leaves the old one.                              *)
Synced(row, status, customer, until) ==
    [status |-> status,
     customer |-> IF customer # None THEN customer ELSE row.customer,
     until |-> IF until > 0 THEN until ELSE row.until]

Write(u, status, customer, until, by) ==
    /\ subs' = [subs EXCEPT ![u] = Synced(@, status, customer, until)]
    /\ lastSync' = [lastSync EXCEPT ![u] = by]
    /\ raced' = raced \cup {h \in Handlers : pc[h] = "revoke" /\ target[h] = u}

(* The status an event stands for: its own, or one its type tells, or else *)
(* "active".                                                               *)
FinalStatus(e) ==
    CASE e.status # "" -> e.status
      [] e.status = "" /\ e.type = "deleted" -> "canceled"
      [] e.status = "" /\ e.type = "payment_failed" -> "past_due"
      [] OTHER -> "active"
-----------------------------------------------------------------------------
(* Plausible mistakes, never part of Next: the properties must catch them. *)

(* Only the newest key, here any one of them, is revoked. *)
RevokeOne(h) ==
    /\ Goto(h, "revoke", "done")
    /\ \E k \in Keys : /\ OwnerOf[k] = target[h] /\ keys[k] = "active"
                       /\ keys' = [keys EXCEPT ![k] = "revoked"]
    /\ barred' = barred \cup seen[h]
    /\ UNCHANGED <<now, subs, bought, on, target, lastSync, seen, raced>>

(* Revoked whenever the event is not an "active" one, entitled or not.     *)
CheckByStatus(h) ==
    /\ Goto(h, "check", IF FinalStatus(on[h]) = "active" THEN "done" ELSE "revoke")
    /\ UNCHANGED <<now, tables, on, target, history>>

(* The type of the event written where its status belongs. *)
SyncType(h) ==
    /\ Goto(h, "sync", "check")
    /\ Write(target[h], on[h].type, on[h].customer, on[h].until, on[h])
    /\ seen' = [seen EXCEPT ![h] = {k \in Keys : OwnerOf[k] = target[h] /\ keys[k] # "none"}]
    /\ UNCHANGED <<now, keys, bought, on, target, barred>>
-----------------------------------------------------------------------------
(* fp_handle_checkout_session: a stub that activates at once. *)
Checkout(c) ==
    /\ c \notin bought
    /\ bought' = bought \cup {c}
    /\ \E n \in Periods : Write(BuyerOf[c], "active", c, now + n, c)
    /\ UNCHANGED <<now, keys, threads, seen, barred>>

(* fp_handle_api_key_issue: any authenticated user gets one. *)
IssueKey(k) ==
    /\ keys[k] = "none"
    /\ keys' = [keys EXCEPT ![k] = "active"]
    /\ UNCHANGED <<now, subs, bought, threads, history>>
-----------------------------------------------------------------------------
(* fp_handle_stripe_webhook *)

(* The user an event is for: the one it names, or one with its customer.   *)
Matches(u, e) ==
    IF e.user # None THEN u = e.user
    ELSE e.customer # None /\ subs[u].customer = e.customer

Receive(h) ==
    \E e \in Events, u \in Users :
        /\ Matches(u, e)
        /\ Goto(h, "new", "sync")
        /\ on' = [on EXCEPT ![h] = e]
        /\ target' = [target EXCEPT ![h] = u]
        /\ UNCHANGED <<now, tables, history>>

(* 202 "No matching user for webhook" *)
Ignore(h) ==
    /\ \E e \in Events : \A u \in Users : ~Matches(u, e)
    /\ Goto(h, "new", "done")
    /\ UNCHANGED <<now, tables, on, target, history>>

Sync(h) ==
    /\ Goto(h, "sync", "check")
    /\ Write(target[h], FinalStatus(on[h]), on[h].customer, on[h].until, on[h])
    /\ seen' = [seen EXCEPT ![h] = {k \in Keys : OwnerOf[k] = target[h] /\ keys[k] # "none"}]
    /\ UNCHANGED <<now, keys, bought, on, target, barred>>

(* The statement fails; the handler does not look, and goes on. *)
SyncFails(h) ==
    /\ Goto(h, "sync", "check")
    /\ seen' = [seen EXCEPT ![h] = {k \in Keys : OwnerOf[k] = target[h] /\ keys[k] # "none"}]
    /\ UNCHANGED <<now, tables, on, target, lastSync, barred, raced>>

(* fp_auth_has_active_subscription *)
Check(h) ==
    /\ Goto(h, "check", IF Entitled(target[h]) THEN "done" ELSE "revoke")
    /\ UNCHANGED <<now, tables, on, target, history>>

(* fp_auth_revoke_api_keys, and the answer 200, whether it worked or not.  *)
Revoke(h) ==
    /\ Goto(h, "revoke", "done")
    /\ keys' = [k \in Keys |->
                  IF OwnerOf[k] = target[h] /\ keys[k] = "active" THEN "revoked" ELSE keys[k]]
    /\ barred' = barred \cup seen[h]
    /\ UNCHANGED <<now, subs, bought, on, target, lastSync, seen, raced>>

RevokeFails(h) ==
    /\ Goto(h, "revoke", "done")
    /\ UNCHANGED <<now, tables, on, target, history>>
-----------------------------------------------------------------------------
(* fp_is_expert_authorized *)

(* A key from the environment; or none asked for, and none shown. *)
AdmitUngated(g) ==
    /\ CredOf[g] = None
    /\ Goto(g, "new", "granted")
    /\ UNCHANGED <<now, tables, on, target, history>>

(* fp_auth_api_key_allowed, or a valid access token. *)
Identify(g) ==
    /\ \/ CredOf[g] \in Users
       \/ CredOf[g] \in Keys /\ keys[CredOf[g]] = "active"
    /\ Goto(g, "new", "identified")
    /\ UNCHANGED <<now, tables, on, target, history>>

(* A key unknown or revoked is no access token either. *)
TurnAway(g) ==
    /\ CredOf[g] \in Keys /\ keys[CredOf[g]] # "active"
    /\ Goto(g, "new", "denied")
    /\ UNCHANGED <<now, tables, on, target, history>>

UserOf(g) == IF CredOf[g] \in Keys THEN OwnerOf[CredOf[g]] ELSE CredOf[g]

Decide(g) ==
    /\ Goto(g, "identified", IF Entitled(UserOf(g)) THEN "granted" ELSE "denied")
    /\ UNCHANGED <<now, tables, on, target, history>>

Tick ==
    /\ now < LastTick
    /\ now' = now + 1
    /\ UNCHANGED <<tables, threads, history>>
-----------------------------------------------------------------------------
Next ==
    \/ Tick
    \/ \E c \in Checkouts : Checkout(c)
    \/ \E k \in Keys : IssueKey(k)
    \/ \E h \in Handlers :
         \/ Receive(h) \/ Ignore(h) \/ Sync(h) \/ SyncFails(h) \/ Check(h)
         \/ Revoke(h) \/ RevokeFails(h)
    \/ \E g \in Gates : AdmitUngated(g) \/ Identify(g) \/ TurnAway(g) \/ Decide(g)

Spec == Init /\ [][Next]_vars
-----------------------------------------------------------------------------
(* Types of the state. *)
TypeOK ==
    /\ now \in 0 .. LastTick
    /\ \A u \in Users :
         /\ subs[u].status \in {"none", "active", "trialing", "past_due", "canceled"}
         /\ subs[u].customer \in Checkouts \cup {None}
         /\ subs[u].until \in Nat
    /\ keys \in [Keys -> {"none", "active", "revoked"}]
    /\ bought \subseteq Checkouts
    /\ \A h \in Handlers : pc[h] \in {"new", "sync", "check", "revoke", "done"}
    /\ \A g \in Gates : pc[g] \in {"new", "identified", "granted", "denied"}
    /\ on \in [Handlers -> Events \cup {None}]
    /\ target \in [Handlers -> Users \cup {None}]
    /\ lastSync \in [Users -> Events \cup Checkouts \cup {None}]
    /\ seen \in [Handlers -> SUBSET Keys]
    /\ barred \subseteq Keys
    /\ raced \subseteq Handlers

(* "On subscription loss, immediately revoke Expert entitlements and API   *)
(* key usage" (EXPERT_MODE.md:28): once a webhook that found its user      *)
(* without a subscription has revoked, no key the user had when it came    *)
(* opens the gate again, not even after a later checkout.                  *)
LossStopsAccess ==
    [][\A g \in Gates :
          pc[g] = "new" /\ CredOf[g] \in barred => pc'[g] \in {"new", "denied"}]_vars

(* Keys are revoked from users without a subscription only, unless, after  *)
(* the webhook looked and before it revokes, another handler has written   *)
(* the user's subscription.                                                *)
RevokesOnlyTheUnentitled ==
    [][\A k \in Keys :
          keys[k] = "active" /\ keys'[k] = "revoked" =>
              \/ ~Entitled(OwnerOf[k])
              \/ \E h \in raced : pc[h] = "revoke" /\ target[h] = OwnerOf[k]]_vars

(* "make handlers idempotent and retry-safe" (STEPS.md:48): an event       *)
(* delivered again, no other being written in between, changes nothing.    *)
RedeliveryIsIdempotent ==
    [][\A h \in Handlers :
          pc[h] = "sync" /\ pc'[h] = "check" /\ lastSync[target[h]] = on[h]
              => subs' = subs]_vars
=============================================================================
