----------------------------- MODULE FerretQueue -----------------------------
(***************************************************************************)
(* The bounded multi-producer multi-consumer ring of src/src/queue.c, at   *)
(* the granularity of its shared-memory accesses: every load, CAS, data    *)
(* access and sequence store of fp_queue_push and fp_queue_pop is a step.  *)
(*                                                                         *)
(* The order the code requires of the memory is the one a step-by-step     *)
(* model gives: the slot sequence is loaded with acquire and stored with   *)
(* release around the plain accesses of slot->data, and a relaxed load of  *)
(* head or tail that returns an old value cannot be told from a load done  *)
(* earlier by a thread that was then descheduled.                          *)
(*                                                                         *)
(* 64-bit positions are natural numbers: they do not wrap in the life of a *)
(* process.                                                                *)
(***************************************************************************)
EXTENDS Integers, Sequences

CONSTANTS
    Producers,   (* threads that call fp_queue_push on this queue *)
    Consumers,   (* threads that call fp_queue_pop on this queue *)
    Items,       (* the pointers pushed *)
    NoItem,      (* NULL *)
    Capacity,    (* queue->capacity *)
    MaxPush      (* bound: no push starts once this many positions are claimed *)

(* fp_queue_create never leaves the capacity 0. *)
ASSUME QueueAssumption ==
    /\ Producers \cap Consumers = {}
    /\ NoItem \notin Items
    /\ Capacity \in Nat \ {0}
    /\ MaxPush \in Nat

VARIABLES
    head,        (* queue->head: positions handed to consumers *)
    tail,        (* queue->tail: positions handed to producers *)
    seq,         (* slots[i].seq *)
    data,        (* slots[i].data *)
    pc,          (* the next access of each thread *)
    pos,         (* the local pos of push and pop *)
    item,        (* push's argument, or the data pop has read *)
    pushed       (* history: the item pushed at each position *)

vars == <<head, tail, seq, data, pc, pos, item, pushed>>

Threads == Producers \cup Consumers
Slots == 0 .. (Capacity - 1)
Slot(n) == n % Capacity

(* A thread that owns a slot: from its successful CAS to its seq store. *)
Filling(p) == pc[p] \in {"write", "publish"}
Draining(c) == pc[c] \in {"read", "release"}

Init ==
    /\ head = 0
    /\ tail = 0
    /\ seq = [i \in Slots |-> i]
    /\ data = [i \in Slots |-> NoItem]
    /\ pc = [t \in Threads |-> "idle"]
    /\ pos = [t \in Threads |-> 0]
    /\ item = [t \in Threads |-> NoItem]
    /\ pushed = <<>>

Goto(t, from, to) ==
    /\ pc[t] = from
    /\ pc' = [pc EXCEPT ![t] = to]

(* t leaves its call: its locals are gone. *)
Return(t, from) ==
    /\ Goto(t, from, "idle")
    /\ pos' = [pos EXCEPT ![t] = 0]
    /\ item' = [item EXCEPT ![t] = NoItem]
-----------------------------------------------------------------------------
(* Plausible mistakes, never part of Next: the properties must catch them. *)

(* tail advanced by a plain store instead of a CAS. *)
ClaimWithoutCas(p) ==
    /\ Goto(p, "cas", "write")
    /\ tail' = pos[p] + 1
    /\ pushed' = Append(SubSeq(pushed, 1, pos[p]), item[p])
    /\ UNCHANGED <<head, seq, data, pos, item>>

(* The sequence is stored before the data. *)
ClaimPublishes(p) ==
    /\ tail = pos[p]
    /\ Goto(p, "cas", "write")
    /\ tail' = tail + 1
    /\ pushed' = Append(pushed, item[p])
    /\ seq' = [seq EXCEPT ![Slot(pos[p])] = pos[p] + 1]
    /\ UNCHANGED <<head, data, pos, item>>

(* The sequence is left at pos. *)
PublishNothing(p) ==
    /\ Return(p, "publish")
    /\ UNCHANGED <<head, tail, seq, data, pushed>>

(* diff <= 0 taken for an empty queue. *)
EmptyLoose(c) ==
    /\ seq[Slot(pos[c])] <= pos[c] + 1
    /\ Return(c, "seq")
    /\ UNCHANGED <<head, tail, seq, data, pushed>>

(* The slot is released one position early. *)
ReleaseEarly(c) ==
    /\ Return(c, "release")
    /\ seq' = [seq EXCEPT ![Slot(pos[c])] = pos[c] + Capacity - 1]
    /\ UNCHANGED <<head, tail, data, pushed>>
-----------------------------------------------------------------------------
(* fp_queue_push *)

PushStart(p, v) ==
    /\ tail < MaxPush
    /\ Goto(p, "idle", "seq")
    /\ item' = [item EXCEPT ![p] = v]
    /\ pos' = [pos EXCEPT ![p] = tail]
    /\ UNCHANGED <<head, tail, seq, data, pushed>>

(* diff == 0: the slot is free for this position. *)
PushSlotFree(p) ==
    /\ seq[Slot(pos[p])] = pos[p]
    /\ Goto(p, "seq", "cas")
    /\ UNCHANGED <<head, tail, seq, data, pos, item, pushed>>

(* diff < 0: the slot still belongs to the previous lap; EAGAIN. *)
PushFull(p) ==
    /\ seq[Slot(pos[p])] < pos[p]
    /\ Return(p, "seq")
    /\ UNCHANGED <<head, tail, seq, data, pushed>>

(* diff > 0: another producer took the position; load tail again. *)
PushLate(p) ==
    /\ seq[Slot(pos[p])] > pos[p]
    /\ Goto(p, "seq", "reload")
    /\ UNCHANGED <<head, tail, seq, data, pos, item, pushed>>

PushReload(p) ==
    /\ Goto(p, "reload", "seq")
    /\ pos' = [pos EXCEPT ![p] = tail]
    /\ UNCHANGED <<head, tail, seq, data, item, pushed>>

PushClaim(p) ==
    /\ tail = pos[p]
    /\ Goto(p, "cas", "write")
    /\ tail' = tail + 1
    /\ pushed' = Append(pushed, item[p])
    /\ UNCHANGED <<head, seq, data, pos, item>>

(* The weak CAS fails, because tail moved or for no reason at all; either *)
(* way it leaves the tail it saw in pos.                                   *)
PushClaimFails(p) ==
    /\ Goto(p, "cas", "seq")
    /\ pos' = [pos EXCEPT ![p] = tail]
    /\ UNCHANGED <<head, tail, seq, data, item, pushed>>

PushWrite(p) ==
    /\ Goto(p, "write", "publish")
    /\ data' = [data EXCEPT ![Slot(pos[p])] = item[p]]
    /\ UNCHANGED <<head, tail, seq, pos, item, pushed>>

PushPublish(p) ==
    /\ Return(p, "publish")
    /\ seq' = [seq EXCEPT ![Slot(pos[p])] = pos[p] + 1]
    /\ UNCHANGED <<head, tail, data, pushed>>

PushStep(p) ==
    \/ PushSlotFree(p) \/ PushFull(p) \/ PushLate(p) \/ PushReload(p)
    \/ PushClaim(p) \/ PushClaimFails(p) \/ PushWrite(p) \/ PushPublish(p)
-----------------------------------------------------------------------------
(* fp_queue_pop *)

PopStart(c) ==
    /\ Goto(c, "idle", "seq")
    /\ pos' = [pos EXCEPT ![c] = head]
    /\ UNCHANGED <<head, tail, seq, data, item, pushed>>

PopSlotReady(c) ==
    /\ seq[Slot(pos[c])] = pos[c] + 1
    /\ Goto(c, "seq", "cas")
    /\ UNCHANGED <<head, tail, seq, data, pos, item, pushed>>

(* diff < 0: nothing published at this position; EAGAIN. *)
PopEmpty(c) ==
    /\ seq[Slot(pos[c])] < pos[c] + 1
    /\ Return(c, "seq")
    /\ UNCHANGED <<head, tail, seq, data, pushed>>

PopLate(c) ==
    /\ seq[Slot(pos[c])] > pos[c] + 1
    /\ Goto(c, "seq", "reload")
    /\ UNCHANGED <<head, tail, seq, data, pos, item, pushed>>

PopReload(c) ==
    /\ Goto(c, "reload", "seq")
    /\ pos' = [pos EXCEPT ![c] = head]
    /\ UNCHANGED <<head, tail, seq, data, item, pushed>>

PopClaim(c) ==
    /\ head = pos[c]
    /\ Goto(c, "cas", "read")
    /\ head' = head + 1
    /\ UNCHANGED <<tail, seq, data, pos, item, pushed>>

PopClaimFails(c) ==
    /\ Goto(c, "cas", "seq")
    /\ pos' = [pos EXCEPT ![c] = head]
    /\ UNCHANGED <<head, tail, seq, data, item, pushed>>

PopRead(c) ==
    /\ Goto(c, "read", "release")
    /\ item' = [item EXCEPT ![c] = data[Slot(pos[c])]]
    /\ UNCHANGED <<head, tail, seq, data, pos, pushed>>

PopRelease(c) ==
    /\ Return(c, "release")
    /\ seq' = [seq EXCEPT ![Slot(pos[c])] = pos[c] + Capacity]
    /\ UNCHANGED <<head, tail, data, pushed>>

PopStep(c) ==
    \/ PopSlotReady(c) \/ PopEmpty(c) \/ PopLate(c) \/ PopReload(c)
    \/ PopClaim(c) \/ PopClaimFails(c) \/ PopRead(c) \/ PopRelease(c)
-----------------------------------------------------------------------------
Next ==
    \/ \E p \in Producers : (\E v \in Items : PushStart(p, v)) \/ PushStep(p)
    \/ \E c \in Consumers : PopStart(c) \/ PopStep(c)

Spec == Init /\ [][Next]_vars

(* Threads are scheduled: a call that has begun goes on, a consumer always *)
(* calls again (the worker's loop and the waiting request's), and a weak   *)
(* CAS does not fail for no reason for ever.                               *)
Fairness ==
    /\ \A p \in Producers : WF_vars(PushStep(p)) /\ SF_vars(PushClaim(p))
    /\ \A c \in Consumers : WF_vars(PopStart(c) \/ PopStep(c)) /\ SF_vars(PopClaim(c))

FairSpec == Spec /\ Fairness
-----------------------------------------------------------------------------
(* Types; in a pop past its read, and only there, a consumer holds an item. *)
TypeOK ==
    /\ head \in Nat
    /\ tail \in Nat
    /\ seq \in [Slots -> Nat]
    /\ data \in [Slots -> Items \cup {NoItem}]
    /\ pc \in [Threads -> {"idle", "seq", "reload", "cas",
                           "write", "publish", "read", "release"}]
    /\ \A p \in Producers : pc[p] \notin {"read", "release"}
    /\ \A c \in Consumers : pc[c] \notin {"write", "publish"}
    /\ pos \in [Threads -> Nat]
    /\ item \in [Threads -> Items \cup {NoItem}]
    /\ \A p \in Producers : item[p] \in Items <=> pc[p] # "idle"
    /\ \A c \in Consumers : item[c] \in Items <=> pc[c] = "release"
    /\ pushed \in Seq(Items)
    /\ Len(pushed) = tail

(* The ring never holds more than its capacity: backpressure works         *)
(* (fp_queue_push answers EAGAIN in time, whatever the interleaving).      *)
WithinCapacity == head <= tail /\ tail <= head + Capacity

(* Two threads between CAS and seq store are never on the same slot, so    *)
(* the plain accesses of slot->data do not race.                           *)
NoSlotRace ==
    \A t, u \in Threads :
        /\ t # u
        /\ pc[t] \in {"write", "publish", "read", "release"}
        /\ pc[u] \in {"write", "publish", "read", "release"}
        => Slot(pos[t]) # Slot(pos[u])

(* A consumer returns the very item pushed at the position it claimed, and *)
(* no other consumer claims that position: exactly once, in push order.    *)
PopsWhatWasPushed ==
    \A c \in Consumers :
        /\ Draining(c) => pos[c] < head /\ head <= Len(pushed)
        /\ pc[c] = "release" => item[c] = pushed[pos[c] + 1]
        /\ \A d \in Consumers \ {c} : Draining(c) /\ Draining(d) => pos[c] # pos[d]
-----------------------------------------------------------------------------
(* The inductive invariant, for Capacity > 1: what the sequence number of  *)
(* each slot says.  Positions head .. head + Capacity - 1 cover each slot  *)
(* once; those before tail are taken, those from tail on are free.         *)

PosOK ==
    /\ \A p \in Producers : pos[p] <= tail
    /\ \A c \in Consumers : pos[c] <= head

TakenSlots ==
    \A n \in head .. (tail - 1) :
        \/ /\ seq[Slot(n)] = n
           /\ \E p \in Producers : Filling(p) /\ pos[p] = n
        \/ /\ seq[Slot(n)] = n + 1
           /\ data[Slot(n)] = pushed[n + 1]

FreeSlots ==
    \A n \in tail .. (head + Capacity - 1) :
        \/ seq[Slot(n)] = n
        \/ /\ seq[Slot(n)] = n - Capacity + 1
           /\ \E c \in Consumers : Draining(c) /\ pos[c] = n - Capacity

Fillers ==
    \A p \in Producers :
        Filling(p) =>
            /\ head <= pos[p] /\ pos[p] < tail
            /\ seq[Slot(pos[p])] = pos[p]
            /\ pushed[pos[p] + 1] = item[p]
            /\ pc[p] = "publish" => data[Slot(pos[p])] = item[p]
            /\ \A q \in Producers : Filling(q) /\ pos[q] = pos[p] => q = p

Drainers ==
    \A c \in Consumers :
        Draining(c) =>
            /\ pos[c] < head /\ tail <= pos[c] + Capacity
            /\ seq[Slot(pos[c])] = pos[c] + 1
            /\ pc[c] = "read" => data[Slot(pos[c])] = pushed[pos[c] + 1]
            /\ pc[c] = "release" => item[c] = pushed[pos[c] + 1]
            /\ \A d \in Consumers : Draining(d) /\ pos[d] = pos[c] => d = c

(* What a thread about to CAS has seen still holds if its CAS succeeds. *)
CasJustified ==
    /\ \A p \in Producers :
         pc[p] = "cas" /\ pos[p] = tail => seq[Slot(tail)] = tail
    /\ \A c \in Consumers :
         pc[c] = "cas" /\ pos[c] = head => seq[Slot(head)] = head + 1

(* What fp_queue_push and fp_queue_pop rely on: a slot whose number equals *)
(* a position is that producer's alone, one whose number is the position   *)
(* plus one holds its item, and a CAS that succeeds proves that the number *)
(* read before it still stands.                                            *)
RingInv ==
    /\ TypeOK
    /\ WithinCapacity
    /\ PosOK
    /\ TakenSlots
    /\ FreeSlots
    /\ Fillers
    /\ Drainers
    /\ CasJustified
-----------------------------------------------------------------------------
(* The queue is a bounded FIFO: a push takes effect at its CAS on tail, a  *)
(* pop at its CAS on head.                                                 *)
AbstractPhase(t) ==
    CASE pc[t] = "idle" -> "out"
      [] pc[t] \in {"seq", "reload", "cas"} -> "calling"
      [] OTHER -> "done"

AbstractHand(t) == IF pc[t] = "read" THEN pushed[pos[t] + 1] ELSE item[t]

Fifo == INSTANCE BoundedFifo WITH
    Putters <- Producers,
    Getters <- Consumers,
    None <- NoItem,
    fifo <- SubSeq(pushed, head + 1, tail),
    phase <- [t \in Threads |-> AbstractPhase(t)],
    hand <- [t \in Threads |-> AbstractHand(t)]

(* Every behaviour of the ring is one of the bounded FIFO. *)
ImplementsFifo == Fifo!Spec

(* Whatever is pushed is handed out by some pop that returns. *)
EventuallyDelivered ==
    \A n \in 0 .. (MaxPush - 1) :
        tail > n ~> head > n /\ \A c \in Consumers : Draining(c) => pos[c] # n
=============================================================================
