-------------------------- MODULE FerretQueueProofs --------------------------
(***************************************************************************)
(* Proofs about FerretQueue for any number of threads, any items and any   *)
(* capacity above one (main.c never creates a smaller queue).              *)
(***************************************************************************)
EXTENDS FerretQueue, TLAPS
-----------------------------------------------------------------------------
(* The arithmetic of slots. *)

LEMMA SlotRange == \A n \in Nat : Slot(n) \in Slots
BY QueueAssumption DEF Slot, Slots

LEMMA SlotDivision ==
    \A n \in Nat : /\ n \div Capacity \in Nat
                   /\ n = Capacity * (n \div Capacity) + Slot(n)
BY QueueAssumption DEF Slot

LEMMA CapacityMultiple ==
    ASSUME NEW q \in Int, q # 0
    PROVE  Capacity * q >= Capacity \/ Capacity * q <= -Capacity
BY QueueAssumption

(* Positions less than a lap apart lie on different slots. *)
LEMMA SlotInjective ==
    ASSUME NEW m \in Nat, NEW n \in Nat, Slot(m) = Slot(n),
           m - n < Capacity, n - m < Capacity
    PROVE  m = n
<1> DEFINE a == m \div Capacity
           b == n \div Capacity
<1>1. /\ a \in Nat /\ m = Capacity * a + Slot(m)
      /\ b \in Nat /\ n = Capacity * b + Slot(n)
  BY SlotDivision
<1>2. Slot(m) \in Int /\ Slot(n) \in Int
  BY SlotRange, QueueAssumption DEF Slots
<1> HIDE DEF a, b
<1>3. Capacity * (a - b) = m - n
  BY <1>1, <1>2, QueueAssumption
<1>4. a - b = 0
  BY <1>1, <1>3, CapacityMultiple, QueueAssumption
<1> QED
  BY <1>1, <1>4

(* A position and the same position a lap later share a slot. *)
LEMMA SlotPeriodic == \A n \in Nat : Slot(n + Capacity) = Slot(n)
<1> SUFFICES ASSUME NEW n \in Nat PROVE Slot(n + Capacity) = Slot(n)
  OBVIOUS
<1> DEFINE a == (n + Capacity) \div Capacity
           b == n \div Capacity
<1>0. n + Capacity \in Nat
  BY QueueAssumption
<1>1. /\ a \in Nat /\ n + Capacity = Capacity * a + Slot(n + Capacity)
      /\ b \in Nat /\ n = Capacity * b + Slot(n)
  BY <1>0, SlotDivision
<1>2. Slot(n + Capacity) \in 0 .. (Capacity - 1) /\ Slot(n) \in 0 .. (Capacity - 1)
  BY <1>0, SlotRange DEF Slots
<1> HIDE DEF a, b
<1>3. Capacity * (a - b - 1) = Slot(n) - Slot(n + Capacity)
  BY <1>1, <1>2, QueueAssumption
<1>4. a - b - 1 = 0
  BY <1>1, <1>2, <1>3, CapacityMultiple, QueueAssumption
<1> QED
  BY <1>1, <1>2, <1>4, QueueAssumption

LEMMA SlotsDiffer ==
    \A m, n \in Nat : m # n /\ m - n < Capacity /\ n - m < Capacity
                        => Slot(m) # Slot(n)
BY SlotInjective
-----------------------------------------------------------------------------
(* The initial ring satisfies the inductive invariant. *)
LEMMA InitRing == ASSUME Capacity > 1 PROVE Init => RingInv
<1> SUFFICES ASSUME Init PROVE RingInv
  OBVIOUS
<1> USE QueueAssumption DEF Init
<1>1. TypeOK
  BY DEF TypeOK, Threads, Slots
<1>2. WithinCapacity /\ PosOK
  BY DEF WithinCapacity, PosOK, Threads
<1>3. TakenSlots /\ Fillers /\ Drainers /\ CasJustified
  BY DEF TakenSlots, Fillers, Drainers, CasJustified, Filling, Draining, Threads
<1>4. \A n \in 0 .. (Capacity - 1) : seq[Slot(n)] = n
  <2> SUFFICES ASSUME NEW n \in 0 .. (Capacity - 1) PROVE Slot(n) = n
    BY DEF Slots
  <2> QED
    BY DEF Slot
<1>5. FreeSlots
  BY <1>4 DEF FreeSlots
<1> QED
  BY <1>1, <1>2, <1>3, <1>5 DEF RingInv
-----------------------------------------------------------------------------
(* A step that touches neither the ring nor the locals of a thread that    *)
(* owns a slot keeps all that the ring says of the slots.                  *)
LEMMA QuietStep ==
    ASSUME RingInv, TypeOK', PosOK', CasJustified',
           UNCHANGED <<head, tail, seq, data, pushed>>,
           \A t \in Threads : /\ Filling(t)' <=> Filling(t)
                              /\ Draining(t)' <=> Draining(t)
                              /\ Filling(t) \/ Draining(t) =>
                                    /\ pc'[t] = pc[t]
                                    /\ pos'[t] = pos[t]
                                    /\ item'[t] = item[t]
    PROVE  RingInv'
<1> USE DEF RingInv, Threads
<1>1. WithinCapacity'
  BY DEF WithinCapacity
<1>2. TakenSlots'
  BY DEF TakenSlots
<1>3. FreeSlots'
  BY DEF FreeSlots
<1>4. Fillers'
  BY DEF Fillers
<1>5. Drainers'
  BY DEF Drainers
<1> QED
  BY <1>1, <1>2, <1>3, <1>4, <1>5
-----------------------------------------------------------------------------
(* fp_queue_push keeps the invariant: first the accesses that change only  *)
(* the caller's locals, then the CAS, the write and the publication.       *)

LEMMA PushQuiet ==
    ASSUME Capacity > 1, RingInv, NEW p \in Producers,
           \/ \E v \in Items : PushStart(p, v)
           \/ PushSlotFree(p) \/ PushFull(p) \/ PushLate(p)
           \/ PushReload(p) \/ PushClaimFails(p)
    PROVE  RingInv'
<1> USE QueueAssumption DEF RingInv, Threads
<1>1. UNCHANGED <<head, tail, seq, data, pushed>>
  BY DEF PushStart, PushSlotFree, PushFull, PushLate, PushReload, PushClaimFails
<1>2. /\ pc[p] \in {"idle", "seq", "reload", "cas"}
      /\ pc'[p] \in {"idle", "seq", "reload", "cas"}
      /\ \A t \in Threads \ {p} : /\ pc'[t] = pc[t]
                                  /\ pos'[t] = pos[t]
                                  /\ item'[t] = item[t]
  BY DEF PushStart, PushSlotFree, PushFull, PushLate, PushReload, PushClaimFails,
         Goto, Return, TypeOK
<1>3. TypeOK' /\ PosOK' /\ CasJustified'
  <2>1. CASE \E v \in Items : PushStart(p, v)
    BY <2>1 DEF PushStart, Goto, TypeOK, PosOK, CasJustified
  <2>2. CASE PushSlotFree(p)
    BY <2>2 DEF PushSlotFree, Goto, TypeOK, PosOK, CasJustified
  <2>3. CASE PushFull(p)
    BY <2>3 DEF PushFull, Return, Goto, TypeOK, PosOK, CasJustified
  <2>4. CASE PushLate(p)
    BY <2>4 DEF PushLate, Goto, TypeOK, PosOK, CasJustified
  <2>5. CASE PushReload(p)
    BY <2>5 DEF PushReload, Goto, TypeOK, PosOK, CasJustified
  <2>6. CASE PushClaimFails(p)
    BY <2>6 DEF PushClaimFails, Goto, TypeOK, PosOK, CasJustified
  <2> QED
    BY <2>1, <2>2, <2>3, <2>4, <2>5, <2>6
<1>4. \A t \in Threads : /\ Filling(t)' <=> Filling(t)
                         /\ Draining(t)' <=> Draining(t)
                         /\ Filling(t) \/ Draining(t) => t # p
  BY <1>2 DEF Filling, Draining
<1> QED
  BY <1>1, <1>2, <1>3, <1>4, QuietStep

LEMMA PushClaimRing ==
    ASSUME Capacity > 1, RingInv, NEW p \in Producers, PushClaim(p)
    PROVE  RingInv'
<1> USE QueueAssumption DEF RingInv, Threads
<1>1. /\ tail = pos[p] /\ tail' = tail + 1 /\ pc[p] = "cas"
      /\ pushed' = Append(pushed, item[p]) /\ item[p] \in Items
      /\ pc' = [pc EXCEPT ![p] = "write"]
      /\ UNCHANGED <<head, seq, data, pos, item>>
  BY DEF PushClaim, Goto, TypeOK
<1>2. seq[Slot(tail)] = tail
  BY <1>1 DEF CasJustified
<1>3. /\ head \in Nat /\ tail \in Nat /\ head <= tail /\ tail <= head + Capacity
      /\ pushed \in Seq(Items) /\ Len(pushed) = tail
  BY DEF TypeOK, WithinCapacity
<1>4. tail < head + Capacity
  <2> SUFFICES ASSUME tail = head + Capacity PROVE FALSE
    BY <1>3
  <2>1. Slot(tail) = Slot(head) /\ head \in head .. (tail - 1)
    BY <1>3, SlotPeriodic
  <2>2. seq[Slot(head)] \in {head, head + 1}
    BY <2>1 DEF TakenSlots
  <2> QED
    BY <1>2, <1>3, <2>1, <2>2
<1>5. /\ pushed' \in Seq(Items) /\ Len(pushed') = tail'
      /\ pushed'[tail + 1] = item[p]
      /\ \A n \in 1 .. tail : pushed'[n] = pushed[n]
  BY <1>1, <1>3
<1>6. \A t \in Threads \ {p} : pc'[t] = pc[t]
  BY <1>1 DEF TypeOK
<1>7. pc'[p] = "write"
  BY <1>1 DEF TypeOK
<1>8. TypeOK'
  BY <1>1, <1>3, <1>5 DEF TypeOK
<1>9. WithinCapacity' /\ PosOK'
  BY <1>1, <1>3, <1>4 DEF WithinCapacity, PosOK, TypeOK
<1>10. \A q \in Producers : Filling(q)' <=> (Filling(q) \/ q = p)
  BY <1>6, <1>7 DEF Filling
<1>11. \A c \in Consumers : Draining(c)' <=> Draining(c)
  BY <1>6, <1>7 DEF Draining
<1>12. TakenSlots'
  <2> SUFFICES ASSUME NEW n \in head .. tail
               PROVE \/ /\ seq[Slot(n)] = n
                        /\ \E q \in Producers : Filling(q)' /\ pos[q] = n
                     \/ /\ seq[Slot(n)] = n + 1
                        /\ data[Slot(n)] = pushed'[n + 1]
    BY <1>1, <1>3 DEF TakenSlots
  <2>1. CASE n = tail
    BY <2>1, <1>1, <1>2, <1>10
  <2>2. CASE n # tail
    <3>1. n \in head .. (tail - 1) /\ n + 1 \in 1 .. tail
      BY <2>2, <1>3
    <3> QED
      BY <3>1, <1>5, <1>10 DEF TakenSlots
  <2> QED
    BY <2>1, <2>2
<1>13. FreeSlots'
  BY <1>1, <1>3, <1>11 DEF FreeSlots
<1>14. Fillers'
  <2> SUFFICES ASSUME NEW q \in Producers, Filling(q)'
               PROVE /\ head <= pos[q] /\ pos[q] < tail'
                     /\ seq[Slot(pos[q])] = pos[q]
                     /\ pushed'[pos[q] + 1] = item[q]
                     /\ pc'[q] = "publish" => data[Slot(pos[q])] = item[q]
                     /\ \A r \in Producers : Filling(r)' /\ pos[r] = pos[q] => r = q
    BY <1>1 DEF Fillers
  <2>1. CASE q = p
    <3>1. \A r \in Producers : Filling(r) => pos[r] # tail
      BY DEF Fillers, TypeOK
    <3> QED
      BY <2>1, <3>1, <1>1, <1>2, <1>3, <1>5, <1>7, <1>10
  <2>2. CASE q # p
    <3>1. Filling(q) /\ pos[q] \in Nat /\ pos[q] < tail
      BY <2>2, <1>10 DEF Fillers, TypeOK
    <3>2. pos[q] + 1 \in 1 .. tail
      BY <3>1, <1>3
    <3> QED
      BY <2>2, <3>1, <3>2, <1>1, <1>3, <1>5, <1>6, <1>10 DEF Fillers
  <2> QED
    BY <2>1, <2>2
<1>15. Drainers'
  <2> SUFFICES ASSUME NEW c \in Consumers, Draining(c)
               PROVE /\ pos[c] < head /\ tail' <= pos[c] + Capacity
                     /\ seq[Slot(pos[c])] = pos[c] + 1
                     /\ pc'[c] = "read" => data[Slot(pos[c])] = pushed'[pos[c] + 1]
                     /\ pc'[c] = "release" => item[c] = pushed'[pos[c] + 1]
                     /\ \A d \in Consumers : Draining(d)' /\ pos[d] = pos[c] => d = c
    BY <1>1, <1>11 DEF Drainers
  <2>1. /\ pos[c] \in Nat /\ pos[c] < head /\ tail <= pos[c] + Capacity
        /\ seq[Slot(pos[c])] = pos[c] + 1
    BY DEF Drainers, TypeOK
  <2>2. tail # pos[c] + Capacity
    BY <2>1, <1>2, SlotPeriodic
  <2>3. pos[c] + 1 \in 1 .. tail
    BY <2>1, <1>3
  <2>4. pc'[c] = pc[c] /\ pushed'[pos[c] + 1] = pushed[pos[c] + 1]
    BY <2>3, <1>5, <1>6, <1>7, <1>11 DEF TypeOK
  <2>5. /\ pc[c] = "read" => data[Slot(pos[c])] = pushed[pos[c] + 1]
        /\ pc[c] = "release" => item[c] = pushed[pos[c] + 1]
        /\ \A d \in Consumers : Draining(d) /\ pos[d] = pos[c] => d = c
    BY DEF Drainers
  <2>6. tail' <= pos[c] + Capacity
    <3>1. tail' = tail + 1
      BY <1>1
    <3>2. tail \in Nat /\ pos[c] + Capacity \in Nat
      BY <2>1, <1>3
    <3>3. tail < pos[c] + Capacity
      BY <2>1, <2>2, <3>2
    <3> QED
      BY <3>1, <3>2, <3>3
  <2>7. \A d \in Consumers : Draining(d)' /\ pos[d] = pos[c] => d = c
    BY <2>5, <1>11
  <2> QED
    BY <2>1, <2>4, <2>5, <2>6, <2>7
<1>16. CasJustified'
  BY <1>1, <1>3, <1>6, <1>7 DEF CasJustified, PosOK, TypeOK
<1> QED
  BY <1>8, <1>9, <1>12, <1>13, <1>14, <1>15, <1>16

LEMMA PushWriteRing ==
    ASSUME Capacity > 1, RingInv, NEW p \in Producers, PushWrite(p)
    PROVE  RingInv'
<1> USE QueueAssumption DEF RingInv, Threads
<1>1. /\ pc[p] = "write" /\ Filling(p) /\ item[p] \in Items
      /\ pc' = [pc EXCEPT ![p] = "publish"]
      /\ data' = [data EXCEPT ![Slot(pos[p])] = item[p]]
      /\ UNCHANGED <<head, tail, seq, pos, item, pushed>>
  BY DEF PushWrite, Goto, TypeOK, Filling
<1>2. /\ head \in Nat /\ tail \in Nat /\ head <= tail /\ tail <= head + Capacity
      /\ pos[p] \in Nat /\ head <= pos[p] /\ pos[p] < tail
      /\ seq[Slot(pos[p])] = pos[p] /\ pushed[pos[p] + 1] = item[p]
      /\ Slot(pos[p]) \in Slots
  BY <1>1, SlotRange DEF TypeOK, WithinCapacity, Fillers
<1>3. /\ pc'[p] = "publish"
      /\ \A t \in Threads \ {p} : pc'[t] = pc[t]
  BY <1>1 DEF TypeOK
<1>4. /\ \A q \in Producers : Filling(q)' <=> Filling(q)
      /\ \A c \in Consumers : Draining(c)' <=> Draining(c)
  BY <1>1, <1>3 DEF Filling, Draining
<1>5. /\ data'[Slot(pos[p])] = item[p]
      /\ \A i \in Slots : i # Slot(pos[p]) => data'[i] = data[i]
  BY <1>1, <1>2 DEF TypeOK
<1>6. TypeOK'
  BY <1>1, <1>2 DEF TypeOK
<1>7. WithinCapacity' /\ PosOK'
  BY <1>1 DEF WithinCapacity, PosOK
<1>8. TakenSlots'
  <2> SUFFICES ASSUME NEW n \in head .. (tail - 1)
               PROVE \/ /\ seq[Slot(n)] = n
                        /\ \E q \in Producers : Filling(q)' /\ pos[q] = n
                     \/ /\ seq[Slot(n)] = n + 1
                        /\ data'[Slot(n)] = pushed[n + 1]
    BY <1>1 DEF TakenSlots
  <2>1. CASE n = pos[p]
    BY <2>1, <1>1, <1>2, <1>4
  <2>2. CASE n # pos[p]
    <3>1. n \in Nat /\ Slot(n) # Slot(pos[p]) /\ Slot(n) \in Slots
      BY <2>2, <1>2, SlotsDiffer, SlotRange
    <3> QED
      BY <3>1, <1>4, <1>5 DEF TakenSlots
  <2> QED
    BY <2>1, <2>2
<1>9. FreeSlots'
  BY <1>1, <1>4 DEF FreeSlots
<1>10. Fillers'
  <2> SUFFICES ASSUME NEW q \in Producers, Filling(q)
               PROVE /\ head <= pos[q] /\ pos[q] < tail
                     /\ seq[Slot(pos[q])] = pos[q]
                     /\ pushed[pos[q] + 1] = item[q]
                     /\ pc'[q] = "publish" => data'[Slot(pos[q])] = item[q]
                     /\ \A r \in Producers : Filling(r)' /\ pos[r] = pos[q] => r = q
    BY <1>1, <1>4 DEF Fillers
  <2>1. CASE q = p
    BY <2>1, <1>1, <1>2, <1>4, <1>5 DEF Fillers
  <2>2. CASE q # p
    <3>1. /\ pos[q] \in Nat /\ head <= pos[q] /\ pos[q] < tail /\ pos[q] # pos[p]
      BY <2>2, <1>1 DEF Fillers, TypeOK
    <3>2. Slot(pos[q]) # Slot(pos[p]) /\ Slot(pos[q]) \in Slots
      BY <3>1, <1>2, SlotsDiffer, SlotRange
    <3> QED
      BY <2>2, <3>2, <1>3, <1>4, <1>5 DEF Fillers
  <2> QED
    BY <2>1, <2>2
<1>11. Drainers'
  <2> SUFFICES ASSUME NEW c \in Consumers, Draining(c)
               PROVE /\ pos[c] < head /\ tail <= pos[c] + Capacity
                     /\ seq[Slot(pos[c])] = pos[c] + 1
                     /\ pc'[c] = "read" => data'[Slot(pos[c])] = pushed[pos[c] + 1]
                     /\ pc'[c] = "release" => item[c] = pushed[pos[c] + 1]
                     /\ \A d \in Consumers : Draining(d)' /\ pos[d] = pos[c] => d = c
    BY <1>1, <1>4 DEF Drainers
  <2>1. pos[c] \in Nat /\ pos[c] < head /\ tail <= pos[c] + Capacity
    BY DEF Drainers, TypeOK
  <2>2. Slot(pos[c]) # Slot(pos[p]) /\ Slot(pos[c]) \in Slots
    BY <2>1, <1>2, SlotsDiffer, SlotRange
  <2> QED
    BY <2>2, <1>3, <1>4, <1>5 DEF Drainers
<1>12. CasJustified'
  BY <1>1, <1>3 DEF CasJustified
<1> QED
  BY <1>6, <1>7, <1>8, <1>9, <1>10, <1>11, <1>12

LEMMA PushPublishRing ==
    ASSUME Capacity > 1, RingInv, NEW p \in Producers, PushPublish(p)
    PROVE  RingInv'
<1> USE QueueAssumption DEF RingInv, Threads
<1>1. /\ pc[p] = "publish" /\ Filling(p)
      /\ pc' = [pc EXCEPT ![p] = "idle"]
      /\ pos' = [pos EXCEPT ![p] = 0]
      /\ item' = [item EXCEPT ![p] = NoItem]
      /\ seq' = [seq EXCEPT ![Slot(pos[p])] = pos[p] + 1]
      /\ UNCHANGED <<head, tail, data, pushed>>
  BY DEF PushPublish, Return, Goto, TypeOK, Filling
<1>2. /\ head \in Nat /\ tail \in Nat /\ head <= tail /\ tail <= head + Capacity
      /\ pos[p] \in Nat /\ head <= pos[p] /\ pos[p] < tail
      /\ data[Slot(pos[p])] = pushed[pos[p] + 1]
      /\ Slot(pos[p]) \in Slots
  BY <1>1, SlotRange DEF TypeOK, WithinCapacity, Fillers
<1>3. /\ pc'[p] = "idle"
      /\ \A t \in Threads \ {p} : /\ pc'[t] = pc[t]
                                  /\ pos'[t] = pos[t]
                                  /\ item'[t] = item[t]
  BY <1>1 DEF TypeOK
<1>4. /\ \A q \in Producers : Filling(q)' <=> Filling(q) /\ q # p
      /\ \A c \in Consumers : /\ Draining(c)' <=> Draining(c)
                              /\ c # p
  BY <1>1, <1>3 DEF Filling, Draining
<1>5. /\ seq'[Slot(pos[p])] = pos[p] + 1
      /\ \A i \in Slots : i # Slot(pos[p]) => seq'[i] = seq[i]
  BY <1>1, <1>2 DEF TypeOK
<1>6. TypeOK'
  BY <1>1, <1>2 DEF TypeOK
<1>7. WithinCapacity' /\ PosOK'
  BY <1>1, <1>2 DEF WithinCapacity, PosOK, TypeOK
<1>8. \A n \in Nat : head <= n /\ n < head + Capacity /\ n # pos[p]
         => Slot(n) # Slot(pos[p]) /\ Slot(n) \in Slots
  BY <1>2, SlotsDiffer, SlotRange
<1>9. TakenSlots'
  <2> SUFFICES ASSUME NEW n \in head .. (tail - 1)
               PROVE \/ /\ seq'[Slot(n)] = n
                        /\ \E q \in Producers : Filling(q)' /\ pos'[q] = n
                     \/ /\ seq'[Slot(n)] = n + 1
                        /\ data[Slot(n)] = pushed[n + 1]
    BY <1>1 DEF TakenSlots
  <2>1. CASE n = pos[p]
    BY <2>1, <1>2, <1>5
  <2>2. CASE n # pos[p]
    <3>1. seq'[Slot(n)] = seq[Slot(n)]
      BY <2>2, <1>2, <1>5, <1>8
    <3> QED
      BY <2>2, <3>1, <1>3, <1>4 DEF TakenSlots
  <2> QED
    BY <2>1, <2>2
<1>10. FreeSlots'
  <2> SUFFICES ASSUME NEW n \in tail .. (head + Capacity - 1)
               PROVE \/ seq'[Slot(n)] = n
                     \/ /\ seq'[Slot(n)] = n - Capacity + 1
                        /\ \E c \in Consumers : Draining(c)' /\ pos'[c] = n - Capacity
    BY <1>1 DEF FreeSlots
  <2>1. seq'[Slot(n)] = seq[Slot(n)]
    BY <1>2, <1>5, <1>8
  <2> QED
    BY <2>1, <1>3, <1>4 DEF FreeSlots
<1>11. Fillers'
  <2> SUFFICES ASSUME NEW q \in Producers, Filling(q), q # p
               PROVE /\ head <= pos[q] /\ pos[q] < tail
                     /\ seq'[Slot(pos[q])] = pos[q]
                     /\ pushed[pos[q] + 1] = item[q]
                     /\ pc'[q] = "publish" => data[Slot(pos[q])] = item[q]
                     /\ \A r \in Producers : Filling(r)' /\ pos'[r] = pos[q] => r = q
    BY <1>1, <1>3, <1>4 DEF Fillers
  <2>1. /\ pos[q] \in Nat /\ head <= pos[q] /\ pos[q] < tail /\ pos[q] # pos[p]
    BY <1>1 DEF Fillers, TypeOK
  <2>2. seq'[Slot(pos[q])] = seq[Slot(pos[q])]
    BY <2>1, <1>2, <1>5, <1>8
  <2> QED
    BY <2>2, <1>3, <1>4 DEF Fillers
<1>12. Drainers'
  <2> SUFFICES ASSUME NEW c \in Consumers, Draining(c)
               PROVE /\ pos[c] < head /\ tail <= pos[c] + Capacity
                     /\ seq'[Slot(pos[c])] = pos[c] + 1
                     /\ pc[c] = "read" => data[Slot(pos[c])] = pushed[pos[c] + 1]
                     /\ pc[c] = "release" => item[c] = pushed[pos[c] + 1]
                     /\ \A d \in Consumers : Draining(d)' /\ pos'[d] = pos[c] => d = c
    BY <1>1, <1>3, <1>4 DEF Drainers
  <2>1. pos[c] \in Nat /\ pos[c] < head /\ tail <= pos[c] + Capacity
    BY DEF Drainers, TypeOK
  <2>2. seq'[Slot(pos[c])] = seq[Slot(pos[c])]
    BY <2>1, <1>2, <1>5, SlotsDiffer, SlotRange
  <2> QED
    BY <2>2, <1>3, <1>4 DEF Drainers
<1>13. CasJustified'
  <2>1. ASSUME NEW q \in Producers, pc'[q] = "cas", pos'[q] = tail
        PROVE  seq'[Slot(tail)] = tail
    <3>1. seq[Slot(tail)] = tail
      BY <2>1, <1>3 DEF CasJustified
    <3>2. Slot(tail) # Slot(pos[p])
      BY <3>1, <1>1, <1>2 DEF Fillers
    <3> QED
      BY <3>1, <3>2, <1>2, <1>5, SlotRange
  <2>2. ASSUME NEW c \in Consumers, pc'[c] = "cas", pos'[c] = head
        PROVE  seq'[Slot(head)] = head + 1
    <3>1. seq[Slot(head)] = head + 1
      BY <2>2, <1>3, <1>4 DEF CasJustified
    <3>2. head # pos[p]
      BY <3>1, <1>1, <1>2 DEF Fillers
    <3> QED
      BY <3>1, <3>2, <1>2, <1>5, <1>8
  <2> QED
    BY <2>1, <2>2, <1>1 DEF CasJustified
<1> QED
  BY <1>6, <1>7, <1>9, <1>10, <1>11, <1>12, <1>13
-----------------------------------------------------------------------------
(* fp_queue_pop keeps the invariant. *)

LEMMA PopQuiet ==
    ASSUME Capacity > 1, RingInv, NEW c \in Consumers,
           \/ PopStart(c) \/ PopSlotReady(c) \/ PopEmpty(c) \/ PopLate(c)
           \/ PopReload(c) \/ PopClaimFails(c)
    PROVE  RingInv'
<1> USE QueueAssumption DEF RingInv, Threads
<1>1. UNCHANGED <<head, tail, seq, data, pushed>>
  BY DEF PopStart, PopSlotReady, PopEmpty, PopLate, PopReload, PopClaimFails
<1>2. /\ pc[c] \in {"idle", "seq", "reload", "cas"}
      /\ pc'[c] \in {"idle", "seq", "reload", "cas"}
      /\ \A t \in Threads \ {c} : /\ pc'[t] = pc[t]
                                  /\ pos'[t] = pos[t]
                                  /\ item'[t] = item[t]
  BY DEF PopStart, PopSlotReady, PopEmpty, PopLate, PopReload, PopClaimFails,
         Goto, Return, TypeOK
<1>3. TypeOK' /\ PosOK' /\ CasJustified'
  <2>1. CASE PopStart(c)
    BY <2>1 DEF PopStart, Goto, TypeOK, PosOK, CasJustified
  <2>2. CASE PopSlotReady(c)
    BY <2>2 DEF PopSlotReady, Goto, TypeOK, PosOK, CasJustified
  <2>3. CASE PopEmpty(c)
    BY <2>3 DEF PopEmpty, Return, Goto, TypeOK, PosOK, CasJustified
  <2>4. CASE PopLate(c)
    BY <2>4 DEF PopLate, Goto, TypeOK, PosOK, CasJustified
  <2>5. CASE PopReload(c)
    BY <2>5 DEF PopReload, Goto, TypeOK, PosOK, CasJustified
  <2>6. CASE PopClaimFails(c)
    BY <2>6 DEF PopClaimFails, Goto, TypeOK, PosOK, CasJustified
  <2> QED
    BY <2>1, <2>2, <2>3, <2>4, <2>5, <2>6
<1>4. \A t \in Threads : /\ Filling(t)' <=> Filling(t)
                         /\ Draining(t)' <=> Draining(t)
                         /\ Filling(t) \/ Draining(t) => t # c
  BY <1>2 DEF Filling, Draining
<1> QED
  BY <1>1, <1>2, <1>3, <1>4, QuietStep

LEMMA PopClaimRing ==
    ASSUME Capacity > 1, RingInv, NEW c \in Consumers, PopClaim(c)
    PROVE  RingInv'
<1> USE QueueAssumption DEF RingInv, Threads
<1>1. /\ head = pos[c] /\ head' = head + 1 /\ pc[c] = "cas"
      /\ pc' = [pc EXCEPT ![c] = "read"]
      /\ UNCHANGED <<tail, seq, data, pos, item, pushed>>
  BY DEF PopClaim, Goto, TypeOK
<1>2. seq[Slot(head)] = head + 1
  BY <1>1 DEF CasJustified
<1>3. /\ head \in Nat /\ tail \in Nat /\ head <= tail /\ tail <= head + Capacity
      /\ Slot(head) \in Slots
  BY SlotRange DEF TypeOK, WithinCapacity
<1>4. head < tail
  <2> SUFFICES ASSUME head = tail PROVE FALSE
    BY <1>3
  <2>1. tail \in tail .. (head + Capacity - 1)
    BY <1>3
  <2>2. seq[Slot(tail)] \in {tail, tail - Capacity + 1}
    BY <2>1 DEF FreeSlots
  <2> QED
    BY <1>2, <1>3, <2>2
<1>5. /\ pc'[c] = "read"
      /\ \A t \in Threads \ {c} : pc'[t] = pc[t]
  BY <1>1 DEF TypeOK
<1>6. /\ \A p \in Producers : (Filling(p)' <=> Filling(p)) /\ p # c
      /\ \A d \in Consumers : Draining(d)' <=> Draining(d) \/ d = c
      /\ ~Draining(c)
  BY <1>1, <1>5 DEF Filling, Draining
<1>7. data[Slot(head)] = pushed[head + 1]
  BY <1>2, <1>3, <1>4 DEF TakenSlots
<1>8. TypeOK'
  BY <1>1, <1>3 DEF TypeOK
<1>9. WithinCapacity' /\ PosOK'
  BY <1>1, <1>3, <1>4 DEF WithinCapacity, PosOK, TypeOK
<1>10. TakenSlots'
  <2> SUFFICES ASSUME NEW n \in (head + 1) .. (tail - 1)
               PROVE \/ /\ seq[Slot(n)] = n
                        /\ \E p \in Producers : Filling(p)' /\ pos[p] = n
                     \/ /\ seq[Slot(n)] = n + 1
                        /\ data[Slot(n)] = pushed[n + 1]
    BY <1>1 DEF TakenSlots
  <2>1. n \in head .. (tail - 1)
    BY <1>3
  <2> QED
    BY <2>1, <1>6 DEF TakenSlots
<1>11. FreeSlots'
  <2> SUFFICES ASSUME NEW n \in tail .. (head + Capacity)
               PROVE \/ seq[Slot(n)] = n
                     \/ /\ seq[Slot(n)] = n - Capacity + 1
                        /\ \E d \in Consumers : Draining(d)' /\ pos[d] = n - Capacity
    BY <1>1, <1>3 DEF FreeSlots
  <2>1. CASE n = head + Capacity
    BY <2>1, <1>1, <1>2, <1>3, <1>6, SlotPeriodic
  <2>2. CASE n # head + Capacity
    <3>1. n \in tail .. (head + Capacity - 1)
      BY <2>2, <1>3
    <3> QED
      BY <3>1, <1>6 DEF FreeSlots
  <2> QED
    BY <2>1, <2>2
<1>12. Fillers'
  <2> SUFFICES ASSUME NEW p \in Producers, Filling(p)
               PROVE /\ head + 1 <= pos[p] /\ pos[p] < tail
                     /\ seq[Slot(pos[p])] = pos[p]
                     /\ pushed[pos[p] + 1] = item[p]
                     /\ pc'[p] = "publish" => data[Slot(pos[p])] = item[p]
                     /\ \A q \in Producers : Filling(q)' /\ pos[q] = pos[p] => q = p
    BY <1>1, <1>6 DEF Fillers
  <2>1. /\ pos[p] \in Nat /\ head <= pos[p] /\ seq[Slot(pos[p])] = pos[p]
        /\ pos[p] # head
    BY <1>2, <1>3 DEF Fillers, TypeOK
  <2>2. head + 1 <= pos[p]
    BY <2>1, <1>3
  <2> QED
    BY <2>2, <1>5, <1>6 DEF Fillers
<1>13. Drainers'
  <2> SUFFICES ASSUME NEW d \in Consumers, Draining(d)'
               PROVE /\ pos[d] < head + 1 /\ tail <= pos[d] + Capacity
                     /\ seq[Slot(pos[d])] = pos[d] + 1
                     /\ pc'[d] = "read" => data[Slot(pos[d])] = pushed[pos[d] + 1]
                     /\ pc'[d] = "release" => item[d] = pushed[pos[d] + 1]
                     /\ \A e \in Consumers : Draining(e)' /\ pos[e] = pos[d] => e = d
    BY <1>1 DEF Drainers
  <2>1. \A e \in Consumers : Draining(e) => pos[e] \in Nat /\ pos[e] < head
    BY DEF Drainers, TypeOK
  <2>2. CASE d = c
    BY <2>1, <2>2, <1>1, <1>2, <1>3, <1>5, <1>6, <1>7
  <2>3. CASE d # c
    <3>1. Draining(d) /\ pos[d] \in Nat /\ pos[d] < head
      BY <2>1, <2>3, <1>6
    <3>2. /\ tail <= pos[d] + Capacity
          /\ seq[Slot(pos[d])] = pos[d] + 1
          /\ pc'[d] = "read" => data[Slot(pos[d])] = pushed[pos[d] + 1]
          /\ pc'[d] = "release" => item[d] = pushed[pos[d] + 1]
      BY <2>3, <3>1, <1>5 DEF Drainers
    <3>3. \A e \in Consumers : Draining(e)' /\ pos[e] = pos[d] => e = d
      BY <3>1, <1>1, <1>3, <1>6 DEF Drainers
    <3> QED
      BY <3>1, <3>2, <3>3, <1>3
  <2> QED
    BY <2>2, <2>3
<1>14. CasJustified'
  BY <1>1, <1>3, <1>5, <1>6 DEF CasJustified, PosOK, TypeOK
<1> QED
  BY <1>8, <1>9, <1>10, <1>11, <1>12, <1>13, <1>14

LEMMA PopReadRing ==
    ASSUME Capacity > 1, RingInv, NEW c \in Consumers, PopRead(c)
    PROVE  RingInv'
<1> USE QueueAssumption DEF RingInv, Threads
<1>1. /\ pc[c] = "read" /\ Draining(c)
      /\ pc' = [pc EXCEPT ![c] = "release"]
      /\ item' = [item EXCEPT ![c] = data[Slot(pos[c])]]
      /\ UNCHANGED <<head, tail, seq, data, pos, pushed>>
  BY DEF PopRead, Goto, TypeOK, Draining
<1>2. /\ data[Slot(pos[c])] = pushed[pos[c] + 1]
      /\ pushed[pos[c] + 1] \in Items
  <2>1. pos[c] \in Nat /\ pos[c] < head /\ head <= tail
    BY <1>1 DEF Drainers, TypeOK, WithinCapacity
  <2>2. pos[c] + 1 \in 1 .. Len(pushed)
    BY <2>1 DEF TypeOK
  <2> QED
    BY <2>2, <1>1 DEF Drainers, TypeOK
<1>3. /\ pc'[c] = "release" /\ item'[c] = pushed[pos[c] + 1]
      /\ \A t \in Threads \ {c} : pc'[t] = pc[t] /\ item'[t] = item[t]
  BY <1>1, <1>2 DEF TypeOK
<1>4. /\ \A p \in Producers : (Filling(p)' <=> Filling(p)) /\ p # c
      /\ \A d \in Consumers : Draining(d)' <=> Draining(d)
  BY <1>1, <1>3 DEF Filling, Draining
<1>5. TypeOK'
  BY <1>1, <1>2 DEF TypeOK
<1>6. WithinCapacity' /\ PosOK'
  BY <1>1 DEF WithinCapacity, PosOK
<1>7. TakenSlots'
  BY <1>1, <1>4 DEF TakenSlots
<1>8. FreeSlots'
  BY <1>1, <1>4 DEF FreeSlots
<1>9. Fillers'
  BY <1>1, <1>3, <1>4 DEF Fillers
<1>10. Drainers'
  BY <1>1, <1>3, <1>4 DEF Drainers
<1>11. CasJustified'
  BY <1>1, <1>3 DEF CasJustified
<1> QED
  BY <1>5, <1>6, <1>7, <1>8, <1>9, <1>10, <1>11

LEMMA PopReleaseRing ==
    ASSUME Capacity > 1, RingInv, NEW c \in Consumers, PopRelease(c)
    PROVE  RingInv'
<1> USE QueueAssumption DEF RingInv, Threads
<1> DEFINE next == pos[c] + Capacity     \* the position the slot is freed for
<1>1. /\ pc[c] = "release" /\ Draining(c)
      /\ pc' = [pc EXCEPT ![c] = "idle"]
      /\ pos' = [pos EXCEPT ![c] = 0]
      /\ item' = [item EXCEPT ![c] = NoItem]
      /\ seq' = [seq EXCEPT ![Slot(pos[c])] = next]
      /\ UNCHANGED <<head, tail, data, pushed>>
  BY DEF PopRelease, Return, Goto, TypeOK, Draining
<1>2. /\ head \in Nat /\ tail \in Nat /\ head <= tail /\ tail <= head + Capacity
      /\ pos[c] \in Nat /\ pos[c] < head /\ tail <= next /\ next \in Nat
      /\ Slot(next) = Slot(pos[c]) /\ Slot(pos[c]) \in Slots
  <2>1. pos[c] \in Nat
    BY DEF TypeOK
  <2>2. Slot(next) = Slot(pos[c]) /\ Slot(pos[c]) \in Slots
    BY <2>1, SlotRange, SlotPeriodic
  <2> QED
    BY <1>1, <2>1, <2>2 DEF TypeOK, WithinCapacity, Drainers
<1> HIDE DEF next
<1>3. /\ pc'[c] = "idle"
      /\ \A t \in Threads \ {c} : /\ pc'[t] = pc[t]
                                  /\ pos'[t] = pos[t]
                                  /\ item'[t] = item[t]
  BY <1>1 DEF TypeOK
<1>4. /\ \A p \in Producers : (Filling(p)' <=> Filling(p)) /\ p # c
      /\ \A d \in Consumers : Draining(d)' <=> Draining(d) /\ d # c
  BY <1>1, <1>3 DEF Filling, Draining
<1>5. /\ seq'[Slot(next)] = next
      /\ \A i \in Slots : i # Slot(next) => seq'[i] = seq[i]
  BY <1>1, <1>2 DEF TypeOK
<1>6. \A n \in Nat : head <= n /\ n < head + Capacity /\ n # next
         => seq'[Slot(n)] = seq[Slot(n)]
  <2>1. next < head + Capacity /\ head <= next
    BY <1>2 DEF next
  <2> QED
    BY <2>1, <1>2, <1>5, SlotsDiffer, SlotRange
<1>7. TypeOK'
  BY <1>1, <1>2 DEF TypeOK
<1>8. WithinCapacity' /\ PosOK'
  BY <1>1, <1>2 DEF WithinCapacity, PosOK, TypeOK
<1>9. TakenSlots'
  <2> SUFFICES ASSUME NEW n \in head .. (tail - 1)
               PROVE \/ /\ seq'[Slot(n)] = n
                        /\ \E p \in Producers : Filling(p)' /\ pos'[p] = n
                     \/ /\ seq'[Slot(n)] = n + 1
                        /\ data[Slot(n)] = pushed[n + 1]
    BY <1>1 DEF TakenSlots
  <2>1. seq'[Slot(n)] = seq[Slot(n)]
    BY <1>2, <1>6
  <2> QED
    BY <2>1, <1>3, <1>4 DEF TakenSlots
<1>10. FreeSlots'
  <2> SUFFICES ASSUME NEW n \in tail .. (head + Capacity - 1)
               PROVE \/ seq'[Slot(n)] = n
                     \/ /\ seq'[Slot(n)] = n - Capacity + 1
                        /\ \E d \in Consumers : Draining(d)' /\ pos'[d] = n - Capacity
    BY <1>1 DEF FreeSlots
  <2>1. CASE n = next
    BY <2>1, <1>5
  <2>2. CASE n # next
    <3>1. seq'[Slot(n)] = seq[Slot(n)] /\ n - Capacity # pos[c]
      BY <2>2, <1>2, <1>6 DEF next
    <3> QED
      BY <3>1, <1>3, <1>4 DEF FreeSlots
  <2> QED
    BY <2>1, <2>2
<1>11. Fillers'
  <2> SUFFICES ASSUME NEW p \in Producers, Filling(p)
               PROVE /\ head <= pos[p] /\ pos[p] < tail
                     /\ seq'[Slot(pos[p])] = pos[p]
                     /\ pushed[pos[p] + 1] = item[p]
                     /\ pc[p] = "publish" => data[Slot(pos[p])] = item[p]
                     /\ \A q \in Producers : Filling(q)' /\ pos'[q] = pos[p] => q = p
    BY <1>1, <1>3, <1>4 DEF Fillers
  <2>1. pos[p] \in Nat /\ head <= pos[p] /\ pos[p] < tail
    BY DEF Fillers, TypeOK
  <2>2. seq'[Slot(pos[p])] = seq[Slot(pos[p])]
    BY <2>1, <1>2, <1>6
  <2> QED
    BY <2>2, <1>3, <1>4 DEF Fillers
<1>12. Drainers'
  <2> SUFFICES ASSUME NEW d \in Consumers, Draining(d), d # c
               PROVE /\ pos[d] < head /\ tail <= pos[d] + Capacity
                     /\ seq'[Slot(pos[d])] = pos[d] + 1
                     /\ pc[d] = "read" => data[Slot(pos[d])] = pushed[pos[d] + 1]
                     /\ pc[d] = "release" => item[d] = pushed[pos[d] + 1]
                     /\ \A e \in Consumers : Draining(e)' /\ pos'[e] = pos[d] => e = d
    BY <1>1, <1>3, <1>4 DEF Drainers
  <2>1. /\ pos[d] \in Nat /\ pos[d] < head /\ tail <= pos[d] + Capacity
        /\ pos[d] # pos[c]
    BY <1>1 DEF Drainers, TypeOK
  <2>2. Slot(pos[d]) # Slot(pos[c]) /\ Slot(pos[d]) \in Slots
    BY <2>1, <1>2, SlotsDiffer, SlotRange DEF next
  <2>3. seq'[Slot(pos[d])] = seq[Slot(pos[d])]
    BY <2>2, <1>2, <1>5
  <2> QED
    BY <2>3, <1>3, <1>4 DEF Drainers
<1>13. CasJustified'
  <2>1. ASSUME NEW p \in Producers, pc'[p] = "cas", pos'[p] = tail
        PROVE  seq'[Slot(tail)] = tail
    <3>1. seq[Slot(tail)] = tail
      BY <2>1, <1>3, <1>4 DEF CasJustified
    <3>2. seq[Slot(pos[c])] = pos[c] + 1
      BY <1>1 DEF Drainers
    <3>3. tail # next
      BY <3>1, <3>2, <1>2 DEF next
    <3>4. Slot(tail) # Slot(next)
      BY <3>3, <1>2, SlotsDiffer DEF next
    <3> QED
      BY <3>1, <3>4, <1>2, <1>5, SlotRange
  <2>2. ASSUME NEW d \in Consumers, pc'[d] = "cas", pos'[d] = head
        PROVE  seq'[Slot(head)] = head + 1
    <3>1. seq[Slot(head)] = head + 1
      BY <2>2, <1>3 DEF CasJustified
    <3>2. seq[Slot(pos[c])] = pos[c] + 1
      BY <1>1 DEF Drainers
    <3>3. Slot(head) # Slot(next)
      BY <3>1, <3>2, <1>2
    <3> QED
      BY <3>1, <3>3, <1>2, <1>5, SlotRange
  <2> QED
    BY <2>1, <2>2, <1>1 DEF CasJustified
<1> QED
  BY <1>7, <1>8, <1>9, <1>10, <1>11, <1>12, <1>13
-----------------------------------------------------------------------------
(* The inductive invariant holds in every state of the ring: the sequence  *)
(* number of a slot always tells whose turn it is (queue.c:40-96).         *)
THEOREM RingInvariant == ASSUME Capacity > 1 PROVE Spec => []RingInv
<1>1. Init => RingInv
  BY InitRing
<1>2. RingInv /\ [Next]_vars => RingInv'
  <2> SUFFICES ASSUME RingInv, [Next]_vars PROVE RingInv'
    OBVIOUS
  <2>1. ASSUME NEW p \in Producers, NEW v \in Items, PushStart(p, v) PROVE RingInv'
    BY <2>1, PushQuiet
  <2>2. ASSUME NEW p \in Producers, PushStep(p) PROVE RingInv'
    BY <2>2, PushQuiet, PushClaimRing, PushWriteRing, PushPublishRing DEF PushStep
  <2>3. ASSUME NEW c \in Consumers, PopStart(c) \/ PopStep(c) PROVE RingInv'
    BY <2>3, PopQuiet, PopClaimRing, PopReadRing, PopReleaseRing DEF PopStep
  <2>4. CASE UNCHANGED vars
    BY <2>4 DEF vars, RingInv, TypeOK, WithinCapacity, PosOK, TakenSlots,
                FreeSlots, Fillers, Drainers, CasJustified, Filling, Draining
  <2> QED
    BY <2>1, <2>2, <2>3, <2>4 DEF Next
<1> QED
  BY <1>1, <1>2, PTL DEF Spec

(* Types, of push and pop on any number of threads. *)
THEOREM TypeCorrect == ASSUME Capacity > 1 PROVE Spec => []TypeOK
BY RingInvariant, PTL DEF RingInv

(* Backpressure: head and tail are never more than a ring apart, so a push *)
(* on a full queue is refused (queue.c:60-62) instead of overwriting.      *)
THEOREM NeverOverfull == ASSUME Capacity > 1 PROVE Spec => []WithinCapacity
BY RingInvariant, PTL DEF RingInv

(* The plain accesses of slot->data (queue.c:56 and 85) never race.        *)
THEOREM SlotsNeverRace == ASSUME Capacity > 1 PROVE Spec => []NoSlotRace
<1>1. RingInv => NoSlotRace
  <2> SUFFICES ASSUME RingInv, NEW t \in Threads, NEW u \in Threads, t # u,
                      Filling(t) \/ Draining(t), Filling(u) \/ Draining(u)
               PROVE  Slot(pos[t]) # Slot(pos[u])
    BY DEF NoSlotRace, Filling, Draining
  <2> USE QueueAssumption DEF RingInv
  <2>1. /\ \A x \in Threads : /\ pos[x] \in Nat
                              /\ Filling(x) => x \in Producers
                              /\ Draining(x) => x \in Consumers
        /\ head \in Nat /\ tail \in Nat /\ head <= tail /\ tail <= head + Capacity
    BY DEF TypeOK, WithinCapacity, Filling, Draining, Threads
  <2>2. ASSUME NEW p \in Threads, NEW c \in Threads, Filling(p), Draining(c)
        PROVE  Slot(pos[p]) # Slot(pos[c])
    <3>1. seq[Slot(pos[p])] = pos[p] /\ seq[Slot(pos[c])] = pos[c] + 1
      BY <2>1, <2>2 DEF Fillers, Drainers
    <3>2. pos[p] # pos[c] + 1 \/ Slot(pos[c] + 1) # Slot(pos[c])
      BY <2>1, SlotsDiffer
    <3> QED
      BY <3>1, <3>2
  <2>3. CASE Filling(t) /\ Filling(u)
    <3>1. /\ pos[t] # pos[u] /\ head <= pos[t] /\ pos[t] < tail
          /\ head <= pos[u] /\ pos[u] < tail
      BY <2>1, <2>3 DEF Fillers
    <3> QED
      BY <2>1, <3>1, SlotsDiffer
  <2>4. CASE Draining(t) /\ Draining(u)
    <3>1. /\ pos[t] # pos[u] /\ pos[t] < head /\ tail <= pos[t] + Capacity
          /\ pos[u] < head /\ tail <= pos[u] + Capacity
      BY <2>1, <2>4 DEF Drainers
    <3> QED
      BY <2>1, <3>1, SlotsDiffer
  <2> QED
    BY <2>2, <2>3, <2>4
<1> QED
  BY <1>1, RingInvariant, PTL

(* Exactly once and in order: a pop returns what was pushed at the         *)
(* position its CAS claimed, and claims it alone.                          *)
THEOREM PopsAreFaithful == ASSUME Capacity > 1 PROVE Spec => []PopsWhatWasPushed
<1>1. RingInv => PopsWhatWasPushed
  BY DEF RingInv, PopsWhatWasPushed, Drainers, Draining, TypeOK, WithinCapacity
<1> QED
  BY <1>1, RingInvariant, PTL
-----------------------------------------------------------------------------
(* The refinement of BoundedFifo. *)

(* A number is given by the lap and the slot. *)
LEMMA SlotOfLap ==
    ASSUME NEW k \in Nat, NEW r \in Slots
    PROVE  Capacity * k + r \in Nat /\ Slot(Capacity * k + r) = r
<1> DEFINE m == Capacity * k + r
           a == m \div Capacity
<1>1. m \in Nat /\ r \in 0 .. (Capacity - 1)
  BY QueueAssumption DEF Slots
<1>2. a \in Nat /\ m = Capacity * a + Slot(m) /\ Slot(m) \in 0 .. (Capacity - 1)
  BY <1>1, SlotDivision, SlotRange DEF Slots
<1>3. m = Capacity * k + r
  OBVIOUS
<1> HIDE DEF a, m
<1>4. Capacity * (a - k) = r - Slot(m)
  BY <1>1, <1>2, <1>3, QueueAssumption
<1>5. a - k = 0
  BY <1>1, <1>2, <1>4, CapacityMultiple, QueueAssumption
<1> QED
  BY <1>1, <1>2, <1>4, <1>5, QueueAssumption DEF m

(* Any lap of positions goes over every slot. *)
LEMMA LapCoversSlots ==
    ASSUME NEW n \in Nat, NEW h \in Nat
    PROVE  \E m \in h .. (h + Capacity - 1) : Slot(m) = Slot(n)
<1> DEFINE q == h \div Capacity
           r == Slot(n)
<1>1. q \in Nat /\ h = Capacity * q + Slot(h) /\ r \in Slots
  BY SlotDivision, SlotRange
<1>2. Slot(h) \in 0 .. (Capacity - 1) /\ r \in 0 .. (Capacity - 1)
  BY SlotRange DEF Slots
<1> HIDE DEF q, r
<1>3. CASE r >= Slot(h)
  <2>1. Capacity * q + r \in h .. (h + Capacity - 1)
    BY <1>1, <1>2, <1>3, QueueAssumption
  <2> QED
    BY <1>1, <2>1, SlotOfLap DEF r
<1>4. CASE r < Slot(h)
  <2>1. Capacity * (q + 1) = Capacity * q + Capacity
    BY <1>1, QueueAssumption
  <2>2. Capacity * (q + 1) + r \in h .. (h + Capacity - 1)
    BY <1>1, <1>2, <1>4, <2>1, QueueAssumption
  <2> QED
    BY <1>1, <2>2, SlotOfLap DEF r
<1> QED
  BY <1>2, <1>3, <1>4

(* The number of a slot never falls behind a position already consumed. *)
LEMMA OldSlotsMoveOn ==
    ASSUME RingInv, NEW n \in Nat, n < head
    PROVE  seq[Slot(n)] > n
<1> USE QueueAssumption DEF RingInv
<1>1. head \in Nat /\ tail \in Nat /\ head <= tail /\ tail <= head + Capacity
  BY DEF TypeOK, WithinCapacity
<1>2. PICK m \in head .. (head + Capacity - 1) : Slot(m) = Slot(n)
  BY <1>1, LapCoversSlots
<1>3. m \in Nat /\ m >= n + Capacity
  BY <1>1, <1>2, SlotInjective
<1>4. CASE m < tail
  BY <1>1, <1>2, <1>3, <1>4 DEF TakenSlots
<1>5. CASE tail <= m
  BY <1>1, <1>2, <1>3, <1>5 DEF FreeSlots
<1> QED
  BY <1>1, <1>3, <1>4, <1>5
(* A CAS on tail succeeds only with room in the ring, one on head only     *)
(* with an item in it.                                                     *)
LEMMA ClaimFindsRoom ==
    ASSUME Capacity > 1, RingInv, NEW p \in Producers, PushClaim(p)
    PROVE  tail < head + Capacity
<1> USE QueueAssumption DEF RingInv
<1>1. /\ head \in Nat /\ tail \in Nat /\ head <= tail /\ tail <= head + Capacity
      /\ seq[Slot(tail)] = tail
  BY DEF TypeOK, WithinCapacity, PushClaim, Goto, CasJustified
<1> SUFFICES ASSUME tail = head + Capacity PROVE FALSE
  BY <1>1
<1>2. Slot(tail) = Slot(head) /\ head \in head .. (tail - 1)
  BY <1>1, SlotPeriodic
<1>3. seq[Slot(head)] \in {head, head + 1}
  BY <1>2 DEF TakenSlots
<1> QED
  BY <1>1, <1>2, <1>3

LEMMA ClaimFindsItem ==
    ASSUME Capacity > 1, RingInv, NEW c \in Consumers, PopClaim(c)
    PROVE  head < tail
<1> USE QueueAssumption DEF RingInv
<1>1. /\ head \in Nat /\ tail \in Nat /\ head <= tail
      /\ seq[Slot(head)] = head + 1
  BY DEF TypeOK, WithinCapacity, PopClaim, Goto, CasJustified
<1> SUFFICES ASSUME head = tail PROVE FALSE
  BY <1>1
<1>2. tail \in tail .. (head + Capacity - 1)
  BY <1>1
<1>3. seq[Slot(tail)] \in {tail, tail - Capacity + 1}
  BY <1>2 DEF FreeSlots
<1> QED
  BY <1>1, <1>3

(* What the abstract queue holds. *)
LEMMA HeldItems ==
    ASSUME RingInv
    PROVE  LET held == SubSeq(pushed, head + 1, tail) IN
           /\ held \in Seq(Items) /\ Len(held) = tail - head
           /\ \A i \in 1 .. (tail - head) : held[i] = pushed[head + i]
           /\ head < tail => held # <<>> /\ Head(held) = pushed[head + 1]
           /\ head < tail => Tail(held) = SubSeq(pushed, head + 2, tail)
           /\ \A v \in Items :
                 SubSeq(Append(pushed, v), head + 1, tail + 1) = Append(held, v)
<1> USE DEF RingInv
<1>1. head \in Nat /\ tail \in Nat /\ head <= tail /\ pushed \in Seq(Items) /\ Len(pushed) = tail
  BY DEF TypeOK, WithinCapacity
<1> DEFINE held == SubSeq(pushed, head + 1, tail)
<1>2. /\ held \in Seq(Items) /\ Len(held) = tail - head
      /\ \A i \in 1 .. (tail - head) : held[i] = pushed[head + i]
  BY <1>1
<1>3. head < tail => held # <<>> /\ Head(held) = pushed[head + 1]
  BY <1>1, <1>2
<1>4. ASSUME head < tail PROVE Tail(held) = SubSeq(pushed, head + 2, tail)
  BY <1>1, <1>2, <1>4
<1>5. ASSUME NEW v \in Items
      PROVE  SubSeq(Append(pushed, v), head + 1, tail + 1) = Append(held, v)
  BY <1>1, <1>2
<1> QED
  BY <1>2, <1>3, <1>4, <1>5
(* What the abstract queue sees of thread t when its call moves from one   *)
(* phase to another and all else stays.                                    *)
LEMMA OneThreadMoves ==
    ASSUME RingInv, NEW t \in Threads,
           pc' = [pc EXCEPT ![t] = pc'[t]],
           \A u \in Threads \ {t} : pos'[u] = pos[u] /\ item'[u] = item[u],
           \A n \in 1 .. head : pushed'[n] = pushed[n]
    PROVE  /\ [u \in Threads |-> AbstractPhase(u)']
                = [[u \in Threads |-> AbstractPhase(u)] EXCEPT ![t] = AbstractPhase(t)']
           /\ [u \in Threads |-> AbstractHand(u)']
                = [[u \in Threads |-> AbstractHand(u)] EXCEPT ![t] = AbstractHand(t)']
<1> USE QueueAssumption DEF RingInv, Threads
<1>1. \A u \in Threads \ {t} : pc'[u] = pc[u]
  BY DEF TypeOK
<1>2. \A u \in Threads \ {t} : AbstractPhase(u)' = AbstractPhase(u)
  BY <1>1 DEF AbstractPhase
<1>3. ASSUME NEW u \in Threads \ {t} PROVE AbstractHand(u)' = AbstractHand(u)
  <2>1. CASE pc[u] = "read"
    <3>1. u \in Consumers /\ Draining(u)
      BY <2>1 DEF TypeOK, Draining
    <3>2. pos[u] \in Nat /\ head \in Nat /\ pos[u] + 1 \in 1 .. head
      BY <3>1 DEF Drainers, TypeOK
    <3> QED
      BY <1>1, <3>2 DEF AbstractHand
  <2>2. CASE pc[u] # "read"
    BY <1>1, <2>2 DEF AbstractHand
  <2> QED
    BY <2>1, <2>2
<1> QED
  BY <1>2, <1>3

(* The steps of a call that the abstract queue does not see. *)
LEMMA UnseenSteps ==
    ASSUME RingInv, RingInv',
           \/ \E p \in Producers : \/ PushSlotFree(p) \/ PushLate(p) \/ PushReload(p)
                                   \/ PushClaimFails(p) \/ PushWrite(p)
           \/ \E c \in Consumers : \/ PopSlotReady(c) \/ PopLate(c) \/ PopReload(c)
                                   \/ PopClaimFails(c) \/ PopRead(c)
    PROVE  UNCHANGED Fifo!vars
<1> USE QueueAssumption DEF RingInv, Threads
<1>1. ASSUME NEW t \in Threads, UNCHANGED <<head, tail, pushed>>,
             pc' = [pc EXCEPT ![t] = pc'[t]],
             \A u \in Threads \ {t} : pos'[u] = pos[u] /\ item'[u] = item[u],
             AbstractPhase(t)' = AbstractPhase(t), AbstractHand(t)' = AbstractHand(t)
      PROVE  UNCHANGED Fifo!vars
  <2>1. /\ [u \in Threads |-> AbstractPhase(u)'] = [u \in Threads |-> AbstractPhase(u)]
        /\ [u \in Threads |-> AbstractHand(u)'] = [u \in Threads |-> AbstractHand(u)]
    BY <1>1, OneThreadMoves
  <2> QED
    BY <1>1, <2>1 DEF Fifo!vars
<1>2. ASSUME NEW p \in Producers,
             \/ PushSlotFree(p) \/ PushLate(p) \/ PushReload(p)
             \/ PushClaimFails(p) \/ PushWrite(p)
      PROVE  UNCHANGED Fifo!vars
  <2>1. /\ UNCHANGED <<head, tail, pushed, item>>
        /\ pc' = [pc EXCEPT ![p] = pc'[p]]
        /\ \A u \in Threads \ {p} : pos'[u] = pos[u]
        /\ AbstractPhase(p)' = AbstractPhase(p)
        /\ pc[p] # "read" /\ pc'[p] # "read"
    BY <1>2 DEF PushSlotFree, PushLate, PushReload, PushClaimFails, PushWrite,
                Goto, AbstractPhase, TypeOK
  <2> QED
    BY <1>1, <2>1 DEF AbstractHand
<1>3. ASSUME NEW c \in Consumers,
             PopSlotReady(c) \/ PopLate(c) \/ PopReload(c) \/ PopClaimFails(c)
      PROVE  UNCHANGED Fifo!vars
  <2>1. /\ UNCHANGED <<head, tail, pushed, item>>
        /\ pc' = [pc EXCEPT ![c] = pc'[c]]
        /\ \A u \in Threads \ {c} : pos'[u] = pos[u]
        /\ AbstractPhase(c)' = AbstractPhase(c)
        /\ pc[c] # "read" /\ pc'[c] # "read"
    BY <1>3 DEF PopSlotReady, PopLate, PopReload, PopClaimFails, Goto, AbstractPhase, TypeOK
  <2> QED
    BY <1>1, <2>1 DEF AbstractHand
<1>4. ASSUME NEW c \in Consumers, PopRead(c)
      PROVE  UNCHANGED Fifo!vars
  <2>1. /\ UNCHANGED <<head, tail, pushed, pos>>
        /\ pc[c] = "read" /\ pc'[c] = "release"
        /\ pc' = [pc EXCEPT ![c] = pc'[c]]
        /\ item'[c] = data[Slot(pos[c])]
        /\ \A u \in Threads \ {c} : item'[u] = item[u]
    BY <1>4 DEF PopRead, Goto, TypeOK
  <2>2. item'[c] = pushed[pos[c] + 1]
    BY <2>1 DEF Drainers, Draining
  <2> QED
    BY <1>1, <2>1, <2>2 DEF AbstractHand, AbstractPhase
<1> QED
  BY <1>2, <1>3, <1>4
(* A push begins, is refused, takes effect at its CAS, and returns. *)
LEMMA PushImplements ==
    ASSUME Capacity > 1, RingInv, RingInv', NEW p \in Producers,
           \/ \E v \in Items : PushStart(p, v)
           \/ PushFull(p) \/ PushClaim(p) \/ PushPublish(p)
    PROVE  Fifo!Next
<1> USE QueueAssumption DEF RingInv, Threads
<1> DEFINE Phase == [t \in Threads |-> AbstractPhase(t)]
           Hand == [t \in Threads |-> AbstractHand(t)]
           held == SubSeq(pushed, head + 1, tail)
<1>1. ASSUME UNCHANGED <<head, pushed>> \/ PushClaim(p),
             pc' = [pc EXCEPT ![p] = pc'[p]],
             \A u \in Threads \ {p} : pos'[u] = pos[u] /\ item'[u] = item[u]
      PROVE  /\ [t \in Threads |-> AbstractPhase(t)'] = [Phase EXCEPT ![p] = AbstractPhase(p)']
             /\ [t \in Threads |-> AbstractHand(t)'] = [Hand EXCEPT ![p] = AbstractHand(p)']
  <2>1. \A n \in 1 .. head : pushed'[n] = pushed[n]
    <3>1. head \in Nat /\ head <= Len(pushed) /\ pushed \in Seq(Items)
      BY DEF TypeOK, WithinCapacity
    <3>2. CASE PushClaim(p)
      <4>1. item[p] \in Items /\ pushed' = Append(pushed, item[p])
        BY <3>2 DEF PushClaim, Goto, TypeOK
      <4> QED
        BY <3>1, <4>1
    <3> QED
      BY <1>1, <3>2
  <2> QED
    BY <1>1, <2>1, OneThreadMoves
<1>2. ASSUME NEW v \in Items, PushStart(p, v) PROVE Fifo!BeginPut(p, v)
  <2>1. /\ UNCHANGED <<head, tail, pushed>>
        /\ pc[p] = "idle" /\ pc' = [pc EXCEPT ![p] = pc'[p]] /\ pc'[p] = "seq"
        /\ item'[p] = v
        /\ \A u \in Threads \ {p} : pos'[u] = pos[u] /\ item'[u] = item[u]
    BY <1>2 DEF PushStart, Goto, TypeOK
  <2>2. /\ AbstractPhase(p) = "out" /\ AbstractPhase(p)' = "calling" /\ AbstractHand(p)' = v
    BY <2>1 DEF AbstractPhase, AbstractHand
  <2> QED
    BY <1>1, <2>1, <2>2 DEF Fifo!BeginPut, Fifo!Move
<1>3. ASSUME PushFull(p) PROVE Fifo!RefusePut(p)
  <2>1. /\ UNCHANGED <<head, tail, pushed>>
        /\ pc[p] = "seq" /\ pc' = [pc EXCEPT ![p] = pc'[p]] /\ pc'[p] = "idle"
        /\ item'[p] = NoItem
        /\ \A u \in Threads \ {p} : pos'[u] = pos[u] /\ item'[u] = item[u]
        /\ seq[Slot(pos[p])] < pos[p]
    BY <1>3 DEF PushFull, Return, Goto, TypeOK
  <2>2. /\ AbstractPhase(p) = "calling" /\ AbstractPhase(p)' = "out" /\ AbstractHand(p)' = NoItem
    BY <2>1 DEF AbstractPhase, AbstractHand
  <2>3. tail = head + Capacity \/ \E c \in Consumers : Draining(c)
    <3>1. /\ head \in Nat /\ tail \in Nat /\ head <= tail /\ tail <= head + Capacity
          /\ pos[p] \in Nat /\ pos[p] <= tail
      BY DEF TypeOK, WithinCapacity, PosOK
    <3>2. pos[p] >= head
      <4>1. pos[p] < head => seq[Slot(pos[p])] > pos[p]
        BY <3>1, OldSlotsMoveOn
      <4>2. seq[Slot(pos[p])] \in Nat
        BY <3>1, SlotRange DEF TypeOK
      <4> QED
        BY <2>1, <3>1, <4>1, <4>2
    <3>3. CASE pos[p] < tail
      BY <2>1, <3>1, <3>2, <3>3 DEF TakenSlots
    <3>4. CASE pos[p] = tail /\ tail < head + Capacity
      BY <2>1, <3>1, <3>4 DEF FreeSlots
    <3> QED
      BY <3>1, <3>3, <3>4
  <2>4. Len(held) = Capacity \/ \E c \in Consumers : Phase[c] = "done"
    <3>1. Len(held) = tail - head /\ head \in Nat /\ tail \in Nat
      BY HeldItems DEF TypeOK
    <3>2. \A c \in Consumers : Draining(c) => Phase[c] = "done"
      BY DEF AbstractPhase, Draining
    <3> QED
      BY <2>3, <3>1, <3>2
  <2> QED
    BY <1>1, <2>1, <2>2, <2>4 DEF Fifo!RefusePut, Fifo!Move
<1>4. ASSUME PushClaim(p) PROVE Fifo!Put(p)
  <2>1. /\ head' = head /\ tail' = tail + 1 /\ pushed' = Append(pushed, item[p])
        /\ pc[p] = "cas" /\ pc' = [pc EXCEPT ![p] = pc'[p]] /\ pc'[p] = "write"
        /\ UNCHANGED <<pos, item>> /\ item[p] \in Items
    BY <1>4 DEF PushClaim, Goto, TypeOK
  <2>2. /\ AbstractPhase(p) = "calling" /\ AbstractPhase(p)' = "done"
        /\ AbstractHand(p) = item[p] /\ AbstractHand(p)' = item[p]
    BY <2>1 DEF AbstractPhase, AbstractHand
  <2>3. Len(held) < Capacity
    BY <1>4, ClaimFindsRoom, HeldItems DEF TypeOK
  <2>4. SubSeq(pushed', head' + 1, tail') = Append(held, item[p])
    BY <2>1, HeldItems
  <2> QED
    BY <1>1, <1>4, <2>1, <2>2, <2>3, <2>4 DEF Fifo!Put, Fifo!Move
<1>5. ASSUME PushPublish(p) PROVE Fifo!End(p)
  <2>1. /\ UNCHANGED <<head, tail, pushed>>
        /\ pc[p] = "publish" /\ pc' = [pc EXCEPT ![p] = pc'[p]] /\ pc'[p] = "idle"
        /\ item'[p] = NoItem
        /\ \A u \in Threads \ {p} : pos'[u] = pos[u] /\ item'[u] = item[u]
    BY <1>5 DEF PushPublish, Return, Goto, TypeOK
  <2>2. /\ AbstractPhase(p) = "done" /\ AbstractPhase(p)' = "out" /\ AbstractHand(p)' = NoItem
    BY <2>1 DEF AbstractPhase, AbstractHand
  <2> QED
    BY <1>1, <2>1, <2>2 DEF Fifo!End, Fifo!Move
<1> QED
  BY <1>2, <1>3, <1>4, <1>5 DEF Fifo!Next, Fifo!Callers

(* A pop begins, finds nothing, takes effect at its CAS, and returns. *)
LEMMA PopImplements ==
    ASSUME Capacity > 1, RingInv, RingInv', NEW c \in Consumers,
           PopStart(c) \/ PopEmpty(c) \/ PopClaim(c) \/ PopRelease(c)
    PROVE  Fifo!Next
<1> USE QueueAssumption DEF RingInv, Threads
<1> DEFINE Phase == [t \in Threads |-> AbstractPhase(t)]
           Hand == [t \in Threads |-> AbstractHand(t)]
           held == SubSeq(pushed, head + 1, tail)
<1>1. ASSUME UNCHANGED pushed, pc' = [pc EXCEPT ![c] = pc'[c]],
             \A u \in Threads \ {c} : pos'[u] = pos[u] /\ item'[u] = item[u]
      PROVE  /\ [t \in Threads |-> AbstractPhase(t)'] = [Phase EXCEPT ![c] = AbstractPhase(c)']
             /\ [t \in Threads |-> AbstractHand(t)'] = [Hand EXCEPT ![c] = AbstractHand(c)']
  BY <1>1, OneThreadMoves
<1>2. ASSUME PopStart(c) PROVE Fifo!BeginGet(c)
  <2>1. /\ UNCHANGED <<head, tail, pushed, item>>
        /\ pc[c] = "idle" /\ pc' = [pc EXCEPT ![c] = pc'[c]] /\ pc'[c] = "seq"
        /\ item[c] = NoItem
        /\ \A u \in Threads \ {c} : pos'[u] = pos[u]
    BY <1>2 DEF PopStart, Goto, TypeOK
  <2>2. /\ AbstractPhase(c) = "out" /\ AbstractPhase(c)' = "calling" /\ AbstractHand(c)' = NoItem
    BY <2>1 DEF AbstractPhase, AbstractHand
  <2> QED
    BY <1>1, <2>1, <2>2 DEF Fifo!BeginGet, Fifo!Move
<1>3. ASSUME PopEmpty(c) PROVE Fifo!RefuseGet(c)
  <2>1. /\ UNCHANGED <<head, tail, pushed>>
        /\ pc[c] = "seq" /\ pc' = [pc EXCEPT ![c] = pc'[c]] /\ pc'[c] = "idle"
        /\ item'[c] = NoItem
        /\ \A u \in Threads \ {c} : pos'[u] = pos[u] /\ item'[u] = item[u]
        /\ seq[Slot(pos[c])] < pos[c] + 1
    BY <1>3 DEF PopEmpty, Return, Goto, TypeOK
  <2>2. /\ AbstractPhase(c) = "calling" /\ AbstractPhase(c)' = "out" /\ AbstractHand(c)' = NoItem
    BY <2>1 DEF AbstractPhase, AbstractHand
  <2>3. tail = head \/ \E p \in Producers : Filling(p) /\ item[p] = pushed[head + 1]
    <3>1. /\ head \in Nat /\ tail \in Nat /\ head <= tail
          /\ pos[c] \in Nat /\ pos[c] <= head
      BY DEF TypeOK, WithinCapacity, PosOK
    <3>2. pos[c] = head
      <4>1. pos[c] < head => seq[Slot(pos[c])] > pos[c]
        BY <3>1, OldSlotsMoveOn
      <4>2. seq[Slot(pos[c])] \in Nat
        BY <3>1, SlotRange DEF TypeOK
      <4> QED
        BY <2>1, <3>1, <4>1, <4>2
    <3>3. CASE head < tail
      BY <2>1, <3>1, <3>2, <3>3 DEF TakenSlots, Fillers
    <3> QED
      BY <3>1, <3>3
  <2>4. held = <<>> \/ \E p \in Producers : Phase[p] = "done" /\ Hand[p] = Head(held)
    <3>1. CASE tail = head
      <4>1. held \in Seq(Items) /\ Len(held) = tail - head /\ tail \in Nat
        BY HeldItems DEF TypeOK
      <4> QED
        BY <3>1, <4>1
    <3>2. CASE head < tail
      <4>1. Head(held) = pushed[head + 1]
        BY <3>2, HeldItems
      <4>2. \A p \in Producers : Filling(p) => Phase[p] = "done" /\ Hand[p] = item[p]
        BY DEF AbstractPhase, AbstractHand, Filling
      <4>3. tail # head
        BY <3>2 DEF TypeOK
      <4> HIDE DEF held, Phase, Hand
      <4>4. ASSUME NEW p \in Producers, Filling(p), item[p] = pushed[head + 1]
            PROVE  Phase[p] = "done" /\ Hand[p] = Head(held)
        BY <4>1, <4>2, <4>4
      <4> QED
        BY <2>3, <4>3, <4>4, Zenon
    <3>3. tail = head \/ head < tail
      <4>1. head \in Nat /\ tail \in Nat /\ head <= tail
        BY DEF TypeOK, WithinCapacity
      <4> QED
        BY <4>1
    <3> HIDE DEF held, Phase, Hand
    <3> QED
      BY <3>1, <3>2, <3>3, Zenon
  <2> QED
    BY <1>1, <2>1, <2>2, <2>4 DEF Fifo!RefuseGet, Fifo!Move
<1>4. ASSUME PopClaim(c) PROVE Fifo!Get(c)
  <2>1. /\ head' = head + 1 /\ UNCHANGED <<tail, pushed, pos, item>>
        /\ pc[c] = "cas" /\ pc' = [pc EXCEPT ![c] = pc'[c]] /\ pc'[c] = "read"
        /\ pos[c] = head
    BY <1>4 DEF PopClaim, Goto, TypeOK
  <2>2. head < tail /\ held # <<>> /\ Head(held) = pushed[head + 1]
    BY <1>4, ClaimFindsItem, HeldItems
  <2>3. /\ AbstractPhase(c) = "calling" /\ AbstractPhase(c)' = "done"
        /\ AbstractHand(c)' = Head(held)
    BY <2>1, <2>2 DEF AbstractPhase, AbstractHand
  <2>4. SubSeq(pushed', head' + 1, tail') = Tail(held)
    <3>1. Tail(held) = SubSeq(pushed, head + 2, tail)
      BY <2>2, HeldItems
    <3>2. (head + 1) + 1 = head + 2
      BY DEF TypeOK
    <3> QED
      BY <2>1, <3>1, <3>2
  <2> QED
    BY <1>1, <2>1, <2>2, <2>3, <2>4 DEF Fifo!Get, Fifo!Move
<1>5. ASSUME PopRelease(c) PROVE Fifo!End(c)
  <2>1. /\ UNCHANGED <<head, tail, pushed>>
        /\ pc[c] = "release" /\ pc' = [pc EXCEPT ![c] = pc'[c]] /\ pc'[c] = "idle"
        /\ item'[c] = NoItem
        /\ \A u \in Threads \ {c} : pos'[u] = pos[u] /\ item'[u] = item[u]
    BY <1>5 DEF PopRelease, Return, Goto, TypeOK
  <2>2. /\ AbstractPhase(c) = "done" /\ AbstractPhase(c)' = "out" /\ AbstractHand(c)' = NoItem
    BY <2>1 DEF AbstractPhase, AbstractHand
  <2> QED
    BY <1>1, <2>1, <2>2 DEF Fifo!End, Fifo!Move
<1> QED
  BY <1>2, <1>3, <1>4, <1>5 DEF Fifo!Next, Fifo!Callers

(* The ring implements the bounded FIFO: initial states are initial        *)
(* states, every access is a step of it or nothing.  In particular a push  *)
(* is refused only with the queue full or a pop in mid-call, and a pop     *)
(* finds nothing only with it empty or the oldest push in mid-call.        *)
THEOREM RingIsFifo == ASSUME Capacity > 1 PROVE Spec => ImplementsFifo
<1> USE QueueAssumption
<1>1. Init => Fifo!Init
  BY DEF Init, Fifo!Init, Threads, Fifo!Callers, AbstractPhase, AbstractHand
<1>2. RingInv /\ RingInv' /\ [Next]_vars => [Fifo!Next]_(Fifo!vars)
  <2> SUFFICES ASSUME RingInv, RingInv', [Next]_vars PROVE [Fifo!Next]_(Fifo!vars)
    OBVIOUS
  <2>1. ASSUME NEW p \in Producers, NEW v \in Items, PushStart(p, v) PROVE Fifo!Next
    BY <2>1, PushImplements
  <2>2. ASSUME NEW p \in Producers, PushStep(p) PROVE [Fifo!Next]_(Fifo!vars)
    BY <2>2, PushImplements, UnseenSteps DEF PushStep
  <2>3. ASSUME NEW c \in Consumers, PopStart(c) \/ PopStep(c)
        PROVE  [Fifo!Next]_(Fifo!vars)
    BY <2>3, PopImplements, UnseenSteps DEF PopStep
  <2>4. CASE UNCHANGED vars
    BY <2>4 DEF vars, Fifo!vars, AbstractPhase, AbstractHand
  <2> QED
    BY <2>1, <2>2, <2>3, <2>4 DEF Next
<1> QED
  BY <1>1, <1>2, RingInvariant, PTL DEF Spec, Fifo!Spec, ImplementsFifo
=============================================================================
