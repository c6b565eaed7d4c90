----------------------------- MODULE BoundedFifo -----------------------------
(***************************************************************************)
(* What the users of fp_queue rely on: a FIFO of at most Capacity items    *)
(* shared by any number of threads.  A call is a window between its begin  *)
(* and its end; it takes effect at one instant inside that window.  The    *)
(* two EAGAIN answers are the interesting part: a put may be refused, and  *)
(* a get may find nothing, only when the ring is really full or empty OR   *)
(* another thread is between the effect of its call and its return.        *)
(***************************************************************************)
EXTENDS Naturals, Sequences

CONSTANTS Putters,   (* threads that put *)
          Getters,   (* threads that get *)
          Items,     (* what is carried *)
          None,      (* the empty hand *)
          Capacity   (* most items held at once *)

VARIABLES fifo,      (* the items held, oldest first *)
          phase,     (* of each thread: outside a call, in one, or past its effect *)
          hand       (* the item a thread is putting or has taken *)

vars == <<fifo, phase, hand>>

Callers == Putters \cup Getters

TypeOK ==
    /\ fifo \in Seq(Items)
    /\ Len(fifo) <= Capacity
    /\ phase \in [Callers -> {"out", "calling", "done"}]
    /\ hand \in [Callers -> Items \cup {None}]

Init ==
    /\ fifo = <<>>
    /\ phase = [t \in Callers |-> "out"]
    /\ hand = [t \in Callers |-> None]

(* Thread t moves between two phases and then holds v. *)
Move(t, from, to, v) ==
    /\ phase[t] = from
    /\ phase' = [phase EXCEPT ![t] = to]
    /\ hand' = [hand EXCEPT ![t] = v]

BeginPut(p, v) == Move(p, "out", "calling", v) /\ UNCHANGED fifo

(* The effect of a successful put. *)
Put(p) ==
    /\ Len(fifo) < Capacity
    /\ Move(p, "calling", "done", hand[p])
    /\ fifo' = Append(fifo, hand[p])

(* Refused: full, or a getter has not yet given its slot back. *)
RefusePut(p) ==
    /\ Len(fifo) = Capacity \/ \E c \in Getters : phase[c] = "done"
    /\ Move(p, "calling", "out", None)
    /\ UNCHANGED fifo

BeginGet(c) == Move(c, "out", "calling", None) /\ UNCHANGED fifo

(* The effect of a successful get. *)
Get(c) ==
    /\ fifo # <<>>
    /\ Move(c, "calling", "done", Head(fifo))
    /\ fifo' = Tail(fifo)

(* Nothing found: empty, or the putter of the oldest item has not returned. *)
RefuseGet(c) ==
    /\ \/ fifo = <<>>
       \/ \E p \in Putters : phase[p] = "done" /\ hand[p] = Head(fifo)
    /\ Move(c, "calling", "out", None)
    /\ UNCHANGED fifo

(* A call past its effect returns. *)
End(t) == Move(t, "done", "out", None) /\ UNCHANGED fifo

Next ==
    \/ \E p \in Putters : \/ \E v \in Items : BeginPut(p, v)
                          \/ Put(p)
                          \/ RefusePut(p)
    \/ \E c \in Getters : BeginGet(c) \/ Get(c) \/ RefuseGet(c)
    \/ \E t \in Callers : End(t)

Spec == Init /\ [][Next]_vars
=============================================================================
