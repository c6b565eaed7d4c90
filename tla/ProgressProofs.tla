--------------------------- MODULE ProgressProofs ---------------------------
(***************************************************************************)
(* Proofs about Progress for any number of requests and event streams, any *)
(* ids and any size of the registry.                                       *)
(***************************************************************************)
EXTENDS Progress, FiniteSetTheorems, TLAPS

RequestPlaces == {"new", "refused", "registered", "pushing", "waiting", "status", "close",
                  "drop", "forget", "destroy", "done", "dangling"}
JobPlaces == {"none", "made", "working", "leaked", "drop", "forget", "destroy", "deliver",
              "done", "dangling"}
StreamPlaces == {"seeking", "unknown", "found", "attached", "streaming", "drop", "forget",
                 "destroy", "done", "dangling"}

(* Each kind of actor keeps to its own places and its own channel, and a   *)
(* job to the steps its request has made.                                  *)
ActorsOK ==
    /\ \A s \in Submissions :
         /\ pc[Request(s)] \in RequestPlaces /\ on[Request(s)] = s
         /\ pc[Job(s)] \in JobPlaces /\ on[Job(s)] = s
         /\ pc[Request(s)] \in {"new", "refused", "registered"} => pc[Job(s)] = "none"
         /\ pc[Request(s)] = "pushing" => pc[Job(s)] = "made"
    /\ \A r \in Streams :
         /\ pc[Stream(r)] \in StreamPlaces
         /\ on[Stream(r)] = NoChannel <=> pc[Stream(r)] \in {"seeking", "unknown"}

(* A channel that does not exist yet is known to nobody. *)
Unborn ==
    \A s \in Submissions :
        /\ life[s] = "none" <=> pc[Request(s)] \in {"new", "refused"}
        /\ life[s] = "none" => /\ \A i \in Index : entries[i] # s
                               /\ \A r \in Streams : on[Stream(r)] # s
                               /\ s \notin late

(* Who is about to free the channel of s. *)
Enders(s) == {a \in Actors : on[a] = s /\ pc[a] \in {"forget", "destroy"}}

(* The count of a live channel is that of its holders. *)
Counted ==
    \A s \in Submissions :
        /\ IsFiniteSet(Holders(s))
        /\ life[s] = "live" => ref[s] = Cardinality(Holders(s))

(* Unless an acquire came late, one actor frees the channel, and only when *)
(* nobody holds it.                                                        *)
EndsOnce ==
    \A s \in Submissions \ late :
        /\ life[s] = "freed" => Holders(s) = {} /\ Enders(s) = {}
        /\ \A a, b \in Enders(s) : a = b /\ Holders(s) = {}

(* Nothing goes wrong with a channel before its request has dropped it. *)
RequestHasLeft ==
    \A s \in Submissions : s \in late \/ life[s] = "freed" => Request(s) \notin Holders(s)

(* The inductive invariant, whatever the ids. *)
CountInv == Counted /\ EndsOnce /\ RequestHasLeft /\ DanglingOnlyAfterLateLock
RefInv == TypeOK /\ ActorsOK /\ Unborn /\ CountInv
-----------------------------------------------------------------------------
(* Actors. *)

LEMMA ActorsDiffer ==
    /\ \A s \in Submissions : Request(s) \in Actors /\ Job(s) \in Actors
    /\ \A r \in Streams : Stream(r) \in Actors
    /\ \A s, t \in Submissions : Request(s) # Job(t)
    /\ \A s, t \in Submissions : Request(s) = Request(t) => s = t
    /\ \A s, t \in Submissions : Job(s) = Job(t) => s = t
    /\ \A s \in Submissions, r \in Streams : Request(s) # Stream(r) /\ Job(s) # Stream(r)
    /\ \A q, r \in Streams : Stream(q) = Stream(r) => q = r
    /\ \A s \in Submissions : Request(s) \in Requests /\ Job(s) \notin Requests
    /\ \A s \in Submissions : Job(s) \in Jobs /\ Request(s) \notin Jobs
    /\ \A r \in Streams : Stream(r) \notin Requests /\ Stream(r) \notin Jobs
BY DEF Request, Job, Stream, Actors, Requests, Jobs

LEMMA ActorKinds ==
    ASSUME NEW a \in Actors
    PROVE  \/ \E s \in Submissions : a = Request(s)
           \/ \E s \in Submissions : a = Job(s)
           \/ \E r \in Streams : a = Stream(r)
BY DEF Actors, Requests, Jobs

(* An actor that works on a channel at a step that holds it. *)
Holding(a) ==
    pc[a] \in (IF a \in Requests
               THEN {"registered", "pushing", "waiting", "status", "close", "drop"}
               ELSE {"made", "working", "leaked", "attached", "streaming", "drop"})

LEMMA HoldersAre == \A s : \A a : a \in Holders(s) <=> a \in Actors /\ on[a] = s /\ Holding(a)
BY DEF Holders, Holding

(* What one actor's step does to the holders and enders. *)
LEMMA OneActorMoves ==
    ASSUME TypeOK, NEW a \in Actors, on' = on, pc' = [pc EXCEPT ![a] = pc'[a]]
    PROVE  /\ \A b \in Actors : b # a => pc'[b] = pc[b]
           /\ \A s : s # on[a] => Holders(s)' = Holders(s) /\ Enders(s)' = Enders(s)
           /\ Holders(on[a])' = IF Holding(a)' THEN Holders(on[a]) \cup {a}
                                ELSE Holders(on[a]) \ {a}
           /\ Enders(on[a])' = IF pc'[a] \in {"forget", "destroy"} THEN Enders(on[a]) \cup {a}
                               ELSE Enders(on[a]) \ {a}
<1>1. \A b \in Actors : b # a => pc'[b] = pc[b]
  BY DEF TypeOK
<1>2. \A b \in Actors : b # a => (Holding(b)' <=> Holding(b))
  BY <1>1 DEF Holding
<1>3. ASSUME NEW s, s # on[a] PROVE Holders(s)' = Holders(s) /\ Enders(s)' = Enders(s)
  <2>1. Holders(s)' = Holders(s)
    <3>1. \A b \in Actors : b # a => (Holding(b)' <=> Holding(b))
      BY <1>2
    <3> QED
      BY <1>3, <3>1 DEF Holders, Holding
  <2>2. Enders(s)' = Enders(s)
    BY <1>1, <1>3 DEF Enders
  <2> QED
    BY <2>1, <2>2
<1>4. Holders(on[a])' = IF Holding(a)' THEN Holders(on[a]) \cup {a} ELSE Holders(on[a]) \ {a}
  BY <1>2 DEF Holders, Holding
<1>5. Enders(on[a])' = IF pc'[a] \in {"forget", "destroy"} THEN Enders(on[a]) \cup {a}
                       ELSE Enders(on[a]) \ {a}
  BY <1>1 DEF Enders
<1> QED
  BY <1>1, <1>3, <1>4, <1>5

(* Steps that leave the holders, the enders, the counts and the lives of   *)
(* the channels as they are.                                               *)
LEMMA QuietKeepsCounts ==
    ASSUME CountInv, UNCHANGED <<ref, life, late>>,
           \A s \in Submissions : Holders(s)' = Holders(s) /\ Enders(s)' = Enders(s),
           \A a \in Actors : pc'[a] = "dangling" => pc[a] = "dangling" /\ on'[a] = on[a]
    PROVE  CountInv'
<1> USE DEF CountInv
<1>1. Counted'
  BY DEF Counted
<1>2. EndsOnce'
  BY DEF EndsOnce
<1>3. RequestHasLeft'
  BY DEF RequestHasLeft
<1>4. DanglingOnlyAfterLateLock'
  BY DEF DanglingOnlyAfterLateLock
<1> QED
  BY <1>1, <1>2, <1>3, <1>4

(* One actor's step that does not change whether it holds its channel or   *)
(* ends it.                                                                *)
LEMMA QuietMove ==
    ASSUME TypeOK, CountInv, NEW a \in Actors, on' = on, pc' = [pc EXCEPT ![a] = pc'[a]],
           UNCHANGED <<ref, life, late>>, pc'[a] # "dangling",
           Holding(a)' <=> Holding(a),
           pc'[a] \in {"forget", "destroy"} <=> pc[a] \in {"forget", "destroy"}
    PROVE  CountInv'
<1>1. /\ \A b \in Actors : b # a => pc'[b] = pc[b]
      /\ \A s : s # on[a] => Holders(s)' = Holders(s) /\ Enders(s)' = Enders(s)
      /\ Holders(on[a])' = IF Holding(a)' THEN Holders(on[a]) \cup {a} ELSE Holders(on[a]) \ {a}
      /\ Enders(on[a])' = IF pc'[a] \in {"forget", "destroy"} THEN Enders(on[a]) \cup {a}
                          ELSE Enders(on[a]) \ {a}
  BY OneActorMoves
<1>2. Holders(on[a])' = Holders(on[a])
  BY <1>1 DEF Holders, Holding
<1>3. Enders(on[a])' = Enders(on[a])
  BY <1>1 DEF Enders
<1>4. \A s \in Submissions : Holders(s)' = Holders(s) /\ Enders(s)' = Enders(s)
  BY <1>1, <1>2, <1>3
<1> HIDE DEF CountInv
<1> QED
  BY <1>1, <1>4, QuietKeepsCounts
-----------------------------------------------------------------------------
(* The request thread. *)

LEMMA RegisterCounts ==
    ASSUME RefInv, NEW s \in Submissions, Register(s)
    PROVE  RefInv'
<1> USE ProgressAssumption DEF RefInv
<1> DEFINE a == Request(s)
<1>1. /\ a \in Actors /\ on[a] = s /\ a \in Requests
      /\ pc[a] = "new" /\ pc' = [pc EXCEPT ![a] = "registered"] /\ on' = on
      /\ life[s] = "none" /\ life' = [life EXCEPT ![s] = "live"]
      /\ ref' = [ref EXCEPT ![s] = 1]
      /\ UNCHANGED <<closed, events, log, results, late, served>>
  BY ActorsDiffer DEF Register, Goto, ActorsOK, Unborn
<1>2. PICK i \in Index : entries' = [entries EXCEPT ![Probe(IdOf[s], i)] = s]
  BY DEF Register
<1>3. pc[Job(s)] = "none"
  BY <1>1 DEF ActorsOK
<1>4. \A b \in Actors : b # a => pc'[b] = pc[b]
  BY <1>1 DEF TypeOK
<1>5. /\ \A t : t # s => Holders(t)' = Holders(t) /\ Enders(t)' = Enders(t)
      /\ Holders(s)' = Holders(s) \cup {a}
      /\ Enders(s)' = Enders(s) \ {a}
  <2>1. pc' = [pc EXCEPT ![a] = pc'[a]] /\ pc'[a] = "registered" /\ Holding(a)'
    BY <1>1 DEF TypeOK, Holding
  <2> HIDE DEF a
  <2> QED
    BY <1>1, <2>1, OneActorMoves
<1>6. Holders(s) = {} /\ Enders(s) = {}
  <2>1. ASSUME NEW b \in Actors, on[b] = s PROVE pc[b] \in {"new", "none"}
    <3>1. CASE \E t \in Submissions : b = Request(t)
      BY <1>1, <2>1, <3>1 DEF ActorsOK
    <3>2. CASE \E t \in Submissions : b = Job(t)
      BY <1>3, <2>1, <3>2 DEF ActorsOK
    <3>3. CASE \E r \in Streams : b = Stream(r)
      BY <1>1, <2>1, <3>3 DEF Unborn
    <3> QED
      BY <3>1, <3>2, <3>3, ActorKinds
  <2> QED
    BY <2>1 DEF Holders, Enders
<1>7. TypeOK'
  BY <1>1, <1>2 DEF TypeOK, Touches
<1>8. ActorsOK'
  BY <1>1, <1>3, <1>4, ActorsDiffer DEF ActorsOK, RequestPlaces
<1>9. Unborn'
  <2>1. ASSUME NEW t \in Submissions, t # s
        PROVE  /\ life'[t] = life[t] /\ pc'[Request(t)] = pc[Request(t)]
               /\ \A j \in Index : entries'[j] = t => entries[j] = t
    BY <1>1, <1>2, <1>4, <2>1, ActorsDiffer DEF TypeOK
  <2>2. life'[s] = "live" /\ pc'[Request(s)] = "registered"
    BY <1>1 DEF TypeOK
  <2> QED
    BY <1>1, <2>1, <2>2 DEF Unborn
<1>10. Counted'
  <2>1. Holders(s)' = {a} /\ ref'[s] = 1
    BY <1>1, <1>5, <1>6 DEF TypeOK
  <2>2. IsFiniteSet({a}) /\ Cardinality({a}) = 1
    BY FS_Singleton
  <2>3. ASSUME NEW t \in Submissions, t # s
        PROVE  life'[t] = life[t] /\ ref'[t] = ref[t] /\ Holders(t)' = Holders(t)
    BY <1>1, <1>5, <2>3 DEF TypeOK
  <2> QED
    BY <2>1, <2>2, <2>3 DEF CountInv, Counted
<1>11. EndsOnce'
  <2>1. Enders(s)' = {} /\ life'[s] = "live"
    BY <1>1, <1>5, <1>6 DEF TypeOK
  <2>2. ASSUME NEW t \in Submissions, t # s
        PROVE  /\ life'[t] = life[t] /\ Holders(t)' = Holders(t)
               /\ Enders(t)' = Enders(t)
    BY <1>1, <1>5, <2>2 DEF TypeOK
  <2> QED
    BY <1>1, <2>1, <2>2 DEF CountInv, EndsOnce
<1>12. RequestHasLeft'
  <2>1. s \notin late /\ life'[s] = "live"
    BY <1>1 DEF Unborn, TypeOK
  <2>2. ASSUME NEW t \in Submissions, t # s
        PROVE  life'[t] = life[t] /\ Holders(t)' = Holders(t)
    BY <1>1, <1>5, <2>2 DEF TypeOK
  <2> QED
    BY <1>1, <2>1, <2>2 DEF CountInv, RequestHasLeft
<1>13. DanglingOnlyAfterLateLock'
  BY <1>1, <1>4 DEF CountInv, DanglingOnlyAfterLateLock, TypeOK
<1> QED
  BY <1>7, <1>8, <1>9, <1>10, <1>11, <1>12, <1>13 DEF CountInv

(* An event is appended to a live channel, or dropped. *)
LEMMA PushTypes ==
    ASSUME TypeOK, NEW s \in Submissions, NEW e \in {"output", "status"},
           life[s] = "live", life' = life, Push(s, e)
    PROVE  /\ events' \in [Submissions -> Seq({"output", "status"})]
           /\ log' \in [Submissions -> Seq({"output", "status"})]
           /\ \A t \in Submissions : life'[t] # "live" => events'[t] = <<>>
<1>1. /\ Append(events[s], e) \in Seq({"output", "status"})
      /\ Append(log[s], e) \in Seq({"output", "status"})
  BY DEF TypeOK
<1> QED
  BY <1>1 DEF Push, TypeOK

LEMMA RequestQuietCounts ==
    ASSUME RefInv, NEW s \in Submissions,
           RegisterFails(s) \/ TakeResult(s) \/ EmitStatus(s) \/ Close(s)
    PROVE  RefInv'
<1> USE DEF RefInv
<1> DEFINE a == Request(s)
<1>1. /\ a \in Actors /\ on[a] = s /\ a \in Requests
      /\ on' = on /\ UNCHANGED <<entries, life, ref, late, served>>
      /\ pc' = [pc EXCEPT ![a] = pc'[a]]
      /\ results' \subseteq results
      /\ \/ pc[a] = "new" /\ pc'[a] = "refused"
         \/ pc[a] = "waiting" /\ pc'[a] = "status"
         \/ pc[a] = "status" /\ pc'[a] = "close"
         \/ pc[a] = "close" /\ pc'[a] = "drop"
  BY ActorsDiffer DEF RegisterFails, TakeResult, EmitStatus, Close, Goto, ActorsOK, At, chan,
                      TypeOK
<1>2. \A b \in Actors : b # a => pc'[b] = pc[b]
  BY <1>1 DEF TypeOK
<1>3. /\ closed' \in [Submissions -> BOOLEAN]
      /\ events' \in [Submissions -> Seq({"output", "status"})]
      /\ log' \in [Submissions -> Seq({"output", "status"})]
      /\ \A t \in Submissions : life'[t] # "live" => events'[t] = <<>>
  <2>1. CASE RegisterFails(s) \/ TakeResult(s) \/ Close(s)
    BY <2>1 DEF RegisterFails, TakeResult, Close, chan, TypeOK
  <2>2. CASE EmitStatus(s)
    <3>1. life[s] = "live" /\ life' = life /\ closed' = closed /\ Push(s, "status")
      BY <1>1, <2>2 DEF EmitStatus, At
    <3> QED
      BY <3>1, PushTypes DEF TypeOK
  <2> QED
    BY <2>1, <2>2
<1>4. pc' \in [Actors -> Touches \cup {"new", "refused", "pushing", "waiting",
                 "none", "made", "leaked", "deliver", "seeking", "unknown",
                 "attached", "done", "dangling"}]
  BY <1>1 DEF TypeOK, Touches
<1>5. TypeOK'
  BY <1>1, <1>3, <1>4 DEF TypeOK
<1>6. ActorsOK'
  BY <1>1, <1>2, ActorsDiffer DEF ActorsOK, RequestPlaces
<1>7. Unborn'
  BY <1>1, <1>2, ActorsDiffer DEF Unborn
<1>8. CountInv'
  <2>1. Holding(a)' <=> Holding(a)
    BY <1>1 DEF Holding
  <2>2. /\ pc'[a] # "dangling"
        /\ pc'[a] \in {"forget", "destroy"} <=> pc[a] \in {"forget", "destroy"}
    BY <1>1
  <2> HIDE DEF a
  <2> QED
    BY <1>1, <2>1, <2>2, QuietMove
<1> QED
  BY <1>5, <1>6, <1>7, <1>8

(* A step of a request and of its job at once. *)
LEMMA TwoActorsMove ==
    ASSUME TypeOK, ActorsOK, NEW s \in Submissions, on' = on,
           NEW x, NEW y, pc' = [pc EXCEPT ![Request(s)] = x, ![Job(s)] = y]
    PROVE  /\ pc'[Request(s)] = x /\ pc'[Job(s)] = y
           /\ \A b \in Actors \ {Request(s), Job(s)} : pc'[b] = pc[b]
           /\ \A t : t # s => Holders(t)' = Holders(t) /\ Enders(t)' = Enders(t)
           /\ \A b \in Actors \ {Request(s), Job(s)} :
                /\ b \in Holders(s)' <=> b \in Holders(s)
                /\ b \in Enders(s)' <=> b \in Enders(s)
<1>1. Request(s) \in Actors /\ Job(s) \in Actors /\ Request(s) # Job(s)
  BY ActorsDiffer
<1>2. pc'[Request(s)] = x /\ pc'[Job(s)] = y
  BY <1>1 DEF TypeOK
<1>3. \A b \in Actors \ {Request(s), Job(s)} : pc'[b] = pc[b]
  BY DEF TypeOK
<1>4. \A b \in Actors \ {Request(s), Job(s)} : Holding(b)' <=> Holding(b)
  BY <1>3 DEF Holding
<1>5. on[Request(s)] = s /\ on[Job(s)] = s
  BY DEF ActorsOK
<1>6. ASSUME NEW t, t # s PROVE Holders(t)' = Holders(t) /\ Enders(t)' = Enders(t)
  <2>1. Holders(t)' = Holders(t)
    BY <1>4, <1>5, <1>6 DEF Holders, Holding
  <2>2. Enders(t)' = Enders(t)
    BY <1>3, <1>5, <1>6 DEF Enders
  <2> QED
    BY <2>1, <2>2
<1>7. \A b \in Actors \ {Request(s), Job(s)} : b \in Holders(s)' <=> b \in Holders(s)
  BY <1>4 DEF Holders, Holding
<1>8. \A b \in Actors \ {Request(s), Job(s)} : b \in Enders(s)' <=> b \in Enders(s)
  BY <1>3 DEF Enders
<1> QED
  BY <1>2, <1>3, <1>6, <1>7, <1>8

(* The job gets its reference, or is pushed, or given up. *)
LEMMA RetainAndPushCounts ==
    ASSUME RefInv, NEW s \in Submissions, Retain(s) \/ PushJob(s) \/ PushGivesUp(s)
    PROVE  RefInv'
<1> USE DEF RefInv
<1> DEFINE a == Request(s)
           j == Job(s)
           x == pc'[a]
           y == pc'[j]
<1>1. /\ a \in Actors /\ on[a] = s /\ a \in Requests
      /\ j \in Actors /\ on[j] = s /\ j \notin Requests /\ a # j
  BY ActorsDiffer DEF ActorsOK
<1>2. /\ on' = on /\ UNCHANGED <<entries, life, closed, events, log, results, late, served>>
      /\ pc' = [pc EXCEPT ![a] = x, ![j] = y]
      /\ \/ /\ pc[a] = "registered" /\ life[s] = "live" /\ x = "pushing" /\ y = "made"
            /\ ref' = [ref EXCEPT ![s] = @ + 1]
         \/ pc[a] = "pushing" /\ x = "waiting" /\ y = "working" /\ ref' = ref
         \/ pc[a] = "pushing" /\ x = "status" /\ y = "leaked" /\ ref' = ref
  BY <1>1 DEF Retain, PushJob, PushGivesUp, At, chan, TypeOK
<1>3. /\ \A b \in Actors \ {a, j} : pc'[b] = pc[b]
      /\ \A t : t # s => Holders(t)' = Holders(t) /\ Enders(t)' = Enders(t)
      /\ \A b \in Actors \ {a, j} : /\ b \in Holders(s)' <=> b \in Holders(s)
                                    /\ b \in Enders(s)' <=> b \in Enders(s)
  <2> HIDE DEF x, y
  <2> QED
    BY <1>2, TwoActorsMove
<1>4. pc[a] = "registered" => pc[j] = "none"
  BY DEF ActorsOK
<1>5. pc[a] = "pushing" => pc[j] = "made"
  BY DEF ActorsOK
<1>6. a \in Holders(s) /\ a \in Holders(s)' /\ a \notin Enders(s) /\ a \notin Enders(s)'
  BY <1>1, <1>2 DEF Holders, Enders
<1>7. /\ j \notin Enders(s) /\ j \notin Enders(s)' /\ j \in Holders(s)'
      /\ pc[a] = "registered" <=> j \notin Holders(s)
  BY <1>1, <1>2, <1>4, <1>5 DEF Holders, Enders
<1>8. Enders(s)' = Enders(s) /\ Holders(s)' = Holders(s) \cup {j}
  <2>1. Enders(s) \subseteq Actors /\ Enders(s)' \subseteq Actors
    BY DEF Enders
  <2>2. Holders(s) \subseteq Actors /\ Holders(s)' \subseteq Actors
    BY DEF Holders
  <2> HIDE DEF a, j
  <2> QED
    BY <1>3, <1>6, <1>7, <2>1, <2>2
<1>9. TypeOK'
  <2>1. ref' \in [Submissions -> Nat]
    BY <1>2 DEF TypeOK
  <2>2. pc' \in [Actors -> Touches \cup {"new", "refused", "pushing", "waiting",
                   "none", "made", "leaked", "deliver", "seeking", "unknown",
                   "attached", "done", "dangling"}]
    BY <1>2 DEF TypeOK, Touches
  <2> QED
    BY <1>2, <2>1, <2>2 DEF TypeOK
<1>10. ActorsOK'
  <2>1. ASSUME NEW t \in Submissions, t # s
        PROVE  pc'[Request(t)] = pc[Request(t)] /\ pc'[Job(t)] = pc[Job(t)]
    BY <1>3, <2>1, ActorsDiffer
  <2>2. \A r \in Streams : pc'[Stream(r)] = pc[Stream(r)]
    BY <1>3, ActorsDiffer
  <2> QED
    BY <1>2, <2>1, <2>2 DEF ActorsOK, RequestPlaces, JobPlaces
<1>11. Unborn'
  <2>1. ASSUME NEW t \in Submissions, t # s PROVE pc'[Request(t)] = pc[Request(t)]
    BY <1>3, <2>1, ActorsDiffer
  <2> QED
    BY <1>2, <2>1 DEF Unborn
<1>12. CountInv'
  <2>1. Counted'
    <3>1. IsFiniteSet(Holders(s)) /\ (life[s] = "live" => ref[s] = Cardinality(Holders(s)))
      BY DEF CountInv, Counted
    <3>2. /\ IsFiniteSet(Holders(s)')
          /\ Cardinality(Holders(s)') = IF j \in Holders(s) THEN Cardinality(Holders(s))
                                        ELSE Cardinality(Holders(s)) + 1
      BY <1>8, <3>1, FS_AddElement
    <3>3. life[s] = "live" => ref'[s] = Cardinality(Holders(s)')
      BY <1>2, <1>7, <3>1, <3>2 DEF TypeOK
    <3>4. ASSUME NEW t \in Submissions, t # s
          PROVE  ref'[t] = ref[t] /\ Holders(t)' = Holders(t)
      BY <1>2, <1>3, <3>4 DEF TypeOK
    <3> QED
      BY <1>2, <3>2, <3>3, <3>4 DEF CountInv, Counted
  <2>2. EndsOnce'
    <3>1. ASSUME NEW t \in Submissions \ late
          PROVE  /\ life[t] = "freed" => Holders(t)' = {} /\ Enders(t)' = {}
                 /\ \A b, c \in Enders(t)' : b = c /\ Holders(t)' = {}
      <4>1. CASE t = s
        BY <1>6, <1>8, <3>1, <4>1 DEF CountInv, EndsOnce
      <4>2. CASE t # s
        BY <1>3, <3>1, <4>2 DEF CountInv, EndsOnce
      <4> QED
        BY <4>1, <4>2
    <3> QED
      BY <1>2, <3>1 DEF EndsOnce
  <2>3. RequestHasLeft'
    <3>1. s \notin late /\ life[s] # "freed"
      BY <1>6 DEF CountInv, RequestHasLeft
    <3>2. ASSUME NEW t \in Submissions, t # s PROVE Holders(t)' = Holders(t)
      BY <1>3, <3>2
    <3> QED
      BY <1>2, <3>1, <3>2 DEF CountInv, RequestHasLeft
  <2>4. DanglingOnlyAfterLateLock'
    BY <1>2, <1>3 DEF CountInv, DanglingOnlyAfterLateLock
  <2> QED
    BY <2>1, <2>2, <2>3, <2>4 DEF CountInv
<1> QED
  BY <1>9, <1>10, <1>11, <1>12
-----------------------------------------------------------------------------
(* The worker. *)

LEMMA WorkerCounts ==
    ASSUME RefInv, NEW s \in Submissions, EmitOutput(s) \/ FreeJob(s) \/ PushResult(s)
    PROVE  RefInv'
<1> USE DEF RefInv
<1> DEFINE a == Job(s)
<1>1. /\ a \in Actors /\ on[a] = s /\ a \notin Requests
      /\ on' = on /\ UNCHANGED <<entries, life, ref, closed, late, served>>
      /\ pc' = [pc EXCEPT ![a] = pc'[a]]
      /\ results' \subseteq Submissions
      /\ \/ pc[a] = "working" /\ pc'[a] = "working"
         \/ pc[a] = "working" /\ pc'[a] = "drop"
         \/ pc[a] = "deliver" /\ pc'[a] = "done"
  BY ActorsDiffer DEF EmitOutput, FreeJob, PushResult, Goto, ActorsOK, At, chan, TypeOK
<1>2. \A b \in Actors : b # a => pc'[b] = pc[b]
  BY <1>1 DEF TypeOK
<1>3. /\ events' \in [Submissions -> Seq({"output", "status"})]
      /\ log' \in [Submissions -> Seq({"output", "status"})]
      /\ \A t \in Submissions : life'[t] # "live" => events'[t] = <<>>
  <2>1. CASE FreeJob(s) \/ PushResult(s)
    BY <2>1 DEF FreeJob, PushResult, chan, TypeOK
  <2>2. CASE EmitOutput(s)
    <3>1. life[s] = "live" /\ life' = life /\ Push(s, "output")
      BY <1>1, <2>2 DEF EmitOutput, At
    <3> QED
      BY <3>1, PushTypes
  <2> QED
    BY <2>1, <2>2
<1>4. pc' \in [Actors -> Touches \cup {"new", "refused", "pushing", "waiting",
                 "none", "made", "leaked", "deliver", "seeking", "unknown",
                 "attached", "done", "dangling"}]
  BY <1>1 DEF TypeOK, Touches
<1>5. TypeOK'
  BY <1>1, <1>3, <1>4 DEF TypeOK
<1>6. ActorsOK'
  BY <1>1, <1>2, ActorsDiffer DEF ActorsOK, JobPlaces
<1>7. Unborn'
  BY <1>1, <1>2, ActorsDiffer DEF Unborn
<1>8. CountInv'
  <2>1. Holding(a)' <=> Holding(a)
    BY <1>1 DEF Holding
  <2>2. /\ pc'[a] # "dangling"
        /\ pc'[a] \in {"forget", "destroy"} <=> pc[a] \in {"forget", "destroy"}
    BY <1>1
  <2> HIDE DEF a
  <2> QED
    BY <1>1, <2>1, <2>2, QuietMove
<1> QED
  BY <1>5, <1>6, <1>7, <1>8
-----------------------------------------------------------------------------
(* The event stream. *)

LEMMA FindCounts ==
    ASSUME RefInv, NEW r \in Streams, Find(r)
    PROVE  RefInv'
<1> USE DEF RefInv
<1> DEFINE a == Stream(r)
<1>1. /\ a \in Actors /\ a \notin Requests
      /\ pc[a] = "seeking" /\ pc' = [pc EXCEPT ![a] = "found"]
      /\ UNCHANGED <<entries, life, ref, closed, events, log, results, late, served>>
  BY ActorsDiffer DEF Find, Goto, chan
<1>2. PICK i \in Index : /\ Matches(Probe(WantedId[r], i), WantedId[r])
                         /\ on' = [on EXCEPT ![a] = entries[Probe(WantedId[r], i)]]
  BY DEF Find
<1>3. Probe(WantedId[r], i) \in Index
  BY ProgressAssumption DEF Probe, Index
<1>4. PICK s \in Submissions : on' = [on EXCEPT ![a] = s] /\ \E k \in Index : entries[k] = s
  BY <1>2, <1>3 DEF Matches, TypeOK
<1>5. s # NoChannel
  BY ProgressAssumption
<1>6. \A b \in Actors : b # a => pc'[b] = pc[b] /\ on'[b] = on[b]
  BY <1>1, <1>4 DEF TypeOK
<1>7. pc'[a] = "found" /\ on'[a] = s
  BY <1>1, <1>4 DEF TypeOK
<1>8. TypeOK'
  BY <1>1, <1>4 DEF TypeOK, Touches
<1>9. ActorsOK'
  BY <1>5, <1>6, <1>7, ActorsDiffer DEF ActorsOK, StreamPlaces
<1>10. Unborn'
  <2>1. life[s] # "none"
    BY <1>4 DEF Unborn
  <2>2. \A t \in Submissions : pc'[Request(t)] = pc[Request(t)]
    BY <1>6, ActorsDiffer
  <2>3. \A q \in Streams : on'[Stream(q)] \in {on[Stream(q)], s}
    BY <1>6, <1>7, ActorsDiffer
  <2> QED
    BY <1>1, <2>1, <2>2, <2>3 DEF Unborn
<1>11. CountInv'
  <2>1. ~Holding(a) /\ ~Holding(a)'
    BY <1>1, <1>7 DEF Holding
  <2>2. \A b \in Actors : b # a => (Holding(b)' <=> Holding(b))
    BY <1>6 DEF Holding
  <2>3. \A t \in Submissions : Holders(t)' = Holders(t)
    BY <1>6, <2>1, <2>2 DEF Holders, Holding
  <2>4. \A t \in Submissions : Enders(t)' = Enders(t)
    BY <1>1, <1>6, <1>7 DEF Enders
  <2>5. \A b \in Actors : pc'[b] = "dangling" => pc[b] = "dangling" /\ on'[b] = on[b]
    BY <1>6, <1>7
  <2> QED
    BY <1>1, <2>3, <2>4, <2>5, QuietKeepsCounts
<1> QED
  BY <1>8, <1>9, <1>10, <1>11

LEMMA StreamQuietCounts ==
    ASSUME RefInv, NEW r \in Streams, Unknown(r) \/ SendHeaders(r) \/ NextEvent(r)
    PROVE  RefInv'
<1> USE DEF RefInv
<1> DEFINE a == Stream(r)
<1>1. /\ a \in Actors /\ a \notin Requests
      /\ on' = on /\ UNCHANGED <<entries, life, ref, closed, log, results, late>>
      /\ pc' = [pc EXCEPT ![a] = pc'[a]]
      /\ \/ pc[a] = "seeking" /\ pc'[a] = "unknown"
         \/ pc[a] = "attached" /\ pc'[a] \in {"streaming", "drop"}
         \/ pc[a] = "streaming" /\ pc'[a] \in {"streaming", "drop"}
      /\ served' \subseteq Streams
  BY ActorsDiffer DEF Unknown, SendHeaders, NextEvent, Goto, At, chan, TypeOK
<1>2. \A b \in Actors : b # a => pc'[b] = pc[b]
  BY <1>1 DEF TypeOK
<1>3. /\ events' \in [Submissions -> Seq({"output", "status"})]
      /\ \A t \in Submissions : life'[t] # "live" => events'[t] = <<>>
  <2>1. CASE Unknown(r) \/ SendHeaders(r)
    BY <2>1 DEF Unknown, SendHeaders, chan, TypeOK
  <2>2. CASE NextEvent(r)
    <3> DEFINE s == on[a]
               rest == IF events[s] = <<>> THEN <<>> ELSE Tail(events[s])
    <3>1. /\ life[s] = "live" /\ life' = life /\ pc[a] = "streaming"
          /\ events' = [events EXCEPT ![s] = rest]
      BY <1>1, <2>2 DEF NextEvent, At
    <3>2. s \in Submissions
      <4>1. s # NoChannel
        BY <3>1 DEF ActorsOK
      <4> QED
        BY <1>1, <4>1 DEF TypeOK
    <3>3. rest \in Seq({"output", "status"})
      BY <3>2 DEF TypeOK
    <3> HIDE DEF s, rest
    <3> QED
      BY <3>1, <3>2, <3>3 DEF TypeOK
  <2> QED
    BY <2>1, <2>2
<1>4. pc' \in [Actors -> Touches \cup {"new", "refused", "pushing", "waiting",
                 "none", "made", "leaked", "deliver", "seeking", "unknown",
                 "attached", "done", "dangling"}]
  BY <1>1 DEF TypeOK, Touches
<1>5. TypeOK'
  BY <1>1, <1>3, <1>4 DEF TypeOK
<1>6. ActorsOK'
  BY <1>1, <1>2, ActorsDiffer DEF ActorsOK, StreamPlaces
<1>7. Unborn'
  BY <1>1, <1>2, ActorsDiffer DEF Unborn
<1>8. CountInv'
  <2>1. Holding(a)' <=> Holding(a)
    BY <1>1 DEF Holding
  <2>2. /\ pc'[a] # "dangling"
        /\ pc'[a] \in {"forget", "destroy"} <=> pc[a] \in {"forget", "destroy"}
    BY <1>1
  <2> HIDE DEF a
  <2> QED
    BY <1>1, <2>1, <2>2, QuietMove
<1> QED
  BY <1>5, <1>6, <1>7, <1>8

(* An acquire that locks a channel nobody holds is late. *)
LEMMA AttachCounts ==
    ASSUME RefInv, NEW r \in Streams, Attach(r)
    PROVE  RefInv'
<1> USE DEF RefInv
<1> DEFINE a == Stream(r)
<1>0. PICK s \in Submissions : s = on[a]
  <2>1. on[a] \in Submissions \cup {NoChannel} /\ on[a] # NoChannel
    BY ActorsDiffer DEF Attach, Goto, ActorsOK, TypeOK
  <2> QED
    BY <2>1
<1>1. /\ a \in Actors /\ a \notin Requests
      /\ pc[a] = "found" /\ life[s] = "live"
      /\ on' = on /\ UNCHANGED <<entries, life, closed, events, log, results, served>>
      /\ pc' = [pc EXCEPT ![a] = "attached"]
      /\ ref' = [ref EXCEPT ![s] = @ + 1]
      /\ late' = IF ref[s] = 0 THEN late \cup {s} ELSE late
  BY <1>0, ActorsDiffer DEF Attach, Goto, At
<1>2. on[a] = s
  BY <1>0
<1>3. pc'[a] = "attached" /\ \A b \in Actors : b # a => pc'[b] = pc[b]
  BY <1>1 DEF TypeOK
<1>4. /\ \A t : t # s => Holders(t)' = Holders(t) /\ Enders(t)' = Enders(t)
      /\ Holders(s)' = Holders(s) \cup {a}
      /\ Enders(s)' = Enders(s) \ {a}
      /\ a \notin Holders(s) /\ a \notin Enders(s)
  <2>1. pc' = [pc EXCEPT ![a] = pc'[a]]
    BY <1>1, <1>3
  <2>2. a \notin Holders(s) /\ a \notin Enders(s)
    BY <1>1 DEF Holders, Enders
  <2>3. Holding(a)'
    BY <1>1, <1>3 DEF Holding
  <2> HIDE DEF a
  <2> QED
    BY <1>1, <1>2, <1>3, <2>1, <2>2, <2>3, OneActorMoves
<1>5. Enders(s)' = Enders(s)
  BY <1>4
<1>6. a # Request(s)
  BY <1>2, ActorsDiffer
<1>7. /\ IsFiniteSet(Holders(s)) /\ ref[s] = Cardinality(Holders(s)) /\ ref[s] \in Nat
  BY <1>1, <1>2 DEF CountInv, Counted, TypeOK
<1>8. ref[s] = 0 <=> Holders(s) = {}
  BY <1>7, FS_EmptySet
<1> HIDE DEF a
<1>9. TypeOK'
  <2>1. ref' \in [Submissions -> Nat]
    BY <1>1, <1>2 DEF TypeOK
  <2>2. late' \subseteq Submissions
    BY <1>1, <1>2 DEF TypeOK
  <2>3. pc' \in [Actors -> Touches \cup {"new", "refused", "pushing", "waiting",
                 "none", "made", "leaked", "deliver", "seeking", "unknown",
                 "attached", "done", "dangling"}]
    BY <1>1 DEF TypeOK
  <2> QED
    BY <1>1, <2>1, <2>2, <2>3 DEF TypeOK
<1>10. ActorsOK'
  BY <1>1, <1>3, ActorsDiffer DEF ActorsOK, StreamPlaces, a
<1>11. Unborn'
  BY <1>1, <1>3, ActorsDiffer DEF Unborn, a
<1>12. CountInv'
  <2>1. Counted'
    <3>1. /\ IsFiniteSet(Holders(s)') /\ ref'[s] = Cardinality(Holders(s)')
      <4>1. IsFiniteSet(Holders(s)') /\ Cardinality(Holders(s)') = Cardinality(Holders(s)) + 1
        BY <1>4, <1>7, FS_AddElement
      <4> QED
        BY <1>1, <1>2, <1>7, <4>1 DEF TypeOK
    <3>2. ASSUME NEW t \in Submissions, t # s
          PROVE  ref'[t] = ref[t] /\ Holders(t)' = Holders(t)
      BY <1>1, <1>4, <3>2 DEF TypeOK
    <3>3. \A t \in Submissions : /\ IsFiniteSet(Holders(t)')
                                 /\ life[t] = "live" => ref'[t] = Cardinality(Holders(t)')
      BY <3>1, <3>2 DEF CountInv, Counted
    <3> QED
      BY <1>1, <3>3 DEF Counted
  <2>2. EndsOnce'
    <3>1. ASSUME NEW t \in Submissions \ late'
          PROVE  /\ life[t] = "freed" => Holders(t)' = {} /\ Enders(t)' = {}
                 /\ \A b, c \in Enders(t)' : b = c /\ Holders(t)' = {}
      <4>1. CASE t = s
        <5>1. s \notin late /\ Holders(s) # {}
          BY <1>1, <1>8, <3>1, <4>1
        <5>2. Enders(s) = {}
          BY <1>2, <5>1 DEF CountInv, EndsOnce
        <5> QED
          BY <1>1, <1>5, <4>1, <5>2
      <4>2. CASE t # s
        BY <1>1, <1>4, <3>1, <4>2 DEF CountInv, EndsOnce
      <4> QED
        BY <4>1, <4>2
    <3> QED
      BY <1>1, <3>1 DEF EndsOnce
  <2>3. RequestHasLeft'
    <3>1. s \in late' => Request(s) \notin Holders(s)'
      BY <1>1, <1>2, <1>4, <1>6, <1>8 DEF CountInv, RequestHasLeft
    <3>2. ASSUME NEW t \in Submissions, t # s
          PROVE  Holders(t)' = Holders(t) /\ (t \in late' => t \in late)
      BY <1>1, <1>4, <3>2
    <3> QED
      BY <1>1, <3>1, <3>2 DEF CountInv, RequestHasLeft
  <2>4. DanglingOnlyAfterLateLock'
    BY <1>1, <1>3 DEF CountInv, DanglingOnlyAfterLateLock
  <2> QED
    BY <2>1, <2>2, <2>3, <2>4 DEF CountInv
<1> QED
  BY <1>9, <1>10, <1>11, <1>12
-----------------------------------------------------------------------------
(* fp_progress_release, and the use of a freed channel. *)

(* What the three kinds of actors have in common when they release their   *)
(* channel or touch it after it is freed.                                  *)
LEMMA ReleaseShape ==
    ASSUME TypeOK, ActorsOK, Unborn, NEW a \in Actors,
           on' = on, pc' = [pc EXCEPT ![a] = pc'[a]],
           \/ pc[a] \in {"drop", "forget", "destroy"}
              /\ pc'[a] \in {"forget", "destroy", AfterRelease(a)}
           \/ pc[a] \in Touches /\ pc'[a] = "dangling"
    PROVE  /\ on[a] \in Submissions
           /\ \A b \in Actors : b # a => pc'[b] = pc[b]
           /\ pc' \in [Actors -> Touches \cup {"new", "refused", "pushing", "waiting",
                   "none", "made", "leaked", "deliver", "seeking", "unknown",
                   "attached", "done", "dangling"}]
           /\ ActorsOK'
           /\ \A s \in Submissions : pc'[Request(s)] \in {"new", "refused"}
                                        <=> pc[Request(s)] \in {"new", "refused"}
<1>1. pc[a] \in Touches /\ pc'[a] \in {"forget", "destroy", "deliver", "done", "dangling"}
  BY DEF Touches, AfterRelease
<1>2. \A b \in Actors : b # a => pc'[b] = pc[b]
  BY DEF TypeOK
<1>3. pc' \in [Actors -> Touches \cup {"new", "refused", "pushing", "waiting",
                   "none", "made", "leaked", "deliver", "seeking", "unknown",
                   "attached", "done", "dangling"}]
  BY <1>1 DEF TypeOK, Touches
<1>4. CASE \E s \in Submissions : a = Request(s)
  <2>1. PICK s \in Submissions : a = Request(s)
    BY <1>4
  <2>2. on[a] = s /\ pc'[a] \in {"forget", "destroy", "done", "dangling"}
    BY <2>1, ActorsDiffer DEF ActorsOK, AfterRelease
  <2>3. pc[a] \notin {"new", "refused"}
    BY <1>1 DEF Touches
  <2>4. ActorsOK'
    BY <1>2, <2>1, <2>2, ActorsDiffer DEF ActorsOK, RequestPlaces
  <2>5. \A t \in Submissions : pc'[Request(t)] \in {"new", "refused"}
                                  <=> pc[Request(t)] \in {"new", "refused"}
    BY <1>2, <2>1, <2>2, <2>3, ActorsDiffer
  <2> QED
    BY <1>2, <1>3, <2>2, <2>4, <2>5
<1>5. CASE \E s \in Submissions : a = Job(s)
  <2>1. PICK s \in Submissions : a = Job(s)
    BY <1>5
  <2>2. on[a] = s /\ pc[a] \notin {"none", "made"}
    BY <1>1, <2>1 DEF ActorsOK, Touches
  <2>3. ActorsOK'
    BY <1>1, <1>2, <2>1, <2>2, ActorsDiffer DEF ActorsOK, JobPlaces
  <2>4. \A t \in Submissions : pc'[Request(t)] = pc[Request(t)]
    BY <1>2, <2>1, ActorsDiffer
  <2> QED
    BY <1>2, <1>3, <2>1, <2>2, <2>3, <2>4
<1>6. CASE \E r \in Streams : a = Stream(r)
  <2>1. PICK r \in Streams : a = Stream(r)
    BY <1>6
  <2>2. pc'[a] \in {"forget", "destroy", "done", "dangling"}
    BY <2>1, ActorsDiffer DEF AfterRelease
  <2>3. on[a] \in Submissions /\ on[a] # NoChannel
    <3>1. pc[a] \notin {"seeking", "unknown"}
      BY <1>1 DEF Touches
    <3> QED
      BY <2>1, <3>1 DEF ActorsOK, TypeOK
  <2>4. ActorsOK'
    BY <1>2, <2>1, <2>2, <2>3, ActorsDiffer DEF ActorsOK, StreamPlaces
  <2>5. \A t \in Submissions : pc'[Request(t)] = pc[Request(t)]
    BY <1>2, <2>1, ActorsDiffer
  <2> QED
    BY <1>2, <1>3, <2>3, <2>4, <2>5
<1> QED
  BY <1>4, <1>5, <1>6, ActorKinds

LEMMA DropCounts ==
    ASSUME RefInv, NEW a \in Actors, Drop(a)
    PROVE  RefInv'
<1> USE DEF RefInv
<1>1. /\ pc[a] = "drop" /\ life[on[a]] = "live"
      /\ pc' = [pc EXCEPT ![a] = IF ref[on[a]] = 1 THEN "forget" ELSE AfterRelease(a)]
      /\ ref' = [ref EXCEPT ![on[a]] = @ - 1]
      /\ on' = on /\ UNCHANGED <<entries, life, closed, events, log, results, late, served>>
  BY DEF Drop, At, Goto
<1>2. /\ pc'[a] = IF ref[on[a]] = 1 THEN "forget" ELSE AfterRelease(a)
      /\ pc' = [pc EXCEPT ![a] = pc'[a]]
  BY <1>1 DEF TypeOK
<1>3. /\ on[a] \in Submissions
      /\ \A b \in Actors : b # a => pc'[b] = pc[b]
      /\ pc' \in [Actors -> Touches \cup {"new", "refused", "pushing", "waiting",
              "none", "made", "leaked", "deliver", "seeking", "unknown",
              "attached", "done", "dangling"}]
      /\ ActorsOK'
      /\ \A t \in Submissions : pc'[Request(t)] \in {"new", "refused"}
                                   <=> pc[Request(t)] \in {"new", "refused"}
  BY <1>1, <1>2, ReleaseShape
<1>4. PICK s \in Submissions : s = on[a]
  BY <1>3
<1>5. ~Holding(a)' /\ a \in Holders(s) /\ pc'[a] # "dangling"
  <2>1. AfterRelease(a) \in {"deliver", "done"}
    BY DEF AfterRelease
  <2> QED
    BY <1>1, <1>2, <1>4, <2>1 DEF Holding, Holders
<1>6. /\ \A t : t # s => Holders(t)' = Holders(t) /\ Enders(t)' = Enders(t)
      /\ Holders(s)' = Holders(s) \ {a}
      /\ Enders(s)' = IF ref[s] = 1 THEN Enders(s) \cup {a} ELSE Enders(s) \ {a}
  <2>1. pc'[a] \in {"forget", "destroy"} <=> ref[s] = 1
    BY <1>2, <1>4 DEF AfterRelease
  <2> QED
    BY <1>1, <1>2, <1>4, <1>5, <2>1, OneActorMoves
<1>7. /\ IsFiniteSet(Holders(s)) /\ ref[s] = Cardinality(Holders(s)) /\ ref[s] \in Nat
  BY <1>1, <1>4 DEF CountInv, Counted, TypeOK
<1>8. ref[s] # 0 /\ (ref[s] = 1 => Holders(s) = {a})
  <2>1. ref[s] # 0
    BY <1>5, <1>7, FS_EmptySet
  <2>2. ref[s] = 1 => \E x : Holders(s) = {x}
    BY <1>7, FS_Singleton
  <2> QED
    BY <1>5, <2>1, <2>2
<1>9. TypeOK'
  <2>1. ref' \in [Submissions -> Nat]
    BY <1>1, <1>4, <1>7, <1>8 DEF TypeOK
  <2> QED
    BY <1>1, <1>3, <2>1 DEF TypeOK
<1>10. Unborn'
  BY <1>1, <1>3 DEF Unborn
<1>11. Counted'
  <2>1. IsFiniteSet(Holders(s)') /\ Cardinality(Holders(s)') = Cardinality(Holders(s)) - 1
    BY <1>5, <1>6, <1>7, FS_RemoveElement
  <2>2. ref'[s] = Cardinality(Holders(s)')
    BY <1>1, <1>4, <1>7, <2>1 DEF TypeOK
  <2>3. ASSUME NEW t \in Submissions, t # s
        PROVE  ref'[t] = ref[t] /\ Holders(t)' = Holders(t)
    BY <1>1, <1>4, <1>6, <2>3 DEF TypeOK
  <2> QED
    BY <1>1, <2>1, <2>2, <2>3 DEF CountInv, Counted
<1>12. EndsOnce'
  <2>1. ASSUME NEW t \in Submissions \ late
        PROVE  /\ life[t] = "freed" => Holders(t)' = {} /\ Enders(t)' = {}
               /\ \A b, c \in Enders(t)' : b = c /\ Holders(t)' = {}
    <3>1. CASE t = s
      <4>1. Enders(s) = {} /\ life[s] # "freed"
        BY <1>1, <1>4, <1>5, <2>1, <3>1 DEF CountInv, EndsOnce
      <4> QED
        BY <1>6, <1>8, <3>1, <4>1
    <3>2. CASE t # s
      BY <1>6, <2>1, <3>2 DEF CountInv, EndsOnce
    <3> QED
      BY <3>1, <3>2
  <2> QED
    BY <1>1, <2>1 DEF EndsOnce
<1>13. RequestHasLeft'
  <2>1. \A t \in Submissions : Holders(t)' \subseteq Holders(t)
    BY <1>6
  <2> QED
    BY <1>1, <2>1 DEF CountInv, RequestHasLeft
<1>14. DanglingOnlyAfterLateLock'
  BY <1>1, <1>3, <1>5 DEF CountInv, DanglingOnlyAfterLateLock
<1> QED
  BY <1>3, <1>9, <1>10, <1>11, <1>12, <1>13, <1>14 DEF CountInv

LEMMA ForgetCounts ==
    ASSUME RefInv, NEW a \in Actors, Forget(a)
    PROVE  RefInv'
<1> USE DEF RefInv
<1>1. /\ pc[a] = "forget" /\ pc' = [pc EXCEPT ![a] = "destroy"]
      /\ on' = on /\ UNCHANGED <<life, ref, closed, events, log, results, late, served>>
      /\ entries' \in [Index -> Submissions \cup {NoChannel}]
      /\ \A i \in Index : entries'[i] \in {entries[i], NoChannel}
  BY DEF Forget, At, Goto, chan, TypeOK
<1>2. pc'[a] = "destroy" /\ pc' = [pc EXCEPT ![a] = pc'[a]]
  BY <1>1 DEF TypeOK
<1>3. /\ pc' \in [Actors -> Touches \cup {"new", "refused", "pushing", "waiting",
              "none", "made", "leaked", "deliver", "seeking", "unknown",
              "attached", "done", "dangling"}]
      /\ ActorsOK'
      /\ \A t \in Submissions : pc'[Request(t)] \in {"new", "refused"}
                                   <=> pc[Request(t)] \in {"new", "refused"}
  BY <1>1, <1>2, ReleaseShape
<1>4. TypeOK'
  BY <1>1, <1>3 DEF TypeOK
<1>5. Unborn'
  <2>1. NoChannel \notin Submissions
    BY ProgressAssumption
  <2> QED
    BY <1>1, <1>3, <2>1 DEF Unborn
<1>6. CountInv'
  <2>1. Holding(a)' <=> Holding(a)
    BY <1>1, <1>2 DEF Holding
  <2> QED
    BY <1>1, <1>2, <2>1, QuietMove
<1> QED
  BY <1>3, <1>4, <1>5, <1>6

LEMMA DestroyCounts ==
    ASSUME RefInv, NEW a \in Actors, Destroy(a)
    PROVE  RefInv'
<1> USE DEF RefInv
<1>1. /\ pc[a] = "destroy" /\ life[on[a]] = "live"
      /\ pc' = [pc EXCEPT ![a] = AfterRelease(a)]
      /\ life' = [life EXCEPT ![on[a]] = "freed"]
      /\ events' = [events EXCEPT ![on[a]] = <<>>]
      /\ on' = on /\ UNCHANGED <<entries, ref, closed, log, results, late, served>>
  BY DEF Destroy, At, Goto
<1>2. pc'[a] = AfterRelease(a) /\ pc' = [pc EXCEPT ![a] = pc'[a]]
  BY <1>1 DEF TypeOK
<1>3. /\ on[a] \in Submissions
      /\ \A b \in Actors : b # a => pc'[b] = pc[b]
      /\ pc' \in [Actors -> Touches \cup {"new", "refused", "pushing", "waiting",
              "none", "made", "leaked", "deliver", "seeking", "unknown",
              "attached", "done", "dangling"}]
      /\ ActorsOK'
      /\ \A t \in Submissions : pc'[Request(t)] \in {"new", "refused"}
                                   <=> pc[Request(t)] \in {"new", "refused"}
  BY <1>1, <1>2, ReleaseShape
<1>4. PICK s \in Submissions : s = on[a]
  BY <1>3
<1>5. ~Holding(a)' /\ a \notin Holders(s) /\ a \in Enders(s)
      /\ pc'[a] \notin {"dangling", "forget", "destroy"}
  <2>1. AfterRelease(a) \in {"deliver", "done"}
    BY DEF AfterRelease
  <2> QED
    BY <1>1, <1>2, <1>4, <2>1 DEF Holding, Holders, Enders
<1>6. /\ \A t : t # s => Holders(t)' = Holders(t) /\ Enders(t)' = Enders(t)
      /\ Holders(s)' = Holders(s)
      /\ Enders(s)' = Enders(s) \ {a}
  <2>1. /\ \A t : t # s => Holders(t)' = Holders(t) /\ Enders(t)' = Enders(t)
        /\ Holders(on[a])' = IF Holding(a)' THEN Holders(on[a]) \cup {a}
                             ELSE Holders(on[a]) \ {a}
        /\ Enders(on[a])' = IF pc'[a] \in {"forget", "destroy"} THEN Enders(on[a]) \cup {a}
                            ELSE Enders(on[a]) \ {a}
    BY <1>1, <1>2, <1>4, OneActorMoves
  <2>2. Holders(s)' = Holders(s) \ {a} /\ Enders(s)' = Enders(s) \ {a}
    BY <1>1, <1>4, <1>5, <2>1
  <2>3. Holders(s) \ {a} = Holders(s)
    BY <1>5
  <2> QED
    BY <2>1, <2>2, <2>3
<1>7. /\ life'[s] = "freed" /\ events'[s] = <<>>
      /\ \A t \in Submissions : t # s => life'[t] = life[t] /\ events'[t] = events[t]
  BY <1>1, <1>4 DEF TypeOK
<1>8. TypeOK'
  <2>1. life' \in [Submissions -> {"none", "live", "freed"}]
    BY <1>1 DEF TypeOK
  <2>2. events' \in [Submissions -> Seq({"output", "status"})]
    BY <1>1, <1>4 DEF TypeOK
  <2> QED
    BY <1>1, <1>3, <1>7, <2>1, <2>2 DEF TypeOK
<1>9. Unborn'
  BY <1>1, <1>3, <1>4, <1>7 DEF Unborn
<1>10. Counted'
  <2>1. \A t \in Submissions : Holders(t)' = Holders(t)
    BY <1>6
  <2> QED
    BY <1>1, <1>7, <2>1 DEF CountInv, Counted
<1>11. EndsOnce'
  <2>1. s \in late \/ (Enders(s) = {a} /\ Holders(s) = {})
    BY <1>5 DEF CountInv, EndsOnce
  <2>2. ASSUME NEW t \in Submissions \ late
        PROVE  /\ life'[t] = "freed" => Holders(t)' = {} /\ Enders(t)' = {}
               /\ \A b, c \in Enders(t)' : b = c /\ Holders(t)' = {}
    <3>1. CASE t = s
      BY <1>6, <2>1, <2>2, <3>1
    <3>2. CASE t # s
      BY <1>6, <1>7, <2>2, <3>2 DEF CountInv, EndsOnce
    <3> QED
      BY <3>1, <3>2
  <2> QED
    BY <1>1, <2>2 DEF EndsOnce
<1>12. RequestHasLeft'
  <2>1. Request(s) \notin Holders(s)
    BY <1>5 DEF CountInv, EndsOnce, RequestHasLeft
  <2> QED
    BY <1>1, <1>6, <1>7, <2>1 DEF CountInv, RequestHasLeft
<1>13. DanglingOnlyAfterLateLock'
  BY <1>1, <1>3, <1>5 DEF CountInv, DanglingOnlyAfterLateLock
<1> QED
  BY <1>3, <1>8, <1>9, <1>10, <1>11, <1>12, <1>13 DEF CountInv

LEMMA DangleCounts ==
    ASSUME RefInv, NEW a \in Actors, Dangle(a)
    PROVE  RefInv'
<1> USE DEF RefInv
<1>1. /\ pc[a] \in Touches /\ life[on[a]] = "freed"
      /\ pc' = [pc EXCEPT ![a] = "dangling"]
      /\ late' = IF pc[a] = "found" THEN late \cup {on[a]} ELSE late
      /\ on' = on
      /\ UNCHANGED <<entries, life, ref, closed, events, log, results, served>>
  BY DEF Dangle, chan
<1>2. pc'[a] = "dangling" /\ pc' = [pc EXCEPT ![a] = pc'[a]]
  BY <1>1 DEF TypeOK
<1>3. /\ on[a] \in Submissions
      /\ \A b \in Actors : b # a => pc'[b] = pc[b]
      /\ pc' \in [Actors -> Touches \cup {"new", "refused", "pushing", "waiting",
              "none", "made", "leaked", "deliver", "seeking", "unknown",
              "attached", "done", "dangling"}]
      /\ ActorsOK'
      /\ \A t \in Submissions : pc'[Request(t)] \in {"new", "refused"}
                                   <=> pc[Request(t)] \in {"new", "refused"}
  BY <1>1, <1>2, ReleaseShape
<1>4. PICK s \in Submissions : s = on[a]
  BY <1>3
<1>5. s \in late'
  <2>1. CASE pc[a] = "found"
    BY <1>1, <1>4, <2>1
  <2>2. CASE pc[a] # "found"
    <3>1. a \in Holders(s) \/ a \in Enders(s)
      <4>1. CASE \E t \in Submissions : a = Request(t)
        BY <1>1, <1>4, <2>2, <4>1, ActorsDiffer
           DEF ActorsOK, RequestPlaces, Touches, Holders, Enders
      <4>2. CASE \E t \in Submissions : a = Job(t)
        BY <1>1, <1>4, <2>2, <4>2, ActorsDiffer
           DEF ActorsOK, JobPlaces, Touches, Holders, Enders
      <4>3. CASE \E r \in Streams : a = Stream(r)
        BY <1>1, <1>4, <2>2, <4>3, ActorsDiffer
           DEF ActorsOK, StreamPlaces, Touches, Holders, Enders
      <4> QED
        BY <4>1, <4>2, <4>3, ActorKinds
    <3> QED
      BY <1>1, <1>4, <2>2, <3>1 DEF CountInv, EndsOnce
  <2> QED
    BY <2>1, <2>2
<1>6. /\ late' \subseteq Submissions /\ late \subseteq late' /\ late' \subseteq late \cup {s}
  BY <1>1, <1>4 DEF TypeOK
<1>7. /\ \A t : t # s => Holders(t)' = Holders(t) /\ Enders(t)' = Enders(t)
      /\ Holders(s)' = Holders(s) \ {a}
  <2>1. ~Holding(a)'
    BY <1>2 DEF Holding
  <2> QED
    BY <1>1, <1>2, <1>4, <2>1, OneActorMoves
<1>8. TypeOK'
  BY <1>1, <1>3, <1>6 DEF TypeOK
<1>9. Unborn'
  BY <1>1, <1>3, <1>4, <1>6 DEF Unborn
<1>10. Counted'
  <2>1. IsFiniteSet(Holders(s)')
    BY <1>7, FS_RemoveElement DEF CountInv, Counted
  <2> QED
    BY <1>1, <1>4, <1>7, <2>1 DEF CountInv, Counted
<1>11. EndsOnce'
  BY <1>1, <1>5, <1>6, <1>7 DEF CountInv, EndsOnce
<1>12. RequestHasLeft'
  BY <1>1, <1>4, <1>6, <1>7 DEF CountInv, RequestHasLeft
<1>13. DanglingOnlyAfterLateLock'
  <2>1. ASSUME NEW b \in Actors, pc'[b] = "dangling" PROVE on[b] \in late'
    BY <1>3, <1>4, <1>5, <1>6, <2>1 DEF CountInv, DanglingOnlyAfterLateLock
  <2> QED
    BY <1>1, <2>1 DEF DanglingOnlyAfterLateLock
<1> QED
  BY <1>3, <1>8, <1>9, <1>10, <1>11, <1>12, <1>13 DEF CountInv
-----------------------------------------------------------------------------
LEMMA InitCounts ==
    ASSUME Init
    PROVE  RefInv
<1> USE ProgressAssumption
<1>1. /\ \A s \in Submissions : pc[Request(s)] = "new" /\ on[Request(s)] = s
      /\ \A s \in Submissions : pc[Job(s)] = "none" /\ on[Job(s)] = s
      /\ \A r \in Streams : pc[Stream(r)] = "seeking" /\ on[Stream(r)] = NoChannel
  <2>1. \A s \in Submissions : Request(s)[2] = s /\ Job(s)[2] = s
    BY DEF Request, Job
  <2> QED
    BY <2>1, ActorsDiffer DEF Init
<1>2. \A a \in Actors : pc[a] \in {"new", "none", "seeking"} /\ on[a] \in Submissions \cup {NoChannel}
  BY <1>1, ActorKinds
<1>3. TypeOK
  <2>1. \A s \in Submissions : <<>> \in Seq({"output", "status"})
    OBVIOUS
  <2>2. pc \in [Actors -> Touches \cup {"new", "refused", "pushing", "waiting",
                 "none", "made", "leaked", "deliver", "seeking", "unknown",
                 "attached", "done", "dangling"}]
    <3>1. pc = [a \in Actors |-> pc[a]]
      BY DEF Init
    <3> QED
      BY <1>2, <3>1
  <2>3. on \in [Actors -> Submissions \cup {NoChannel}]
    <3>1. on = [a \in Actors |-> on[a]]
      BY DEF Init
    <3> QED
      BY <1>2, <3>1
  <2> QED
    BY <2>1, <2>2, <2>3 DEF Init, TypeOK
<1>4. ActorsOK
  BY <1>1 DEF ActorsOK, RequestPlaces, JobPlaces, StreamPlaces
<1>5. Unborn
  <2>1. /\ \A s \in Submissions : life[s] = "none" /\ s # NoChannel
        /\ \A i \in Index : entries[i] = NoChannel
        /\ late = {}
    BY DEF Init
  <2> QED
    BY <1>1, <2>1 DEF Unborn
<1>6. \A s \in Submissions : Holders(s) = {} /\ Enders(s) = {}
  BY <1>2 DEF Holders, Enders
<1>7. Counted
  BY <1>6, FS_EmptySet DEF Counted, Init
<1>8. EndsOnce /\ RequestHasLeft
  BY <1>6 DEF EndsOnce, RequestHasLeft
<1>9. DanglingOnlyAfterLateLock
  BY <1>2 DEF DanglingOnlyAfterLateLock
<1> QED
  BY <1>3, <1>4, <1>5, <1>7, <1>8, <1>9 DEF RefInv, CountInv

LEMMA StepCounts ==
    ASSUME RefInv, [Next]_vars
    PROVE  RefInv'
<1>1. ASSUME NEW s \in Submissions, RequestStep(s) PROVE RefInv'
  BY <1>1, RegisterCounts, RequestQuietCounts, RetainAndPushCounts DEF RequestStep
<1>2. ASSUME NEW s \in Submissions, WorkerStep(s) PROVE RefInv'
  BY <1>2, WorkerCounts DEF WorkerStep
<1>3. ASSUME NEW r \in Streams, StreamStep(r) PROVE RefInv'
  BY <1>3, FindCounts, StreamQuietCounts, AttachCounts DEF StreamStep
<1>4. ASSUME NEW a \in Actors, ReleaseStep(a) PROVE RefInv'
  BY <1>4, DropCounts, ForgetCounts, DestroyCounts, DangleCounts DEF ReleaseStep
<1>5. CASE UNCHANGED vars
  <2>1. /\ TypeOK' = TypeOK /\ ActorsOK' = ActorsOK /\ Unborn' = Unborn
        /\ \A s : Holders(s)' = Holders(s) /\ Enders(s)' = Enders(s)
    BY <1>5 DEF vars, TypeOK, ActorsOK, Unborn, Holders, Enders
  <2>2. CountInv'
    <3>1. UNCHANGED <<ref, life, late, pc, on>>
      BY <1>5 DEF vars
    <3> QED
      BY <2>1, <3>1, QuietKeepsCounts DEF RefInv
  <2> QED
    BY <2>1, <2>2 DEF RefInv
<1> QED
  BY <1>1, <1>2, <1>3, <1>4, <1>5 DEF Next

LEMMA RefInvariant == Spec => []RefInv
<1>1. Init => RefInv
  BY InitCounts
<1>2. RefInv /\ [Next]_vars => RefInv'
  BY StepCounts
<1> QED
  BY <1>1, <1>2, PTL DEF Spec

(* ref_count is the number of threads and jobs that use the channel, with  *)
(* any ids, even equal ones, and any number of requests and streams.       *)
THEOREM CountsAreRight == Spec => []RefsMatchHolders
<1>1. RefInv => RefsMatchHolders
  BY DEF RefInv, CountInv, Counted, RefsMatchHolders
<1> QED
  BY <1>1, RefInvariant, PTL

(* A freed channel is touched only after fp_progress_acquire locked one    *)
(* that nobody held any more: with any ids, there is no other way.         *)
THEOREM OnlyAcquireDangles == Spec => []DanglingOnlyAfterLateLock
<1>1. RefInv => DanglingOnlyAfterLateLock
  BY DEF RefInv, CountInv
<1> QED
  BY <1>1, RefInvariant, PTL
-----------------------------------------------------------------------------
(* What is true when no two submissions carry the same job id: the         *)
(* server's counter gives none twice, and no client sends an X-Job-ID that *)
(* another submission carries.                                             *)
IdsAreDistinct == \A s, t \in Submissions : IdOf[s] = IdOf[t] => s = t

HoldingPlaces == {"registered", "pushing", "waiting", "status", "close", "drop"}
AfterWait == {"status", "close", "drop", "forget", "destroy", "done", "dangling"}
AfterStatus == AfterWait \ {"status"}
AfterClose == AfterStatus \ {"close"}
AfterStream == {"drop", "forget", "destroy", "done", "dangling"}

(* A live channel has one entry until the last release clears it. *)
EntriesInv ==
    /\ \A i, j \in Index : entries[i] # NoChannel /\ entries[i] = entries[j] => i = j
    /\ \A i \in Index : entries[i] # NoChannel => life[entries[i]] = "live"
    /\ \A a \in Actors : pc[a] = "destroy" => \A i \in Index : entries[i] # on[a]
    /\ \A s \in Submissions :
         pc[Request(s)] \in HoldingPlaces => \E i \in Index : entries[i] = s

(* A request goes on only when its job has ended, or was never pushed, and *)
(* then says the verdict and closes the channel, in this order; a stream   *)
(* is served when this has happened and the events are gone.               *)
VerdictInv ==
    /\ \A s \in Submissions :
         /\ s \in results => pc[Job(s)] = "done"
         /\ pc[Request(s)] \in AfterWait => pc[Job(s)] \in {"leaked", "done"}
         /\ closed[s] => pc[Request(s)] \in AfterClose
         /\ IF pc[Request(s)] \in AfterStatus
            THEN /\ log[s] # <<>>
                 /\ \A i \in 1 .. Len(log[s]) : log[s][i] = "status" <=> i = Len(log[s])
            ELSE \A i \in 1 .. Len(log[s]) : log[s][i] # "status"
    /\ \A r \in served :
         /\ pc[Stream(r)] \in AfterStream
         /\ on[Stream(r)] \in Submissions
         /\ closed[on[Stream(r)]]
         /\ events[on[Stream(r)]] = <<>>

(* Nothing is added to the registry or freed, no actor comes to free a     *)
(* channel and no request comes to hold one.                               *)
LEMMA EntriesKept ==
    ASSUME EntriesInv, UNCHANGED <<entries, life>>,
           \A a \in Actors : pc'[a] = "destroy" => pc[a] = "destroy" /\ on'[a] = on[a],
           \A s \in Submissions : pc'[Request(s)] \in HoldingPlaces
                                     => pc[Request(s)] \in HoldingPlaces
    PROVE  EntriesInv'
BY DEF EntriesInv

LEMMA RegisterEntries ==
    ASSUME RefInv, EntriesInv, NEW s \in Submissions, Register(s)
    PROVE  EntriesInv'
<1>1. /\ Request(s) \in Actors
      /\ pc[Request(s)] = "new" /\ pc' = [pc EXCEPT ![Request(s)] = "registered"]
      /\ on' = on /\ life' = [life EXCEPT ![s] = "live"]
  BY ActorsDiffer DEF Register, Goto
<1>2. PICK i \in Index : /\ entries[Probe(IdOf[s], i)] = NoChannel
                         /\ entries' = [entries EXCEPT ![Probe(IdOf[s], i)] = s]
  BY DEF Register
<1>3. PICK k \in Index : k = Probe(IdOf[s], i)
  BY ProgressAssumption DEF Probe, Index
<1>4. entries' = [entries EXCEPT ![k] = s] /\ entries[k] = NoChannel
  BY <1>2, <1>3
<1>5. /\ life[s] = "none" /\ \A j \in Index : entries[j] # s
      /\ \A r \in Streams : on[Stream(r)] # s
      /\ pc[Job(s)] = "none"
  BY <1>1 DEF RefInv, ActorsOK, Unborn
<1>6. entries'[k] = s /\ \A j \in Index : j # k => entries'[j] = entries[j]
  BY <1>4 DEF RefInv, TypeOK
<1>7. life'[s] = "live" /\ \A t \in Submissions : t # s => life'[t] = life[t]
  BY <1>1 DEF RefInv, TypeOK
<1>8. /\ pc'[Request(s)] = "registered"
      /\ \A b \in Actors : b # Request(s) => pc'[b] = pc[b]
  BY <1>1 DEF RefInv, TypeOK
<1>9. \A i1, i2 \in Index : entries'[i1] # NoChannel /\ entries'[i1] = entries'[i2] => i1 = i2
  BY <1>5, <1>6 DEF EntriesInv
<1>10. ASSUME NEW j \in Index, entries'[j] # NoChannel PROVE life'[entries'[j]] = "live"
  <2>1. CASE j = k
    BY <1>6, <1>7, <2>1
  <2>2. CASE j # k
    <3>1. PICK t \in Submissions : t = entries[j]
      BY <1>6, <1>10, <2>2 DEF RefInv, TypeOK
    <3>2. t # s /\ life[t] = "live" /\ entries'[j] = t
      BY <1>5, <1>6, <1>10, <2>2, <3>1 DEF EntriesInv
    <3> QED
      BY <1>7, <3>2
  <2> QED
    BY <2>1, <2>2
<1>11. ASSUME NEW a \in Actors, pc'[a] = "destroy" PROVE \A j \in Index : entries'[j] # on'[a]
  <2>1. pc[a] = "destroy" /\ a # Request(s)
    BY <1>8, <1>11
  <2>2. on[a] # s
    <3>1. CASE \E t \in Submissions : a = Request(t)
      BY <2>1, <3>1 DEF RefInv, ActorsOK
    <3>2. CASE \E t \in Submissions : a = Job(t)
      BY <1>5, <2>1, <3>2 DEF RefInv, ActorsOK
    <3>3. CASE \E r \in Streams : a = Stream(r)
      BY <1>5, <3>3
    <3> QED
      BY <3>1, <3>2, <3>3, ActorKinds
  <2> QED
    BY <1>1, <1>6, <2>1, <2>2 DEF EntriesInv
<1>12. ASSUME NEW t \in Submissions, pc'[Request(t)] \in HoldingPlaces
       PROVE  \E j \in Index : entries'[j] = t
  <2>1. CASE t = s
    BY <1>6, <2>1
  <2>2. CASE t # s
    <3>1. pc[Request(t)] \in HoldingPlaces
      BY <1>8, <1>12, <2>2, ActorsDiffer
    <3>2. PICK j \in Index : entries[j] = t
      BY <3>1 DEF EntriesInv
    <3>3. j # k
      BY <1>4, <3>2, ProgressAssumption
    <3> QED
      BY <1>6, <3>2, <3>3
  <2> QED
    BY <2>1, <2>2
<1> QED
  BY <1>9, <1>10, <1>11, <1>12 DEF EntriesInv

(* The first entry with the id is the channel's own. *)
LEMMA ForgetEntries ==
    ASSUME IdsAreDistinct, RefInv, EntriesInv, NEW a \in Actors, Forget(a)
    PROVE  EntriesInv'
<1>1. /\ pc[a] = "forget" /\ pc' = [pc EXCEPT ![a] = "destroy"]
      /\ on' = on /\ life' = life
      /\ entries' = [i \in Index |->
                       IF Matches(i, IdOf[on[a]]) /\ \A j \in 0 .. (i - 1) : ~Matches(j, IdOf[on[a]])
                       THEN NoChannel ELSE entries[i]]
  BY DEF Forget, At, Goto, chan
<1>2. pc' = [pc EXCEPT ![a] = pc'[a]] /\ pc'[a] = "destroy"
  BY <1>1 DEF RefInv, TypeOK
<1>3. on[a] \in Submissions
  <2>1. TypeOK /\ ActorsOK /\ Unborn
    BY DEF RefInv
  <2> QED
    BY <1>1, <1>2, <2>1, ReleaseShape
<1>4. PICK s \in Submissions : s = on[a]
  BY <1>3
<1>5. \A i \in Index : Matches(i, IdOf[s]) <=> entries[i] = s
  <2>1. s # NoChannel
    BY ProgressAssumption
  <2> QED
    BY <2>1 DEF Matches, IdsAreDistinct, RefInv, TypeOK
<1>6. \A i \in Index : entries'[i] = IF entries[i] = s THEN NoChannel ELSE entries[i]
  <2>1. ASSUME NEW i \in Index, entries[i] = s, NEW j \in 0 .. (i - 1) PROVE ~Matches(j, IdOf[s])
    <3>1. j \in Index /\ j # i /\ s # NoChannel
      BY ProgressAssumption DEF Index
    <3>2. entries[j] # s
      BY <2>1, <3>1 DEF EntriesInv
    <3> QED
      BY <1>5, <3>1, <3>2
  <2> QED
    BY <1>1, <1>4, <1>5, <2>1
<1>7. \A b \in Actors : pc'[b] = "destroy" => b = a \/ pc[b] = "destroy"
  BY <1>1 DEF RefInv, TypeOK
<1>8. a \in Enders(s)
  BY <1>1, <1>4 DEF Enders
<1>9. pc[Request(s)] \notin HoldingPlaces
  <2>1. Request(s) \notin Holders(s)
    BY <1>8 DEF RefInv, CountInv, EndsOnce, RequestHasLeft
  <2> QED
    BY <2>1, ActorsDiffer DEF RefInv, ActorsOK, Holders, HoldingPlaces
<1>10. \A t \in Submissions : pc'[Request(t)] \in HoldingPlaces => pc[Request(t)] \in HoldingPlaces
  BY <1>1, ActorsDiffer DEF RefInv, TypeOK, HoldingPlaces
<1>11. \A i \in Index : entries'[i] # s
  BY <1>6, ProgressAssumption
<1>12. \A i \in Index : entries'[i] # NoChannel => entries'[i] = entries[i]
  BY <1>6
<1>13. \A t \in Submissions : pc'[Request(t)] \in HoldingPlaces => \E i \in Index : entries'[i] = t
  <2>1. ASSUME NEW t \in Submissions, pc'[Request(t)] \in HoldingPlaces
        PROVE  \E i \in Index : entries'[i] = t
    <3>1. t # s /\ pc[Request(t)] \in HoldingPlaces
      BY <1>9, <1>10, <2>1
    <3>2. PICK i \in Index : entries[i] = t
      BY <3>1 DEF EntriesInv
    <3> QED
      BY <1>6, <3>1, <3>2
  <2> QED
    BY <2>1
<1>14. ASSUME NEW b \in Actors, pc'[b] = "destroy" PROVE \A i \in Index : entries'[i] # on'[b]
  <2>1. CASE b = a
    BY <1>1, <1>4, <1>11, <2>1
  <2>2. CASE b # a
    <3>1. on[b] # NoChannel
      <4>1. pc[b] = "destroy" /\ pc' = [pc EXCEPT ![a] = pc'[a]]
        BY <1>2, <1>7, <1>14, <2>2
      <4>2. CASE \E t \in Submissions : b = Request(t) \/ b = Job(t)
        BY <4>2, ProgressAssumption DEF RefInv, ActorsOK
      <4>3. CASE \E r \in Streams : b = Stream(r)
        BY <4>1, <4>3 DEF RefInv, ActorsOK
      <4> QED
        BY <4>2, <4>3, ActorKinds
    <3> QED
      BY <1>1, <1>7, <1>12, <1>14, <2>2, <3>1 DEF EntriesInv
  <2> QED
    BY <2>1, <2>2
<1>15. \A i, j \in Index : entries'[i] # NoChannel /\ entries'[i] = entries'[j] => i = j
  BY <1>12 DEF EntriesInv
<1>16. \A i \in Index : entries'[i] # NoChannel => life'[entries'[i]] = "live"
  BY <1>1, <1>12 DEF EntriesInv
<1> QED
  BY <1>13, <1>14, <1>15, <1>16 DEF EntriesInv

LEMMA DestroyEntries ==
    ASSUME RefInv, EntriesInv, NEW a \in Actors, Destroy(a)
    PROVE  EntriesInv'
<1>1. /\ pc[a] = "destroy" /\ pc' = [pc EXCEPT ![a] = AfterRelease(a)]
      /\ life' = [life EXCEPT ![on[a]] = "freed"]
      /\ on' = on /\ entries' = entries
  BY DEF Destroy, At, Goto
<1>2. AfterRelease(a) \in {"deliver", "done"}
  BY DEF AfterRelease
<1>3. \A b \in Actors : pc'[b] = pc[b] \/ pc'[b] \in {"deliver", "done"}
  BY <1>1, <1>2 DEF RefInv, TypeOK
<1>4. \A i \in Index : entries[i] # on[a]
  BY <1>1 DEF EntriesInv
<1>5. \A i \in Index : entries[i] # NoChannel => life'[entries[i]] = life[entries[i]]
  BY <1>1, <1>4 DEF RefInv, TypeOK
<1> QED
  BY <1>1, <1>3, <1>5, ActorsDiffer DEF EntriesInv, HoldingPlaces

LEMMA StepEntries ==
    ASSUME IdsAreDistinct, RefInv, EntriesInv, [Next]_vars
    PROVE  EntriesInv'
<1>1. ASSUME NEW s \in Submissions, RequestStep(s) PROVE EntriesInv'
  <2>1. CASE Register(s)
    BY <2>1, RegisterEntries
  <2>2. CASE RegisterFails(s) \/ TakeResult(s) \/ EmitStatus(s) \/ Close(s)
    <3>1. UNCHANGED <<entries, life, on>>
      BY <2>2 DEF RegisterFails, TakeResult, EmitStatus, Close, chan
    <3>2. /\ \A b \in Actors : b # Request(s) => pc'[b] = pc[b]
          /\ pc'[Request(s)] # "destroy"
          /\ pc'[Request(s)] \in HoldingPlaces => pc[Request(s)] \in HoldingPlaces
      BY <2>2, ActorsDiffer DEF RegisterFails, TakeResult, EmitStatus, Close, Goto, RefInv, TypeOK,
                                HoldingPlaces
    <3> QED
      BY <3>1, <3>2, ActorsDiffer, EntriesKept
  <2>3. CASE Retain(s) \/ PushJob(s) \/ PushGivesUp(s)
    <3>1. UNCHANGED <<entries, life, on>>
      BY <2>3 DEF Retain, PushJob, PushGivesUp, chan
    <3>2. /\ \A b \in Actors : b # Request(s) /\ b # Job(s) => pc'[b] = pc[b]
          /\ pc'[Request(s)] # "destroy" /\ pc'[Job(s)] # "destroy"
          /\ pc[Request(s)] \in HoldingPlaces
      BY <2>3, ActorsDiffer DEF Retain, PushJob, PushGivesUp, At, RefInv, TypeOK, HoldingPlaces
    <3> QED
      BY <3>1, <3>2, ActorsDiffer, EntriesKept
  <2> QED
    BY <1>1, <2>1, <2>2, <2>3 DEF RequestStep
<1>2. ASSUME NEW s \in Submissions, WorkerStep(s) PROVE EntriesInv'
  <2>1. UNCHANGED <<entries, life, on>>
    BY <1>2 DEF WorkerStep, EmitOutput, FreeJob, PushResult, chan
  <2>2. /\ \A b \in Actors : b # Job(s) => pc'[b] = pc[b]
        /\ pc'[Job(s)] # "destroy" \/ pc' = pc
    BY <1>2, ActorsDiffer DEF WorkerStep, EmitOutput, FreeJob, PushResult, Goto, RefInv, TypeOK
  <2> QED
    BY <2>1, <2>2, ActorsDiffer, EntriesKept
<1>3. ASSUME NEW r \in Streams, StreamStep(r) PROVE EntriesInv'
  <2>1. UNCHANGED <<entries, life>>
    BY <1>3 DEF StreamStep, Find, Unknown, Attach, SendHeaders, NextEvent, chan
  <2>2. /\ \A b \in Actors : b # Stream(r) => pc'[b] = pc[b] /\ on'[b] = on[b]
        /\ pc'[Stream(r)] # "destroy"
    BY <1>3, ActorsDiffer DEF StreamStep, Find, Unknown, Attach, SendHeaders, NextEvent, Goto,
                              RefInv, TypeOK
  <2> QED
    BY <2>1, <2>2, ActorsDiffer, EntriesKept
<1>4. ASSUME NEW a \in Actors, ReleaseStep(a) PROVE EntriesInv'
  <2>1. CASE Drop(a) \/ Dangle(a)
    <3>1. UNCHANGED <<entries, life, on>>
      BY <2>1 DEF Drop, Dangle, chan
    <3>2. \A b \in Actors : pc'[b] = pc[b] \/ pc'[b] \in {"forget", "deliver", "done", "dangling"}
      BY <2>1 DEF Drop, Dangle, Goto, AfterRelease, RefInv, TypeOK
    <3> QED
      BY <3>1, <3>2, ActorsDiffer, EntriesKept DEF HoldingPlaces
  <2> QED
    BY <1>4, <2>1, ForgetEntries, DestroyEntries DEF ReleaseStep
<1>5. CASE UNCHANGED vars
  BY <1>5, EntriesKept DEF vars
<1> QED
  BY <1>1, <1>2, <1>3, <1>4, <1>5 DEF Next

(* No id twice: no entry points to freed memory, and the channel of a      *)
(* request that still holds it can be found.                               *)
THEOREM EntriesPointToChannels ==
    ASSUME IdsAreDistinct
    PROVE  Spec => []RegistryMatchesChannels
<1>1. Init => EntriesInv
  <2>1. ASSUME Init PROVE EntriesInv
    <3>1. \A a \in Actors : pc[a] \in {"new", "none", "seeking"}
      BY <2>1 DEF Init
    <3>2. \A i \in Index : entries[i] = NoChannel
      BY <2>1 DEF Init
    <3> QED
      BY <3>1, <3>2, ActorsDiffer DEF EntriesInv, HoldingPlaces
  <2> QED
    BY <2>1
<1>2. RefInv /\ EntriesInv /\ [Next]_vars => EntriesInv'
  BY StepEntries
<1>3. RefInv /\ EntriesInv => RegistryMatchesChannels
  <2>1. ASSUME RefInv, NEW s \in Submissions, Request(s) \in Holders(s)
        PROVE  pc[Request(s)] \in HoldingPlaces
    BY <2>1, ActorsDiffer DEF Holders, HoldingPlaces
  <2> QED
    BY <2>1 DEF EntriesInv, RegistryMatchesChannels, RefInv
<1> QED
  BY <1>1, <1>2, <1>3, RefInvariant, PTL DEF Spec

(* No event, no close, no verdict: the request and the job stay on their   *)
(* side of each, and the streams that are served on theirs.                *)
LEMMA VerdictKept ==
    ASSUME VerdictInv, UNCHANGED <<closed, log, results, served>>,
           \A s \in Submissions :
             /\ pc[Job(s)] \in {"leaked", "done"} => pc'[Job(s)] = pc[Job(s)]
             /\ pc'[Request(s)] \in AfterWait <=> pc[Request(s)] \in AfterWait
             /\ pc'[Request(s)] \in AfterStatus <=> pc[Request(s)] \in AfterStatus
             /\ pc'[Request(s)] \in AfterClose <=> pc[Request(s)] \in AfterClose,
           \A r \in Streams :
             pc[Stream(r)] \in AfterStream
               => pc'[Stream(r)] \in AfterStream /\ on'[Stream(r)] = on[Stream(r)],
           \A s \in Submissions : events[s] = <<>> => events'[s] = <<>>,
           served \subseteq Streams
    PROVE  VerdictInv'
<1>1. ASSUME NEW s \in Submissions
      PROVE  /\ s \in results' => pc'[Job(s)] = "done"
             /\ pc'[Request(s)] \in AfterWait => pc'[Job(s)] \in {"leaked", "done"}
             /\ closed'[s] => pc'[Request(s)] \in AfterClose
             /\ IF pc'[Request(s)] \in AfterStatus
                THEN /\ log'[s] # <<>>
                     /\ \A i \in 1 .. Len(log'[s]) : log'[s][i] = "status" <=> i = Len(log'[s])
                ELSE \A i \in 1 .. Len(log'[s]) : log'[s][i] # "status"
  BY DEF VerdictInv
<1>2. \A r \in served' : /\ pc'[Stream(r)] \in AfterStream
                         /\ on'[Stream(r)] \in Submissions
                         /\ closed'[on'[Stream(r)]]
                         /\ events'[on'[Stream(r)]] = <<>>
  BY DEF VerdictInv
<1> QED
  BY <1>1, <1>2 DEF VerdictInv

(* What one step of a request does to the places of the others. *)
LEMMA RequestMoves ==
    ASSUME TypeOK, NEW s \in Submissions, NEW to, Goto(Request(s), pc[Request(s)], to)
    PROVE  /\ pc'[Request(s)] = to
           /\ \A t \in Submissions : t # s => pc'[Request(t)] = pc[Request(t)]
           /\ \A t \in Submissions : pc'[Job(t)] = pc[Job(t)]
           /\ \A r \in Streams : pc'[Stream(r)] = pc[Stream(r)]
BY ActorsDiffer DEF Goto, TypeOK

LEMMA JobMoves ==
    ASSUME TypeOK, NEW s \in Submissions, NEW to, Goto(Job(s), pc[Job(s)], to)
    PROVE  /\ pc'[Job(s)] = to
           /\ \A t \in Submissions : t # s => pc'[Job(t)] = pc[Job(t)]
           /\ \A t \in Submissions : pc'[Request(t)] = pc[Request(t)]
           /\ \A r \in Streams : pc'[Stream(r)] = pc[Stream(r)]
BY ActorsDiffer DEF Goto, TypeOK

LEMMA StreamMoves ==
    ASSUME TypeOK, NEW r \in Streams, NEW to, Goto(Stream(r), pc[Stream(r)], to)
    PROVE  /\ pc'[Stream(r)] = to
           /\ \A q \in Streams : q # r => pc'[Stream(q)] = pc[Stream(q)]
           /\ \A t \in Submissions : /\ pc'[Request(t)] = pc[Request(t)]
                                     /\ pc'[Job(t)] = pc[Job(t)]
BY ActorsDiffer DEF Goto, TypeOK

(* The queue refused the job for good. *)
LEMMA GiveUpVerdict ==
    ASSUME RefInv, VerdictInv, NEW s \in Submissions, PushGivesUp(s)
    PROVE  VerdictInv'
<1>1. /\ pc[Request(s)] = "pushing"
      /\ pc' = [pc EXCEPT ![Request(s)] = "status", ![Job(s)] = "leaked"]
      /\ UNCHANGED <<closed, events, log, on, results, served>>
  BY DEF PushGivesUp, chan
<1>2. /\ pc'[Request(s)] = "status" /\ pc'[Job(s)] = "leaked"
      /\ \A t \in Submissions : t # s => /\ pc'[Request(t)] = pc[Request(t)]
                                         /\ pc'[Job(t)] = pc[Job(t)]
      /\ \A r \in Streams : pc'[Stream(r)] = pc[Stream(r)]
  BY <1>1, ActorsDiffer DEF RefInv, TypeOK
<1>3. pc[Job(s)] = "made"
  BY <1>1 DEF RefInv, ActorsOK
<1>4. s \notin results /\ ~closed[s] /\ \A i \in 1 .. Len(log[s]) : log[s][i] # "status"
  BY <1>1, <1>3 DEF VerdictInv, AfterStatus, AfterClose, AfterWait
<1>5. served \subseteq Streams
  BY DEF RefInv, TypeOK
<1> QED
  <2>1. ASSUME NEW t \in Submissions
        PROVE  /\ t \in results' => pc'[Job(t)] = "done"
               /\ pc'[Request(t)] \in AfterWait => pc'[Job(t)] \in {"leaked", "done"}
               /\ closed'[t] => pc'[Request(t)] \in AfterClose
               /\ IF pc'[Request(t)] \in AfterStatus
                  THEN /\ log'[t] # <<>>
                       /\ \A i \in 1 .. Len(log'[t]) : log'[t][i] = "status" <=> i = Len(log'[t])
                  ELSE \A i \in 1 .. Len(log'[t]) : log'[t][i] # "status"
    <3>1. CASE t = s
      BY <1>1, <1>2, <1>4, <3>1 DEF AfterStatus
    <3>2. CASE t # s
      BY <1>1, <1>2, <3>2 DEF VerdictInv
    <3> QED
      BY <3>1, <3>2
  <2>2. \A r \in served' : /\ pc'[Stream(r)] \in AfterStream
                           /\ on'[Stream(r)] \in Submissions
                           /\ closed'[on'[Stream(r)]]
                           /\ events'[on'[Stream(r)]] = <<>>
    BY <1>1, <1>2, <1>5 DEF VerdictInv
  <2> QED
    BY <2>1, <2>2 DEF VerdictInv

(* With distinct ids the result is that of the request's own job. *)
LEMMA TakeResultVerdict ==
    ASSUME IdsAreDistinct, RefInv, VerdictInv, NEW s \in Submissions, TakeResult(s)
    PROVE  VerdictInv'
<1>1. /\ pc[Request(s)] = "waiting" /\ Goto(Request(s), pc[Request(s)], "status")
      /\ results' \subseteq results
      /\ UNCHANGED <<closed, events, log, on, served>>
  BY DEF TakeResult, chan, Goto
<1>2. /\ pc'[Request(s)] = "status"
      /\ \A t \in Submissions : t # s => pc'[Request(t)] = pc[Request(t)]
      /\ \A t \in Submissions : pc'[Job(t)] = pc[Job(t)]
      /\ \A r \in Streams : pc'[Stream(r)] = pc[Stream(r)]
  BY <1>1, RequestMoves DEF RefInv
<1>3. pc[Job(s)] = "done"
  BY DEF TakeResult, IdsAreDistinct, VerdictInv, RefInv, TypeOK
<1>4. ~closed[s] /\ \A i \in 1 .. Len(log[s]) : log[s][i] # "status"
  BY <1>1 DEF VerdictInv, AfterStatus, AfterClose, AfterWait
<1>5. served \subseteq Streams
  BY DEF RefInv, TypeOK
<1> QED
  BY <1>1, <1>2, <1>3, <1>4, <1>5 DEF VerdictInv, AfterWait, AfterStatus, AfterClose

(* Appending after events none of which is a verdict. *)
LEMMA AppendVerdict ==
    ASSUME NEW q \in Seq({"output", "status"}), NEW e \in {"output", "status"},
           \A i \in 1 .. Len(q) : q[i] # "status"
    PROVE  /\ Append(q, e) # <<>>
           /\ e = "status" => \A i \in 1 .. Len(Append(q, e)) :
                                Append(q, e)[i] = "status" <=> i = Len(Append(q, e))
           /\ e = "output" => \A i \in 1 .. Len(Append(q, e)) : Append(q, e)[i] # "status"
<1>1. /\ Len(Append(q, e)) = Len(q) + 1
      /\ \A i \in 1 .. Len(q) : Append(q, e)[i] = q[i]
      /\ Append(q, e)[Len(q) + 1] = e
      /\ Len(q) \in Nat
  OBVIOUS
<1> QED
  BY <1>1

LEMMA EmitStatusVerdict ==
    ASSUME RefInv, VerdictInv, NEW s \in Submissions, EmitStatus(s)
    PROVE  VerdictInv'
<1>1. /\ pc[Request(s)] = "status" /\ Goto(Request(s), pc[Request(s)], "close")
      /\ Push(s, "status")
      /\ UNCHANGED <<closed, on, results, served>>
  BY DEF EmitStatus, Goto
<1>2. /\ pc'[Request(s)] = "close"
      /\ \A t \in Submissions : t # s => pc'[Request(t)] = pc[Request(t)]
      /\ \A t \in Submissions : pc'[Job(t)] = pc[Job(t)]
      /\ \A r \in Streams : pc'[Stream(r)] = pc[Stream(r)]
  BY <1>1, RequestMoves DEF RefInv
<1>3. /\ ~closed[s] /\ pc[Job(s)] \in {"leaked", "done"}
      /\ \A i \in 1 .. Len(log[s]) : log[s][i] # "status"
  BY <1>1 DEF VerdictInv, AfterStatus, AfterClose, AfterWait
<1>4. /\ events' = [events EXCEPT ![s] = Append(@, "status")]
      /\ log' = [log EXCEPT ![s] = Append(@, "status")]
  BY <1>1, <1>3 DEF Push
<1>5. PICK q \in Seq({"output", "status"}) : q = log[s]
  BY DEF RefInv, TypeOK
<1>6. /\ log'[s] # <<>>
      /\ \A i \in 1 .. Len(log'[s]) : log'[s][i] = "status" <=> i = Len(log'[s])
  <2>1. log'[s] = Append(q, "status")
    BY <1>4, <1>5 DEF RefInv, TypeOK
  <2> QED
    BY <1>3, <1>5, <2>1, AppendVerdict
<1>7. \A t \in Submissions : t # s => log'[t] = log[t] /\ events'[t] = events[t]
  BY <1>4 DEF RefInv, TypeOK
<1>8. \A r \in served : on[Stream(r)] # s
  BY <1>3 DEF VerdictInv
<1>9. served \subseteq Streams
  BY DEF RefInv, TypeOK
<1>10. ASSUME NEW t \in Submissions
       PROVE  /\ t \in results' => pc'[Job(t)] = "done"
              /\ pc'[Request(t)] \in AfterWait => pc'[Job(t)] \in {"leaked", "done"}
              /\ closed'[t] => pc'[Request(t)] \in AfterClose
              /\ IF pc'[Request(t)] \in AfterStatus
                 THEN /\ log'[t] # <<>>
                      /\ \A i \in 1 .. Len(log'[t]) : log'[t][i] = "status" <=> i = Len(log'[t])
                 ELSE \A i \in 1 .. Len(log'[t]) : log'[t][i] # "status"
  <2>1. CASE t = s
    BY <1>1, <1>2, <1>3, <1>6, <2>1 DEF VerdictInv, AfterStatus, AfterWait
  <2>2. CASE t # s
    BY <1>1, <1>2, <1>7, <2>2 DEF VerdictInv
  <2> QED
    BY <2>1, <2>2
<1>11. \A r \in served' : /\ pc'[Stream(r)] \in AfterStream
                          /\ on'[Stream(r)] \in Submissions
                          /\ closed'[on'[Stream(r)]]
                          /\ events'[on'[Stream(r)]] = <<>>
  BY <1>1, <1>2, <1>7, <1>8, <1>9 DEF VerdictInv
<1> QED
  BY <1>10, <1>11 DEF VerdictInv

LEMMA CloseVerdict ==
    ASSUME RefInv, VerdictInv, NEW s \in Submissions, Close(s)
    PROVE  VerdictInv'
<1>1. /\ pc[Request(s)] = "close" /\ Goto(Request(s), pc[Request(s)], "drop")
      /\ closed' = [closed EXCEPT ![s] = TRUE]
      /\ UNCHANGED <<events, log, on, results, served>>
  BY DEF Close, Goto
<1>2. /\ pc'[Request(s)] = "drop"
      /\ \A t \in Submissions : t # s => pc'[Request(t)] = pc[Request(t)]
      /\ \A t \in Submissions : pc'[Job(t)] = pc[Job(t)]
      /\ \A r \in Streams : pc'[Stream(r)] = pc[Stream(r)]
  BY <1>1, RequestMoves DEF RefInv
<1>3. \A t \in Submissions : closed'[t] = closed[t] \/ (t = s /\ closed'[t])
  BY <1>1 DEF RefInv, TypeOK
<1>4. served \subseteq Streams
  BY DEF RefInv, TypeOK
<1>5. ASSUME NEW t \in Submissions
      PROVE  /\ t \in results' => pc'[Job(t)] = "done"
             /\ pc'[Request(t)] \in AfterWait => pc'[Job(t)] \in {"leaked", "done"}
             /\ closed'[t] => pc'[Request(t)] \in AfterClose
             /\ IF pc'[Request(t)] \in AfterStatus
                THEN /\ log'[t] # <<>>
                     /\ \A i \in 1 .. Len(log'[t]) : log'[t][i] = "status" <=> i = Len(log'[t])
                ELSE \A i \in 1 .. Len(log'[t]) : log'[t][i] # "status"
  <2>1. CASE t = s
    BY <1>1, <1>2, <2>1 DEF VerdictInv, AfterClose, AfterStatus, AfterWait
  <2>2. CASE t # s
    BY <1>1, <1>2, <1>3, <2>2 DEF VerdictInv
  <2> QED
    BY <2>1, <2>2
<1>6. \A r \in served' : /\ pc'[Stream(r)] \in AfterStream
                         /\ on'[Stream(r)] \in Submissions
                         /\ closed'[on'[Stream(r)]]
                         /\ events'[on'[Stream(r)]] = <<>>
  BY <1>1, <1>2, <1>3, <1>4 DEF VerdictInv
<1> QED
  BY <1>5, <1>6 DEF VerdictInv

LEMMA WorkerVerdict ==
    ASSUME RefInv, VerdictInv, NEW s \in Submissions, WorkerStep(s)
    PROVE  VerdictInv'
<1>1. served \subseteq Streams
  BY DEF RefInv, TypeOK
<1>2. CASE EmitOutput(s)
  <2>1. /\ pc[Job(s)] = "working" /\ Push(s, "output")
        /\ UNCHANGED <<closed, pc, on, results, served>>
    BY <1>2 DEF EmitOutput, At
  <2>2. /\ pc[Request(s)] \notin AfterStatus /\ ~closed[s]
        /\ \A i \in 1 .. Len(log[s]) : log[s][i] # "status"
    BY <2>1 DEF VerdictInv, AfterClose, AfterStatus
  <2>3. /\ events' = [events EXCEPT ![s] = Append(@, "output")]
        /\ log' = [log EXCEPT ![s] = Append(@, "output")]
    BY <2>1, <2>2 DEF Push
  <2>4. PICK q \in Seq({"output", "status"}) : q = log[s]
    BY DEF RefInv, TypeOK
  <2>5. \A i \in 1 .. Len(log'[s]) : log'[s][i] # "status"
    <3>1. log'[s] = Append(q, "output")
      BY <2>3, <2>4 DEF RefInv, TypeOK
    <3> QED
      BY <2>2, <2>4, <3>1, AppendVerdict
  <2>6. \A t \in Submissions : t # s => log'[t] = log[t] /\ events'[t] = events[t]
    BY <2>3 DEF RefInv, TypeOK
  <2>7. \A r \in served : on[Stream(r)] # s
    BY <2>2 DEF VerdictInv
  <2>8. ASSUME NEW t \in Submissions
        PROVE  /\ t \in results' => pc'[Job(t)] = "done"
               /\ pc'[Request(t)] \in AfterWait => pc'[Job(t)] \in {"leaked", "done"}
               /\ closed'[t] => pc'[Request(t)] \in AfterClose
               /\ IF pc'[Request(t)] \in AfterStatus
                  THEN /\ log'[t] # <<>>
                       /\ \A i \in 1 .. Len(log'[t]) : log'[t][i] = "status" <=> i = Len(log'[t])
                  ELSE \A i \in 1 .. Len(log'[t]) : log'[t][i] # "status"
    BY <2>1, <2>2, <2>5, <2>6 DEF VerdictInv
  <2>9. \A r \in served' : /\ pc'[Stream(r)] \in AfterStream
                           /\ on'[Stream(r)] \in Submissions
                           /\ closed'[on'[Stream(r)]]
                           /\ events'[on'[Stream(r)]] = <<>>
    BY <2>1, <2>6, <2>7 DEF VerdictInv
  <2> QED
    BY <2>8, <2>9 DEF VerdictInv
<1>3. CASE FreeJob(s)
  <2>1. /\ pc[Job(s)] = "working" /\ Goto(Job(s), pc[Job(s)], "drop")
        /\ UNCHANGED <<closed, events, log, on, results, served>>
    BY <1>3 DEF FreeJob, Goto, chan
  <2>2. /\ \A t \in Submissions : t # s => pc'[Job(t)] = pc[Job(t)]
        /\ \A t \in Submissions : pc'[Request(t)] = pc[Request(t)]
        /\ \A r \in Streams : pc'[Stream(r)] = pc[Stream(r)]
    BY <2>1, JobMoves DEF RefInv
  <2> QED
    BY <1>1, <2>1, <2>2, VerdictKept
<1>4. CASE PushResult(s)
  <2>1. /\ pc[Job(s)] = "deliver" /\ Goto(Job(s), pc[Job(s)], "done")
        /\ results' = results \cup {s}
        /\ UNCHANGED <<closed, events, log, on, served>>
    BY <1>4 DEF PushResult, Goto, chan
  <2>2. /\ pc'[Job(s)] = "done"
        /\ \A t \in Submissions : t # s => pc'[Job(t)] = pc[Job(t)]
        /\ \A t \in Submissions : pc'[Request(t)] = pc[Request(t)]
        /\ \A r \in Streams : pc'[Stream(r)] = pc[Stream(r)]
    BY <2>1, JobMoves DEF RefInv
  <2> QED
    BY <1>1, <2>1, <2>2 DEF VerdictInv
<1> QED
  BY <1>2, <1>3, <1>4 DEF WorkerStep

LEMMA StreamVerdict ==
    ASSUME RefInv, VerdictInv, NEW r \in Streams, StreamStep(r)
    PROVE  VerdictInv'
<1>1. served \subseteq Streams
  BY DEF RefInv, TypeOK
<1>2. CASE Find(r) \/ Unknown(r) \/ Attach(r) \/ SendHeaders(r)
  <2>1. /\ pc[Stream(r)] \notin AfterStream
        /\ UNCHANGED <<closed, events, log, results, served>>
    BY <1>2 DEF Find, Unknown, Attach, SendHeaders, Goto, chan, AfterStream
  <2>2. \E to : Goto(Stream(r), pc[Stream(r)], to)
    BY <1>2 DEF Find, Unknown, Attach, SendHeaders, Goto
  <2>3. /\ \A q \in Streams : q # r => pc'[Stream(q)] = pc[Stream(q)]
        /\ \A t \in Submissions : /\ pc'[Request(t)] = pc[Request(t)]
                                  /\ pc'[Job(t)] = pc[Job(t)]
    BY <2>2, StreamMoves DEF RefInv
  <2>4. \A q \in Streams : q # r => on'[Stream(q)] = on[Stream(q)]
    BY <1>2, ActorsDiffer DEF Find, Unknown, Attach, SendHeaders, RefInv, TypeOK
  <2> QED
    BY <1>1, <2>1, <2>3, <2>4, VerdictKept
<1>3. CASE NextEvent(r)
  <2> DEFINE s == on[Stream(r)]
             rest == IF events[s] = <<>> THEN <<>> ELSE Tail(events[s])
  <2>1. /\ pc[Stream(r)] = "streaming"
        /\ events' = [events EXCEPT ![s] = rest]
        /\ UNCHANGED <<closed, log, on, results>>
        /\ \/ Goto(Stream(r), pc[Stream(r)], "streaming") /\ served' = served
           \/ /\ Goto(Stream(r), pc[Stream(r)], "drop") /\ served' = served \cup {r}
              /\ closed[s] /\ rest = <<>>
    BY <1>3 DEF NextEvent, Goto
  <2>2. /\ \/ pc'[Stream(r)] = "streaming" /\ served' = served
           \/ /\ pc'[Stream(r)] = "drop" /\ served' = served \cup {r}
              /\ closed[s] /\ rest = <<>>
        /\ \A q \in Streams : q # r => pc'[Stream(q)] = pc[Stream(q)]
        /\ \A t \in Submissions : /\ pc'[Request(t)] = pc[Request(t)]
                                  /\ pc'[Job(t)] = pc[Job(t)]
    <3>1. ASSUME NEW to, Goto(Stream(r), pc[Stream(r)], to)
          PROVE  /\ pc'[Stream(r)] = to
                 /\ \A q \in Streams : q # r => pc'[Stream(q)] = pc[Stream(q)]
                 /\ \A t \in Submissions : /\ pc'[Request(t)] = pc[Request(t)]
                                           /\ pc'[Job(t)] = pc[Job(t)]
      BY <3>1, StreamMoves DEF RefInv
    <3> HIDE DEF rest
    <3> QED
      BY <2>1, <3>1
  <2>3. s \in Submissions
    <3> HIDE DEF rest
    <3>1. s # NoChannel
      BY <2>1 DEF RefInv, ActorsOK
    <3> QED
      BY <3>1, ActorsDiffer DEF RefInv, TypeOK
  <2>4. /\ events'[s] = rest
        /\ \A t \in Submissions : events[t] = <<>> => events'[t] = <<>>
    BY <2>1, <2>3 DEF RefInv, TypeOK
  <2>5. r \notin served
    BY <2>1 DEF VerdictInv, AfterStream
  <2>6. ASSUME NEW q \in served'
        PROVE  /\ pc'[Stream(q)] \in AfterStream
               /\ on'[Stream(q)] \in Submissions
               /\ closed'[on'[Stream(q)]]
               /\ events'[on'[Stream(q)]] = <<>>
    <3> HIDE DEF rest
    <3>1. CASE q = r
      BY <2>1, <2>2, <2>3, <2>4, <2>5, <2>6, <3>1 DEF AfterStream
    <3>2. CASE q # r
      <4>1. q \in served /\ q \in Streams
        BY <1>1, <2>2, <2>6, <3>2
      <4> QED
        BY <2>1, <2>2, <2>4, <3>2, <4>1 DEF VerdictInv
    <3> QED
      BY <3>1, <3>2
  <2> QED
    BY <2>1, <2>2, <2>6 DEF VerdictInv
<1> QED
  BY <1>2, <1>3 DEF StreamStep

LEMMA ReleaseVerdict ==
    ASSUME RefInv, VerdictInv, NEW a \in Actors, ReleaseStep(a)
    PROVE  VerdictInv'
<1>1. /\ served \subseteq Streams
      /\ UNCHANGED <<closed, log, on, results, served>>
      /\ \A s \in Submissions : events[s] = <<>> => events'[s] = <<>>
  <2>1. UNCHANGED <<closed, log, on, results, served>>
    BY DEF ReleaseStep, Drop, Forget, Destroy, Dangle, chan
  <2>2. events' = events \/ events' = [events EXCEPT ![on[a]] = <<>>]
    BY DEF ReleaseStep, Drop, Forget, Destroy, Dangle, chan
  <2> QED
    BY <2>1, <2>2 DEF RefInv, TypeOK
<1>2. /\ \A b \in Actors : b # a => pc'[b] = pc[b]
      /\ pc[a] \in Touches
      /\ pc'[a] \in {"forget", "destroy", "dangling", AfterRelease(a)}
      /\ pc[a] \in {"drop", "forget", "destroy"} \/ (pc'[a] = "dangling" /\ life[on[a]] = "freed")
  BY DEF ReleaseStep, Drop, Forget, Destroy, Dangle, Goto, At, RefInv, TypeOK, Touches
<1>3. ASSUME NEW s \in Submissions, a = Request(s)
      PROVE  pc[a] \in AfterClose /\ pc'[a] \in AfterClose
  <2>1. pc'[a] \in {"forget", "destroy", "dangling", "done"}
    BY <1>2, <1>3, ActorsDiffer DEF AfterRelease
  <2>2. life[on[a]] = "freed" => Request(s) \notin Holders(s)
    BY <1>3 DEF RefInv, CountInv, RequestHasLeft, ActorsOK
  <2>3. pc[a] \in {"drop", "forget", "destroy"}
    BY <1>2, <1>3, <2>2, ActorsDiffer DEF Touches, Holders, RefInv, ActorsOK, RequestPlaces
  <2> QED
    BY <2>1, <2>3 DEF AfterClose, AfterStatus, AfterWait
<1>4. ASSUME NEW s \in Submissions, a = Job(s) PROVE pc[a] \notin {"leaked", "done"}
  BY <1>2 DEF Touches
<1>5. ASSUME NEW r \in Streams, a = Stream(r) PROVE pc'[a] \in AfterStream
  BY <1>2, <1>5, ActorsDiffer DEF AfterRelease, AfterStream
<1>6. ASSUME NEW s \in Submissions
      PROVE  /\ pc[Job(s)] \in {"leaked", "done"} => pc'[Job(s)] = pc[Job(s)]
             /\ pc'[Request(s)] \in AfterWait <=> pc[Request(s)] \in AfterWait
             /\ pc'[Request(s)] \in AfterStatus <=> pc[Request(s)] \in AfterStatus
             /\ pc'[Request(s)] \in AfterClose <=> pc[Request(s)] \in AfterClose
  <2>1. pc[Job(s)] \in {"leaked", "done"} => pc'[Job(s)] = pc[Job(s)]
    BY <1>2, <1>4, ActorsDiffer
  <2>2. CASE a = Request(s)
    BY <1>3, <2>1, <2>2 DEF AfterClose, AfterStatus
  <2>3. CASE a # Request(s)
    BY <1>2, <2>1, <2>3, ActorsDiffer
  <2> QED
    BY <2>2, <2>3
<1>7. \A r \in Streams : pc[Stream(r)] \in AfterStream
                           => pc'[Stream(r)] \in AfterStream /\ on'[Stream(r)] = on[Stream(r)]
  BY <1>1, <1>2, <1>5, ActorsDiffer
<1> QED
  BY <1>1, <1>6, <1>7, VerdictKept

LEMMA StepVerdict ==
    ASSUME IdsAreDistinct, RefInv, VerdictInv, [Next]_vars
    PROVE  VerdictInv'
<1>1. served \subseteq Streams
  BY DEF RefInv, TypeOK
<1>2. ASSUME NEW s \in Submissions, RequestStep(s) PROVE VerdictInv'
  <2>1. CASE Register(s) \/ RegisterFails(s)
    <3>1. /\ pc[Request(s)] = "new" /\ UNCHANGED <<closed, events, log, on, results, served>>
          /\ \E to \in {"registered", "refused"} : Goto(Request(s), pc[Request(s)], to)
      BY <2>1 DEF Register, RegisterFails, Goto, chan
    <3>2. /\ pc'[Request(s)] \in {"registered", "refused"}
          /\ \A t \in Submissions : t # s => pc'[Request(t)] = pc[Request(t)]
          /\ \A t \in Submissions : pc'[Job(t)] = pc[Job(t)]
          /\ \A r \in Streams : pc'[Stream(r)] = pc[Stream(r)]
      BY <3>1, RequestMoves DEF RefInv
    <3> QED
      BY <1>1, <3>1, <3>2, VerdictKept DEF AfterClose, AfterStatus, AfterWait
  <2>2. CASE Retain(s) \/ PushJob(s)
    <3>1. /\ pc[Request(s)] \in {"registered", "pushing"}
          /\ UNCHANGED <<closed, events, log, on, results, served>>
          /\ \E x \in {"pushing", "waiting"}, y \in {"made", "working"} :
               pc' = [pc EXCEPT ![Request(s)] = x, ![Job(s)] = y]
      BY <2>2 DEF Retain, PushJob, At, chan
    <3>2. /\ pc'[Request(s)] \in {"pushing", "waiting"}
          /\ \A t \in Submissions : t # s => /\ pc'[Request(t)] = pc[Request(t)]
                                             /\ pc'[Job(t)] = pc[Job(t)]
          /\ \A r \in Streams : pc'[Stream(r)] = pc[Stream(r)]
      BY <3>1, ActorsDiffer DEF RefInv, TypeOK
    <3>3. pc[Job(s)] \in {"none", "made"}
      BY <3>1 DEF RefInv, ActorsOK
    <3> QED
      BY <1>1, <3>1, <3>2, <3>3, VerdictKept DEF AfterClose, AfterStatus, AfterWait
  <2> QED
    BY <1>2, <2>1, <2>2, GiveUpVerdict, TakeResultVerdict, EmitStatusVerdict, CloseVerdict
       DEF RequestStep
<1>3. CASE UNCHANGED vars
  <2>1. UNCHANGED <<closed, events, log, pc, on, results, served>>
    BY <1>3 DEF vars
  <2> QED
    BY <1>1, <2>1, VerdictKept
<1> QED
  BY <1>2, <1>3, WorkerVerdict, StreamVerdict, ReleaseVerdict DEF Next

LEMMA VerdictInvariant ==
    ASSUME IdsAreDistinct
    PROVE  Spec => []VerdictInv
<1>1. ASSUME Init PROVE VerdictInv
  <2>1. \A s \in Submissions : pc[Request(s)] = "new"
    BY <1>1, ActorsDiffer DEF Init
  <2>2. \A s \in Submissions : ~closed[s] /\ log[s] = <<>>
    BY <1>1 DEF Init
  <2>3. results = {} /\ served = {}
    BY <1>1 DEF Init
  <2> QED
    BY <2>1, <2>2, <2>3 DEF VerdictInv, AfterClose, AfterStatus, AfterWait
<1>2. RefInv /\ VerdictInv /\ [Next]_vars => VerdictInv'
  BY StepVerdict
<1> QED
  BY <1>1, <1>2, RefInvariant, PTL DEF Spec

(* No id twice: no output is dropped, because the channel is closed only   *)
(* after the job's encoders have ended.                                    *)
THEOREM OutputsReachTheChannel ==
    ASSUME IdsAreDistinct
    PROVE  Spec => []OutputsNotDropped
<1>1. VerdictInv => OutputsNotDropped
  BY DEF VerdictInv, OutputsNotDropped, AfterClose, AfterStatus
<1> QED
  BY <1>1, VerdictInvariant, PTL

(* No id twice: when a stream ends by itself its job's events are all gone *)
(* to the job's streams, and the verdict was the last.                     *)
THEOREM StreamsSeeTheVerdict ==
    ASSUME IdsAreDistinct
    PROVE  Spec => []ServedToTheEnd
<1>1. ASSUME RefInv, VerdictInv PROVE ServedToTheEnd
  <2>1. ASSUME NEW r \in served
        PROVE  /\ events[on[Stream(r)]] = <<>>
               /\ log[on[Stream(r)]] # <<>>
               /\ \A i \in 1 .. Len(log[on[Stream(r)]]) :
                    log[on[Stream(r)]][i] = "status" <=> i = Len(log[on[Stream(r)]])
    <3>1. pc[Stream(r)] \in AfterStream /\ closed[on[Stream(r)]] /\ events[on[Stream(r)]] = <<>>
      BY <1>1, <2>1 DEF VerdictInv
    <3>2. on[Stream(r)] \in Submissions
      BY <1>1, <2>1, <3>1, ActorsDiffer DEF RefInv, ActorsOK, TypeOK, AfterStream
    <3>3. pc[Request(on[Stream(r)])] \in AfterStatus
      BY <1>1, <3>1, <3>2 DEF VerdictInv, AfterClose
    <3> QED
      BY <1>1, <3>1, <3>2, <3>3 DEF VerdictInv
  <2> QED
    BY <2>1 DEF ServedToTheEnd
<1> QED
  BY <1>1, RefInvariant, VerdictInvariant, PTL
=============================================================================
