------------------------------ MODULE ServerProofs ------------------------------
(***************************************************************************)
(* Proofs about Pipeline and about Shutdown, the server around it, for any *)
(* number of requests and workers, any sizes of the queues, the cache and  *)
(* the registry.                                                           *)
(***************************************************************************)
EXTENDS Shutdown, FiniteSetTheorems, TLAPS
-----------------------------------------------------------------------------
(* Pipeline: where each job is *)

(* The job of s, or its result, is at place i of kind k. *)
At(s, k, i) ==
    \/ k = "jobs" /\ i \in 1 .. Len(jobs) /\ jobs[i] = s
    \/ k = "worker" /\ i \in Workers /\ work[i] = s
    \/ k = "results" /\ i \in 1 .. Len(results) /\ results[i] = s
    \/ k = "held" /\ i \in Submissions /\ held[i] = s
    \/ k = "answer" /\ i \in Submissions /\ answer[i] = s
    \/ k = "cache" /\ i = s /\ s \in cache
    \/ k = "lost" /\ i = s /\ s \in lost

Accepted(s) == req[s] \in {"check", "wait", "store", "answered"}

(* No job is at two places, and it is at one from the push on. *)
OnePlace ==
    \A s \in Submissions : \A k, i, l, j : At(s, k, i) /\ At(s, l, j) => k = l /\ i = j

Somewhere(s) == \E k, i : At(s, k, i)

AcceptedJobsHaveAPlace == \A s \in Submissions : Somewhere(s) <=> Accepted(s)

(* A hand is empty exactly when its thread is not at a step that uses it. *)
HandsMatchSteps ==
    /\ \A w \in Workers : work[w] = None <=> stage[w] = "idle"
    /\ \A s \in Submissions : held[s] = None <=> req[s] # "store"
    /\ \A s \in Submissions : answer[s] = None <=> req[s] # "answered"

(* The inductive invariant. *)
PlaceInv ==
    /\ TypeOK
    /\ IsFiniteSet(cache)
    /\ IsFiniteSet(tracked)
    /\ HandsMatchSteps
    /\ OnePlace
    /\ AcceptedJobsHaveAPlace
-----------------------------------------------------------------------------
(* How a step moves a job. *)

(* The job m goes to place j of kind l, and no other moves. *)
Moved(m, l, j) ==
    \A s \in Submissions : \A k, i :
        At(s, k, i)' <=> IF s = m THEN k = l /\ i = j ELSE At(s, k, i)

(* The same, m being at the head of queue q, whose other entries move up. *)
Taken(m, q, l, j) ==
    \A s \in Submissions : \A k, i :
        At(s, k, i)' <=> IF s = m THEN k = l /\ i = j
                         ELSE IF k = q THEN i \in Nat /\ At(s, k, i + 1)
                         ELSE At(s, k, i)

(* No job moves. *)
Still == \A s \in Submissions : \A k, i : At(s, k, i)' <=> At(s, k, i)

(* A move leaves every job at one place at most. *)
LEMMA MovedKeepsPlaces ==
    ASSUME OnePlace, NEW m \in Submissions, NEW l, NEW j, Moved(m, l, j)
    PROVE  /\ OnePlace'
           /\ \A s \in Submissions : Somewhere(s)' <=> s = m \/ Somewhere(s)
BY DEF OnePlace, Moved, Somewhere

(* Without a move nothing changes. *)
LEMMA StillKeepsPlaces ==
    ASSUME OnePlace, Still
    PROVE  /\ OnePlace'
           /\ \A s \in Submissions : Somewhere(s)' <=> Somewhere(s)
BY DEF OnePlace, Still, Somewhere

(* Nor does taking the head of a queue put a job at two places, or lose    *)
(* one.                                                                    *)
LEMMA TakenKeepsPlaces ==
    ASSUME OnePlace, NEW m \in Submissions, NEW q \in {"jobs", "results"}, NEW l, NEW j,
           TypeOK, At(m, q, 1), Taken(m, q, l, j)
    PROVE  /\ OnePlace'
           /\ \A s \in Submissions : Somewhere(s)' <=> s = m \/ Somewhere(s)
<1>1. \A s \in Submissions : \A i : At(s, q, i) =>
        /\ i \in Nat
        /\ s # m => \E h \in Nat : i = h + 1
  <2> SUFFICES ASSUME NEW s \in Submissions, NEW i, At(s, q, i)
               PROVE  i \in Nat /\ (s # m => \E h \in Nat : i = h + 1)
    OBVIOUS
  <2>1. i \in Nat /\ i > 0
    BY DEF At, TypeOK
  <2> QED
    BY <2>1
<1>2. OnePlace'
  <2> SUFFICES ASSUME NEW s \in Submissions, NEW k, NEW i, NEW k2, NEW i2,
                      At(s, k, i)', At(s, k2, i2)'
               PROVE  k = k2 /\ i = i2
    BY DEF OnePlace
  <2> QED
    BY <1>1 DEF OnePlace, Taken
<1>3. ASSUME NEW s \in Submissions PROVE Somewhere(s)' <=> s = m \/ Somewhere(s)
  <2>1. CASE s = m
    BY <2>1 DEF Taken, Somewhere
  <2>2. CASE s # m
    <3>1. ASSUME NEW k, NEW i, At(s, k, i) PROVE \E h : At(s, k, h)'
      <4>1. CASE k = q
        <5>1. PICK h \in Nat : i = h + 1
          BY <1>1, <2>2, <3>1, <4>1
        <5> QED
          BY <2>2, <3>1, <4>1, <5>1 DEF Taken
      <4> QED
        BY <2>2, <3>1, <4>1 DEF Taken
    <3>2. ASSUME NEW k, NEW i, At(s, k, i)' PROVE \E h : At(s, k, h)
      BY <2>2, <3>2 DEF Taken
    <3> QED
      BY <2>2, <3>1, <3>2 DEF Somewhere
  <2> QED
    BY <2>1, <2>2
<1> QED
  BY <1>2, <1>3

(* Sets that shrink by one element, or grow by one below a bound.          *)
LEMMA BoundedSets ==
    ASSUME NEW T, NEW x, NEW n \in Nat, IsFiniteSet(T), Cardinality(T) <= n
    PROVE  /\ IsFiniteSet(T \ {x}) /\ Cardinality(T \ {x}) <= n
           /\ IsFiniteSet(T \cup {x})
           /\ Cardinality(T) < n => Cardinality(T \cup {x}) <= n
<1>1. Cardinality(T) \in Nat
  BY FS_CardinalityType
<1>2. Cardinality(T \ {x}) = IF x \in T THEN Cardinality(T) - 1 ELSE Cardinality(T)
  BY FS_RemoveElement
<1>3. Cardinality(T \cup {x}) = IF x \in T THEN Cardinality(T) ELSE Cardinality(T) + 1
  BY FS_AddElement
<1>4. IsFiniteSet(T \ {x}) /\ IsFiniteSet(T \cup {x})
  BY FS_RemoveElement, FS_AddElement
<1> QED
  BY <1>1, <1>2, <1>3, <1>4

(* The registry after a request has gone or a job is freed. *)
LEMMA EntriesGoOneByOne ==
    ASSUME TypeOK, IsFiniteSet(tracked), NEW s, tracked' \in {tracked, tracked \ {s}}
    PROVE  /\ tracked' \subseteq Submissions /\ Cardinality(tracked') <= RegistrySize
           /\ IsFiniteSet(tracked')
<1>1. Cardinality(tracked) <= RegistrySize /\ RegistrySize \in Nat
  BY PipelineAssumption DEF TypeOK
<1>2. IsFiniteSet(tracked \ {s}) /\ Cardinality(tracked \ {s}) <= RegistrySize
  BY <1>1, BoundedSets
<1> QED
  BY <1>1, <1>2 DEF TypeOK
-----------------------------------------------------------------------------
(* The request thread. *)

LEMMA SubmitPlaces ==
    ASSUME PlaceInv, NEW t \in Submissions, Submit(t)
    PROVE  PlaceInv'
<1> USE PipelineAssumption DEF PlaceInv
<1>1. /\ UNCHANGED <<attempts, held, answer, jobs, results, cache, work, stage, lost>>
      /\ req[t] = "new" /\ req' = [req EXCEPT ![t] = req'[t]]
      /\ req'[t] \in {"push", "untracked"}
      /\ \/ tracked' = tracked
         \/ Cardinality(tracked) < RegistrySize /\ tracked' = tracked \cup {t}
  BY DEF Submit, Goto, TypeOK
<1>2. IsFiniteSet(tracked') /\ Cardinality(tracked') <= RegistrySize
  <2>1. Cardinality(tracked) <= RegistrySize /\ RegistrySize \in Nat
    BY DEF TypeOK
  <2>2. /\ IsFiniteSet(tracked \cup {t})
        /\ Cardinality(tracked) < RegistrySize => Cardinality(tracked \cup {t}) <= RegistrySize
    BY <2>1, BoundedSets
  <2> QED
    BY <1>1, <2>1, <2>2
<1>3. TypeOK'
  BY <1>1, <1>2 DEF TypeOK
<1>4. HandsMatchSteps'
  BY <1>1 DEF HandsMatchSteps, TypeOK
<1>5. Still
  BY <1>1 DEF Still, At
<1>6. AcceptedJobsHaveAPlace'
  BY <1>1, <1>5, StillKeepsPlaces DEF AcceptedJobsHaveAPlace, Accepted, TypeOK
<1> QED
  BY <1>1, <1>2, <1>3, <1>4, <1>5, <1>6, StillKeepsPlaces

LEMMA PushJobPlaces ==
    ASSUME PlaceInv, NEW t \in Submissions, PushJob(t)
    PROVE  PlaceInv'
<1> USE PipelineAssumption DEF PlaceInv
<1>1. /\ UNCHANGED <<attempts, held, answer, results, cache, work, stage, tracked, lost>>
      /\ req[t] = "push" /\ req' = [req EXCEPT ![t] = "check"]
      /\ jobs' = Append(jobs, t) /\ Len(jobs) < QueueSize
  BY DEF PushJob, Goto
<1>2. /\ jobs' \in Seq(Submissions) /\ Len(jobs') = Len(jobs) + 1 /\ Len(jobs) \in Nat
      /\ jobs'[Len(jobs) + 1] = t
      /\ \A i \in 1 .. Len(jobs) : jobs'[i] = jobs[i]
  BY <1>1 DEF TypeOK
<1>3. TypeOK'
  BY <1>1, <1>2 DEF TypeOK
<1>4. HandsMatchSteps'
  BY <1>1 DEF HandsMatchSteps, TypeOK
<1>5. \A k, i : ~At(t, k, i)
  BY <1>1 DEF AcceptedJobsHaveAPlace, Accepted, Somewhere
<1>6. Moved(t, "jobs", Len(jobs) + 1)
  <2>1. \A i : i \in 1 .. Len(jobs') <=> i \in 1 .. Len(jobs) \/ i = Len(jobs) + 1
    BY <1>2
  <2>2. ASSUME NEW s \in Submissions, NEW k, NEW i
        PROVE  At(s, k, i)' <=> At(s, k, i) \/ (s = t /\ k = "jobs" /\ i = Len(jobs) + 1)
    BY <1>1, <1>2, <2>1 DEF At
  <2> QED
    BY <1>5, <2>2 DEF Moved
<1>7. AcceptedJobsHaveAPlace'
  BY <1>1, <1>6, MovedKeepsPlaces DEF AcceptedJobsHaveAPlace, Accepted, TypeOK
<1> QED
  BY <1>1, <1>3, <1>4, <1>6, <1>7, MovedKeepsPlaces

(* Steps that leave every job where it is. *)
LEMMA RequestWaitsPlaces ==
    ASSUME PlaceInv, NEW t \in Submissions, PushRefused(t) \/ GiveUp(t) \/ CacheMiss(t)
    PROVE  PlaceInv'
<1> USE PipelineAssumption DEF PlaceInv
<1>1. /\ UNCHANGED <<held, answer, jobs, results, cache, work, stage, tracked, lost>>
      /\ \/ req' = req /\ attempts[t] < MaxAttempts
            /\ attempts' = [attempts EXCEPT ![t] = @ + 1]
         \/ req[t] = "push" /\ req' = [req EXCEPT ![t] = "busy"] /\ attempts' = attempts
         \/ req[t] = "check" /\ req' = [req EXCEPT ![t] = "wait"] /\ attempts' = attempts
  BY DEF PushRefused, GiveUp, CacheMiss, Goto
<1>2. TypeOK'
  <2>1. attempts' \in [Submissions -> 0 .. MaxAttempts]
    <3>1. attempts[t] < MaxAttempts => attempts[t] + 1 \in 0 .. MaxAttempts
      BY DEF TypeOK
    <3> QED
      BY <1>1, <3>1 DEF TypeOK
  <2> QED
    BY <1>1, <2>1 DEF TypeOK
<1>3. HandsMatchSteps'
  BY <1>1 DEF HandsMatchSteps, TypeOK
<1>4. Still
  BY <1>1 DEF Still, At
<1>5. AcceptedJobsHaveAPlace'
  BY <1>1, <1>4, StillKeepsPlaces DEF AcceptedJobsHaveAPlace, Accepted, TypeOK
<1> QED
  BY <1>1, <1>2, <1>3, <1>4, <1>5, StillKeepsPlaces

(* What an answer does, whoever's result it is: it may let an entry go. *)
LEMMA AnswerTypes ==
    ASSUME PlaceInv, NEW t \in Submissions, NEW from, NEW r \in Submissions,
           Answer(t, from, r)
    PROVE  /\ req[t] = from /\ req' = [req EXCEPT ![t] = "answered"]
           /\ answer' = [answer EXCEPT ![t] = r]
           /\ tracked' \subseteq Submissions /\ Cardinality(tracked') <= RegistrySize
           /\ IsFiniteSet(tracked')
BY EntriesGoOneByOne DEF PlaceInv, Answer, Goto

LEMMA CacheHitPlaces ==
    ASSUME PlaceInv, NEW t \in Submissions, CacheHit(t)
    PROVE  PlaceInv'
<1> USE PipelineAssumption DEF PlaceInv
<1>1. PICK r \in cache : Answer(t, "check", r) /\ cache' = cache \ {r}
                         /\ UNCHANGED <<attempts, held, jobs, results, work, stage, lost>>
  BY DEF CacheHit
<1>2. r \in Submissions /\ r # None
  BY <1>1 DEF TypeOK
<1>3. /\ req[t] = "check" /\ req' = [req EXCEPT ![t] = "answered"]
      /\ answer' = [answer EXCEPT ![t] = r]
      /\ tracked' \subseteq Submissions /\ Cardinality(tracked') <= RegistrySize
      /\ IsFiniteSet(tracked')
  BY <1>1, <1>2, AnswerTypes
<1>4. IsFiniteSet(cache') /\ Cardinality(cache') <= CacheMax
  BY <1>1, BoundedSets DEF TypeOK
<1>5. TypeOK'
  BY <1>1, <1>2, <1>3, <1>4 DEF TypeOK
<1>6. HandsMatchSteps'
  BY <1>1, <1>2, <1>3 DEF HandsMatchSteps, TypeOK
<1>7. Moved(r, "answer", t)
  <2>1. At(r, "cache", r)
    BY <1>1 DEF At
  <2>2. \A k, i : At(r, k, i) => k = "cache"
    BY <1>2, <2>1 DEF OnePlace
  <2>3. answer[t] = None
    BY <1>3 DEF HandsMatchSteps
  <2>4. ASSUME NEW s \in Submissions, NEW k, NEW i
        PROVE  At(s, k, i)' <=> IF s = r /\ k = "cache" THEN FALSE
                                ELSE At(s, k, i) \/ (s = r /\ k = "answer" /\ i = t)
    BY <1>1, <1>3, <2>3 DEF At, TypeOK
  <2> QED
    BY <2>2, <2>4 DEF Moved
<1>8. AcceptedJobsHaveAPlace'
  <2>1. Somewhere(r)
    BY <1>1 DEF At, Somewhere
  <2> QED
    BY <1>2, <1>3, <1>7, <2>1, MovedKeepsPlaces DEF AcceptedJobsHaveAPlace, Accepted, TypeOK
<1> QED
  BY <1>2, <1>3, <1>4, <1>5, <1>6, <1>7, <1>8, MovedKeepsPlaces

(* A pop from the result queue, of the request's own result or not. *)
LEMMA PopResultTakes ==
    ASSUME PlaceInv, results # <<>>, results' = Tail(results),
           UNCHANGED <<jobs, cache, work, lost>>,
           NEW t \in Submissions,
           \/ /\ answer[t] = None /\ answer' = [answer EXCEPT ![t] = Head(results)]
              /\ held' = held
           \/ /\ held[t] = None /\ held' = [held EXCEPT ![t] = Head(results)]
              /\ answer' = answer
    PROVE  LET r == Head(results)
               k0 == IF answer' = answer THEN "held" ELSE "answer"
           IN  /\ r \in Submissions /\ r # None
               /\ results' \in Seq(Submissions) /\ Len(results') <= QueueSize
               /\ At(r, "results", 1)
               /\ Taken(r, "results", k0, t)
<1> USE PipelineAssumption DEF PlaceInv
<1> DEFINE r == Head(results)
           k0 == IF answer' = answer THEN "held" ELSE "answer"
<1>1. /\ r \in Submissions /\ r = results[1] /\ Len(results) \in Nat /\ Len(results) > 0
      /\ results' \in Seq(Submissions) /\ Len(results') = Len(results) - 1
      /\ \A i \in 1 .. Len(results') : results'[i] = results[i + 1]
  BY DEF TypeOK
<1>2. Len(results') <= QueueSize
  BY <1>1 DEF TypeOK
<1>3. At(r, "results", 1)
  BY <1>1 DEF At
<1>4. \A k, i : At(r, k, i) => k = "results" /\ i = 1
  BY <1>1, <1>3 DEF OnePlace
<1>5. \A i : i \in 1 .. Len(results') <=> i \in Nat /\ i # 0 /\ i + 1 \in 1 .. Len(results)
  BY <1>1
<1>6. r # None
  BY <1>1
<1> HIDE DEF r
<1>7. k0 = "answer" => /\ answer' = [answer EXCEPT ![t] = r] /\ answer[t] = None
                       /\ held' = held
  BY DEF r
<1>8. k0 = "held" => /\ held' = [held EXCEPT ![t] = r] /\ held[t] = None
                     /\ answer' = answer
  BY <1>6 DEF r, TypeOK
<1>9. k0 \in {"held", "answer"}
  OBVIOUS
<1> HIDE DEF k0
<1>10. Taken(r, "results", k0, t)
  <2>1. ASSUME NEW s \in Submissions, NEW i
        PROVE  At(s, "results", i)' <=> i \in Nat /\ i # 0 /\ At(s, "results", i + 1)
    BY <1>1, <1>5 DEF At
  <2>2. ASSUME NEW s \in Submissions, NEW k, NEW i, k # "results"
        PROVE  At(s, k, i)' <=> At(s, k, i) \/ (s = r /\ k = k0 /\ i = t)
    BY <1>7, <1>8, <1>9, <2>2 DEF At, TypeOK
  <2>3. ASSUME NEW s \in Submissions, s # r, NEW i, i \in Nat, At(s, "results", i + 1)
        PROVE  i # 0
    BY <1>1, <2>3 DEF At
  <2>4. ASSUME NEW i, i \in Nat, i # 0 PROVE ~At(r, "results", i + 1)
    BY <1>4, <2>4
  <2> QED
    BY <1>4, <1>9, <2>1, <2>2, <2>3, <2>4 DEF Taken
<1> QED
  BY <1>1, <1>2, <1>3, <1>6, <1>10 DEF r, k0

LEMMA PopOwnPlaces ==
    ASSUME PlaceInv, NEW t \in Submissions, PopOwn(t)
    PROVE  PlaceInv'
<1> USE PipelineAssumption DEF PlaceInv
<1> DEFINE r == Head(results)
<1>1. /\ results # <<>> /\ results' = Tail(results) /\ Answer(t, "wait", r)
      /\ UNCHANGED <<attempts, held, jobs, cache, work, stage, lost>>
  BY DEF PopOwn
<1>2. answer[t] = None /\ answer' = [answer EXCEPT ![t] = r]
  BY <1>1 DEF Answer, Goto, HandsMatchSteps
<1>3. /\ r \in Submissions /\ r # None
      /\ results' \in Seq(Submissions) /\ Len(results') <= QueueSize
      /\ At(r, "results", 1)
      /\ Taken(r, "results", IF answer' = answer THEN "held" ELSE "answer", t)
  BY <1>1, <1>2, PopResultTakes
<1>4. answer' # answer
  BY <1>2, <1>3 DEF TypeOK
<1>5. /\ req[t] = "wait" /\ req' = [req EXCEPT ![t] = "answered"]
      /\ tracked' \subseteq Submissions /\ Cardinality(tracked') <= RegistrySize
      /\ IsFiniteSet(tracked')
  BY <1>1, <1>3, AnswerTypes
<1> HIDE DEF r
<1>6. TypeOK'
  BY <1>1, <1>2, <1>3, <1>5 DEF TypeOK
<1>7. HandsMatchSteps'
  BY <1>1, <1>2, <1>3, <1>5 DEF HandsMatchSteps, TypeOK
<1>8. /\ OnePlace'
      /\ \A s \in Submissions : Somewhere(s)' <=> s = r \/ Somewhere(s)
  BY <1>3, <1>4, TakenKeepsPlaces
<1>9. AcceptedJobsHaveAPlace'
  <2>1. Somewhere(r)
    BY <1>3 DEF Somewhere
  <2> QED
    BY <1>3, <1>5, <1>8, <2>1 DEF AcceptedJobsHaveAPlace, Accepted, TypeOK
<1> QED
  BY <1>1, <1>5, <1>6, <1>7, <1>8, <1>9

LEMMA PopForeignPlaces ==
    ASSUME PlaceInv, NEW t \in Submissions, PopForeign(t)
    PROVE  PlaceInv'
<1> USE PipelineAssumption DEF PlaceInv
<1> DEFINE r == Head(results)
<1>1. /\ results # <<>> /\ results' = Tail(results)
      /\ req[t] = "wait" /\ req' = [req EXCEPT ![t] = "store"]
      /\ held' = [held EXCEPT ![t] = r]
      /\ UNCHANGED <<attempts, answer, jobs, cache, work, stage, tracked, lost>>
  BY DEF PopForeign, Goto
<1>2. held[t] = None
  BY <1>1 DEF HandsMatchSteps
<1>3. /\ r \in Submissions /\ r # None
      /\ results' \in Seq(Submissions) /\ Len(results') <= QueueSize
      /\ At(r, "results", 1)
      /\ Taken(r, "results", IF answer' = answer THEN "held" ELSE "answer", t)
  BY <1>1, <1>2, PopResultTakes
<1> HIDE DEF r
<1>4. TypeOK'
  BY <1>1, <1>3 DEF TypeOK
<1>5. HandsMatchSteps'
  BY <1>1, <1>3 DEF HandsMatchSteps, TypeOK
<1>6. /\ OnePlace'
      /\ \A s \in Submissions : Somewhere(s)' <=> s = r \/ Somewhere(s)
  BY <1>1, <1>3, TakenKeepsPlaces
<1>7. AcceptedJobsHaveAPlace'
  <2>1. Somewhere(r)
    BY <1>3 DEF Somewhere
  <2> QED
    BY <1>1, <1>3, <1>6, <2>1 DEF AcceptedJobsHaveAPlace, Accepted, TypeOK
<1> QED
  BY <1>1, <1>4, <1>5, <1>6, <1>7

LEMMA StorePlaces ==
    ASSUME PlaceInv, NEW t \in Submissions, Store(t)
    PROVE  PlaceInv'
<1> USE PipelineAssumption DEF PlaceInv
<1> DEFINE r == held[t]
<1>1. /\ req[t] = "store" /\ req' = [req EXCEPT ![t] = "wait"]
      /\ held' = [held EXCEPT ![t] = None]
      /\ UNCHANGED <<attempts, answer, jobs, results, work, stage, tracked>>
      /\ \/ Cardinality(cache) < CacheMax /\ cache' = cache \cup {r} /\ lost' = lost
         \/ lost' = lost \cup {r} /\ cache' = cache
  BY DEF Store, Goto
<1>2. r \in Submissions /\ r # None
  BY <1>1 DEF HandsMatchSteps, TypeOK
<1>3. IsFiniteSet(cache') /\ Cardinality(cache') <= CacheMax
  <2>1. /\ IsFiniteSet(cache \cup {r})
        /\ Cardinality(cache) < CacheMax => Cardinality(cache \cup {r}) <= CacheMax
    BY BoundedSets DEF TypeOK
  <2> QED
    BY <1>1, <2>1 DEF TypeOK
<1>4. At(r, "held", t)
  BY DEF At
<1>5. \A k, i : At(r, k, i) => k = "held" /\ i = t
  BY <1>2, <1>4 DEF OnePlace
<1>6. Somewhere(r)
  BY <1>4 DEF Somewhere
<1>7. \A i \in Submissions \ {t} : held'[i] = held[i]
  BY <1>1 DEF TypeOK
<1>8. held'[t] = None /\ held[t] = r
  BY <1>1 DEF TypeOK
<1> HIDE DEF r
<1>9. TypeOK'
  BY <1>1, <1>2, <1>3 DEF TypeOK
<1>10. HandsMatchSteps'
  BY <1>1 DEF HandsMatchSteps, TypeOK
<1>11. \E l \in {"cache", "lost"} : Moved(r, l, r)
  <2>1. CASE cache' = cache \cup {r} /\ lost' = lost
    <3>1. ASSUME NEW s \in Submissions, NEW k, NEW i
          PROVE  At(s, k, i)' <=> IF k = "held" /\ i = t THEN FALSE
                                  ELSE At(s, k, i) \/ (s = r /\ k = "cache" /\ i = r)
      BY <1>1, <1>2, <1>7, <1>8, <2>1 DEF At
    <3>2. ASSUME NEW s \in Submissions PROVE At(s, "held", t) <=> s = r
      BY <1>8 DEF At
    <3>3. Moved(r, "cache", r)
      BY <1>5, <3>1, <3>2 DEF Moved
    <3> QED
      BY <3>3
  <2>2. CASE lost' = lost \cup {r} /\ cache' = cache
    <3>1. ASSUME NEW s \in Submissions, NEW k, NEW i
          PROVE  At(s, k, i)' <=> IF k = "held" /\ i = t THEN FALSE
                                  ELSE At(s, k, i) \/ (s = r /\ k = "lost" /\ i = r)
      BY <1>1, <1>2, <1>7, <1>8, <2>2 DEF At
    <3>2. ASSUME NEW s \in Submissions PROVE At(s, "held", t) <=> s = r
      BY <1>8 DEF At
    <3>3. Moved(r, "lost", r)
      BY <1>5, <3>1, <3>2 DEF Moved
    <3> QED
      BY <3>3
  <2> QED
    BY <1>1, <2>1, <2>2
<1>12. /\ OnePlace'
       /\ \A s \in Submissions : Somewhere(s)' <=> s = r \/ Somewhere(s)
  BY <1>2, <1>11, MovedKeepsPlaces
<1>13. AcceptedJobsHaveAPlace'
  BY <1>1, <1>2, <1>6, <1>12 DEF AcceptedJobsHaveAPlace, Accepted, TypeOK
<1> QED
  BY <1>1, <1>3, <1>9, <1>10, <1>12, <1>13
-----------------------------------------------------------------------------
(* The worker. *)

(* What a worker has in hand is at that place and no other. *)
LEMMA InHand ==
    ASSUME PlaceInv, NEW w \in Workers, stage[w] # "idle"
    PROVE  /\ work[w] \in Submissions
           /\ \A s \in Submissions : At(s, "worker", w) <=> s = work[w]
           /\ \A k, i : At(work[w], k, i) => k = "worker" /\ i = w
           /\ Somewhere(work[w])
<1> USE PipelineAssumption DEF PlaceInv
<1>1. work[w] \in Submissions
  BY DEF HandsMatchSteps, TypeOK
<1>2. \A s \in Submissions : At(s, "worker", w) <=> s = work[w]
  BY DEF At
<1> QED
  BY <1>1, <1>2 DEF OnePlace, Somewhere

LEMMA PopJobPlaces ==
    ASSUME PlaceInv, NEW w \in Workers, PopJob(w)
    PROVE  PlaceInv'
<1> USE PipelineAssumption DEF PlaceInv
<1> DEFINE m == Head(jobs)
<1>1. /\ stage[w] = "idle" /\ jobs # <<>> /\ jobs' = Tail(jobs)
      /\ work' = [work EXCEPT ![w] = m] /\ stage' = [stage EXCEPT ![w] = "job"]
      /\ UNCHANGED <<req, attempts, held, answer, results, cache, tracked, lost>>
  BY DEF PopJob
<1>2. /\ m \in Submissions /\ m = jobs[1] /\ Len(jobs) \in Nat /\ Len(jobs) > 0
      /\ jobs' \in Seq(Submissions) /\ Len(jobs') = Len(jobs) - 1
      /\ \A i \in 1 .. Len(jobs') : jobs'[i] = jobs[i + 1]
  BY <1>1 DEF TypeOK
<1>3. At(m, "jobs", 1)
  BY <1>2 DEF At
<1>4. \A k, i : At(m, k, i) => k = "jobs" /\ i = 1
  BY <1>2, <1>3 DEF OnePlace
<1>5. \A i : i \in 1 .. Len(jobs') <=> i \in Nat /\ i # 0 /\ i + 1 \in 1 .. Len(jobs)
  BY <1>2
<1>6. work[w] = None /\ m # None
  BY <1>1, <1>2 DEF HandsMatchSteps
<1> HIDE DEF m
<1>7. TypeOK'
  BY <1>1, <1>2 DEF TypeOK
<1>8. HandsMatchSteps'
  BY <1>1, <1>6 DEF HandsMatchSteps, TypeOK
<1>9. Taken(m, "jobs", "worker", w)
  <2>1. ASSUME NEW s \in Submissions, NEW i
        PROVE  At(s, "jobs", i)' <=> i \in Nat /\ i # 0 /\ At(s, "jobs", i + 1)
    BY <1>2, <1>5 DEF At
  <2>2. ASSUME NEW s \in Submissions, NEW k, NEW i, k # "jobs"
        PROVE  At(s, k, i)' <=> At(s, k, i) \/ (s = m /\ k = "worker" /\ i = w)
    BY <1>1, <1>6, <2>2 DEF At, TypeOK
  <2>3. ASSUME NEW s \in Submissions, s # m, NEW i, i \in Nat, At(s, "jobs", i + 1)
        PROVE  i # 0
    BY <1>2, <2>3 DEF At
  <2>4. ASSUME NEW i, i \in Nat, i # 0 PROVE ~At(m, "jobs", i + 1)
    BY <1>4, <2>4
  <2> QED
    BY <1>4, <2>1, <2>2, <2>3, <2>4 DEF Taken
<1>10. /\ OnePlace'
       /\ \A s \in Submissions : Somewhere(s)' <=> s = m \/ Somewhere(s)
  BY <1>2, <1>3, <1>9, TakenKeepsPlaces
<1>11. AcceptedJobsHaveAPlace'
  <2>1. Somewhere(m)
    BY <1>3 DEF Somewhere
  <2> QED
    BY <1>1, <1>2, <1>10, <2>1 DEF AcceptedJobsHaveAPlace, Accepted
<1> QED
  BY <1>1, <1>7, <1>8, <1>10, <1>11

LEMMA HandleJobPlaces ==
    ASSUME PlaceInv, NEW w \in Workers, HandleJob(w)
    PROVE  PlaceInv'
<1> USE PipelineAssumption DEF PlaceInv
<1>1. /\ stage[w] = "job" /\ stage' = [stage EXCEPT ![w] = "result"]
      /\ UNCHANGED <<req, attempts, held, answer, jobs, results, cache, work, lost>>
      /\ tracked' \in {tracked, tracked \ {work[w]}}
  BY DEF HandleJob, FreeJob
<1>2. /\ tracked' \subseteq Submissions /\ Cardinality(tracked') <= RegistrySize
      /\ IsFiniteSet(tracked')
  <2>1. PICK s : tracked' \in {tracked, tracked \ {s}}
    BY <1>1
  <2>2. TypeOK /\ IsFiniteSet(tracked)
    OBVIOUS
  <2> HIDE DEF PlaceInv
  <2> QED
    BY <2>1, <2>2, EntriesGoOneByOne
<1>3. TypeOK'
  BY <1>1, <1>2 DEF TypeOK
<1>4. HandsMatchSteps'
  BY <1>1 DEF HandsMatchSteps, TypeOK
<1>5. Still
  BY <1>1 DEF Still, At
<1>6. AcceptedJobsHaveAPlace'
  BY <1>1, <1>5, StillKeepsPlaces DEF AcceptedJobsHaveAPlace, Accepted
<1> QED
  BY <1>1, <1>2, <1>3, <1>4, <1>5, <1>6, StillKeepsPlaces

LEMMA HandleFailsPlaces ==
    ASSUME PlaceInv, NEW w \in Workers, HandleFails(w)
    PROVE  PlaceInv'
<1> USE PipelineAssumption DEF PlaceInv
<1> DEFINE m == work[w]
<1>1. /\ stage[w] = "job" /\ stage' = [stage EXCEPT ![w] = "idle"]
      /\ work' = [work EXCEPT ![w] = None] /\ lost' = lost \cup {m}
      /\ UNCHANGED <<req, attempts, held, answer, jobs, results, cache>>
      /\ tracked' \in {tracked, tracked \ {m}}
  BY DEF HandleFails, FreeJob
<1>2. /\ tracked' \subseteq Submissions /\ Cardinality(tracked') <= RegistrySize
      /\ IsFiniteSet(tracked')
  <2> HIDE DEF m
  <2> QED
    BY <1>1, EntriesGoOneByOne
<1>3. /\ m \in Submissions /\ Somewhere(m)
      /\ \A s \in Submissions : At(s, "worker", w) <=> s = m
      /\ \A k, i : At(m, k, i) => k = "worker" /\ i = w
  BY <1>1, InHand
<1>4. work'[w] = None /\ \A u \in Workers \ {w} : work'[u] = work[u]
  BY <1>1 DEF TypeOK
<1> HIDE DEF m
<1>5. TypeOK'
  BY <1>1, <1>2, <1>3 DEF TypeOK
<1>6. HandsMatchSteps'
  BY <1>1 DEF HandsMatchSteps, TypeOK
<1>7. Moved(m, "lost", m)
  <2>1. ASSUME NEW s \in Submissions, NEW k, NEW i
        PROVE  At(s, k, i)' <=> IF k = "worker" /\ i = w THEN FALSE
                                ELSE At(s, k, i) \/ (s = m /\ k = "lost" /\ i = m)
    BY <1>1, <1>3, <1>4 DEF At
  <2> QED
    BY <1>3, <2>1 DEF Moved
<1>8. AcceptedJobsHaveAPlace'
  BY <1>1, <1>3, <1>7, MovedKeepsPlaces DEF AcceptedJobsHaveAPlace, Accepted
<1> QED
  BY <1>1, <1>2, <1>3, <1>5, <1>6, <1>7, <1>8, MovedKeepsPlaces

LEMMA PushResultPlaces ==
    ASSUME PlaceInv, NEW w \in Workers, PushResult(w)
    PROVE  PlaceInv'
<1> USE PipelineAssumption DEF PlaceInv
<1> DEFINE m == work[w]
<1>1. /\ stage[w] = "result" /\ stage' = [stage EXCEPT ![w] = "idle"]
      /\ Len(results) < QueueSize /\ results' = Append(results, m)
      /\ work' = [work EXCEPT ![w] = None]
      /\ UNCHANGED <<req, attempts, held, answer, jobs, cache, tracked, lost>>
  BY DEF PushResult
<1>2. /\ m \in Submissions /\ Somewhere(m)
      /\ \A s \in Submissions : At(s, "worker", w) <=> s = m
      /\ \A k, i : At(m, k, i) => k = "worker" /\ i = w
  BY <1>1, InHand
<1>3. work'[w] = None /\ \A u \in Workers \ {w} : work'[u] = work[u]
  BY <1>1 DEF TypeOK
<1> HIDE DEF m
<1>4. /\ results' \in Seq(Submissions) /\ Len(results') = Len(results) + 1
      /\ Len(results) \in Nat /\ results'[Len(results) + 1] = m
      /\ \A i \in 1 .. Len(results) : results'[i] = results[i]
  BY <1>1, <1>2 DEF TypeOK
<1>5. TypeOK'
  BY <1>1, <1>4 DEF TypeOK
<1>6. HandsMatchSteps'
  BY <1>1 DEF HandsMatchSteps, TypeOK
<1>7. Moved(m, "results", Len(results) + 1)
  <2>1. \A i : i \in 1 .. Len(results') <=> i \in 1 .. Len(results) \/ i = Len(results) + 1
    BY <1>4
  <2>2. ASSUME NEW s \in Submissions, NEW k, NEW i
        PROVE  At(s, k, i)' <=>
                   IF k = "worker" /\ i = w THEN FALSE
                   ELSE At(s, k, i) \/ (s = m /\ k = "results" /\ i = Len(results) + 1)
    BY <1>1, <1>2, <1>3, <1>4, <2>1 DEF At
  <2> QED
    BY <1>2, <2>2 DEF Moved
<1>8. AcceptedJobsHaveAPlace'
  BY <1>1, <1>2, <1>7, MovedKeepsPlaces DEF AcceptedJobsHaveAPlace, Accepted
<1> QED
  BY <1>1, <1>2, <1>5, <1>6, <1>7, <1>8, MovedKeepsPlaces
-----------------------------------------------------------------------------
LEMMA PlaceInvariant == Spec => []PlaceInv
<1> USE PipelineAssumption
<1>1. Init => PlaceInv
  <2> SUFFICES ASSUME Init PROVE PlaceInv
    OBVIOUS
  <2>1. IsFiniteSet({}) /\ Cardinality({}) = 0
    BY FS_EmptySet
  <2>2. TypeOK
    BY <2>1 DEF Init, TypeOK
  <2>3. HandsMatchSteps
    BY DEF Init, HandsMatchSteps
  <2>4. \A s \in Submissions : \A k, i : ~At(s, k, i)
    BY DEF Init, At
  <2> QED
    BY <2>1, <2>2, <2>3, <2>4
       DEF Init, PlaceInv, OnePlace, AcceptedJobsHaveAPlace, Somewhere, Accepted
<1>2. PlaceInv /\ [Next]_vars => PlaceInv'
  <2> SUFFICES ASSUME PlaceInv, [Next]_vars PROVE PlaceInv'
    OBVIOUS
  <2>1. ASSUME NEW s \in Submissions, Submit(s) \/ RequestStep(s) PROVE PlaceInv'
    BY <2>1, SubmitPlaces, PushJobPlaces, RequestWaitsPlaces, CacheHitPlaces,
       PopOwnPlaces, PopForeignPlaces, StorePlaces DEF RequestStep
  <2>2. ASSUME NEW w \in Workers, WorkerStep(w) PROVE PlaceInv'
    BY <2>2, PopJobPlaces, HandleJobPlaces, HandleFailsPlaces, PushResultPlaces
       DEF WorkerStep
  <2>3. CASE UNCHANGED vars
    BY <2>3 DEF vars, PlaceInv, TypeOK, HandsMatchSteps, OnePlace,
       AcceptedJobsHaveAPlace, Somewhere, Accepted, At
  <2> QED
    BY <2>1, <2>2, <2>3 DEF Next
<1> QED
  BY <1>1, <1>2, PTL DEF Spec

(* The places counted by Places are those of At. *)
LEMMA PlacesAreAt ==
    ASSUME NEW s \in Submissions
    PROVE  /\ \A p \in Places(s) : \E k, i : p = <<k, i>> /\ At(s, k, i)
           /\ \A k, i : At(s, k, i) => <<k, i>> \in Places(s)
BY DEF Places, At

(* Every job accepted by the queue is at one place, until it is answered   *)
(* or lost for want of memory or of a free slot of the cache; a job that   *)
(* was refused is at none.                                                 *)
THEOREM EachJobOnce == Spec => []JobsAreConserved
<1>1. PlaceInv => JobsAreConserved
  <2> SUFFICES ASSUME PlaceInv, NEW s \in Submissions
               PROVE  Cardinality(Places(s)) = IF Accepted(s) THEN 1 ELSE 0
    BY DEF JobsAreConserved, PlaceInv, Accepted
  <2>1. CASE Accepted(s)
    <3>1. PICK k, i : At(s, k, i)
      BY <2>1 DEF PlaceInv, AcceptedJobsHaveAPlace, Somewhere
    <3>2. Places(s) = {<<k, i>>}
      BY <3>1, PlacesAreAt DEF PlaceInv, OnePlace
    <3> QED
      BY <2>1, <3>2, FS_Singleton
  <2>2. CASE ~Accepted(s)
    <3>1. Places(s) = {}
      BY <2>2, PlacesAreAt DEF PlaceInv, AcceptedJobsHaveAPlace, Somewhere
    <3> QED
      BY <2>2, <3>1, FS_EmptySet
  <2> QED
    BY <2>1, <2>2
<1> QED
  BY <1>1, PlaceInvariant, PTL
-----------------------------------------------------------------------------
(* The entries of the registry, the ids of the jobs being distinct. *)

IdsAreDistinct == \A r, s \in Submissions : IdOf[r] = IdOf[s] => r = s

(* Every answer is the request's own. *)
OwnAnswers == \A s \in Submissions : answer[s] \in {None, s}

LEMMA OwnAnswersStep ==
    ASSUME IdsAreDistinct, PlaceInv, OwnAnswers, EntriesLeakOnlyWhenBusy,
           NEW t \in Submissions, NEW from, NEW r \in Submissions,
           IdOf[r] = IdOf[t], Answer(t, from, r),
           from \in {"check", "wait"}, NEW k \in {"cache", "results"}, NEW i,
           At(r, k, i)
    PROVE  /\ OwnAnswers'
           /\ EntriesLeakOnlyWhenBusy'
<1>1. r = t
  BY DEF IdsAreDistinct
<1>2. ~JobAlive(t)
  <2>1. \A l, j : At(t, l, j) => l = k
    BY <1>1 DEF PlaceInv, OnePlace
  <2> QED
    BY <2>1 DEF JobAlive, At
<1>3. /\ req[t] = from /\ req' = [req EXCEPT ![t] = "answered"]
      /\ answer' = [answer EXCEPT ![t] = t]
      /\ tracked' = tracked \ {t}
  BY <1>1, <1>2 DEF Answer, Goto
<1> QED
  BY <1>3 DEF OwnAnswers, EntriesLeakOnlyWhenBusy, InFlight, PlaceInv, TypeOK

LEMMA FreeJobStep ==
    ASSUME IdsAreDistinct, PlaceInv, OwnAnswers, NEW w \in Workers, stage[w] = "job",
           FreeJob(work[w])
    PROVE  tracked' = tracked
<1> DEFINE m == work[w]
<1>1. /\ m \in Submissions
      /\ \A k, i : At(m, k, i) => k = "worker"
  BY InHand
<1>2. answer[m] # m
  BY <1>1 DEF At
<1>3. req[m] # "answered"
  BY <1>1, <1>2 DEF OwnAnswers, PlaceInv, HandsMatchSteps
<1> QED
  BY <1>3 DEF FreeJob

(* Without clients that repeat an id, the registry tracks the requests in  *)
(* flight and those the job queue turned away, for ever; these fill it.    *)
THEOREM BusyRequestsLeak ==
    ASSUME IdsAreDistinct
    PROVE  Spec => []EntriesLeakOnlyWhenBusy
<1> USE PipelineAssumption
<1> DEFINE Inv == OwnAnswers /\ EntriesLeakOnlyWhenBusy
<1>1. Init => Inv
  BY DEF Init, OwnAnswers, EntriesLeakOnlyWhenBusy, InFlight
<1>2. PlaceInv /\ Inv /\ [Next]_vars => Inv'
  <2> SUFFICES ASSUME PlaceInv, OwnAnswers, EntriesLeakOnlyWhenBusy, [Next]_vars
               PROVE  OwnAnswers' /\ EntriesLeakOnlyWhenBusy'
    OBVIOUS
  <2> USE DEF OwnAnswers, EntriesLeakOnlyWhenBusy, InFlight
  <2>1. req \in [Submissions -> {"new", "untracked", "push", "busy", "check",
                                 "wait", "store", "answered"}]
    BY DEF PlaceInv, TypeOK
  <2>2. ASSUME NEW s \in Submissions, Submit(s)
        PROVE  OwnAnswers' /\ EntriesLeakOnlyWhenBusy'
    BY <2>1, <2>2 DEF Submit, Goto
  <2>3. ASSUME NEW s \in Submissions,
               \/ PushJob(s) \/ PushRefused(s) \/ GiveUp(s) \/ CacheMiss(s)
               \/ PopForeign(s) \/ Store(s)
        PROVE  OwnAnswers' /\ EntriesLeakOnlyWhenBusy'
    BY <2>1, <2>3 DEF PushJob, PushRefused, GiveUp, CacheMiss, PopForeign, Store, Goto
  <2>4. ASSUME NEW s \in Submissions, CacheHit(s)
        PROVE  OwnAnswers' /\ EntriesLeakOnlyWhenBusy'
    <3>1. PICK r \in cache : IdOf[r] = IdOf[s] /\ Answer(s, "check", r)
      BY <2>4 DEF CacheHit
    <3>2. r \in Submissions /\ At(r, "cache", r)
      BY <3>1 DEF PlaceInv, TypeOK, At
    <3> HIDE DEF OwnAnswers, EntriesLeakOnlyWhenBusy
    <3> QED
      BY <3>1, <3>2, OwnAnswersStep
  <2>5. ASSUME NEW s \in Submissions, PopOwn(s)
        PROVE  OwnAnswers' /\ EntriesLeakOnlyWhenBusy'
    <3> DEFINE r == Head(results)
    <3>1. IdOf[r] = IdOf[s] /\ Answer(s, "wait", r) /\ results # <<>>
      BY <2>5 DEF PopOwn
    <3>2. r \in Submissions /\ At(r, "results", 1)
      BY <3>1 DEF PlaceInv, TypeOK, At
    <3> HIDE DEF OwnAnswers, EntriesLeakOnlyWhenBusy, r
    <3> QED
      BY <3>1, <3>2, OwnAnswersStep
  <2>6. ASSUME NEW w \in Workers, PopJob(w) \/ PushResult(w)
        PROVE  OwnAnswers' /\ EntriesLeakOnlyWhenBusy'
    BY <2>6 DEF PopJob, PushResult
  <2>7. ASSUME NEW w \in Workers, HandleJob(w) \/ HandleFails(w)
        PROVE  OwnAnswers' /\ EntriesLeakOnlyWhenBusy'
    <3>1. /\ stage[w] = "job" /\ FreeJob(work[w])
          /\ UNCHANGED <<req, answer>>
      BY <2>7 DEF HandleJob, HandleFails
    <3>2. tracked' = tracked
      BY <3>1, FreeJobStep
    <3> QED
      BY <3>1, <3>2
  <2>8. CASE UNCHANGED vars
    BY <2>8 DEF vars
  <2> QED
    BY <2>2, <2>3, <2>4, <2>5, <2>6, <2>7, <2>8 DEF Next, RequestStep, WorkerStep
<1> QED
  BY <1>1, <1>2, PlaceInvariant, PTL DEF Spec
-----------------------------------------------------------------------------
(* Shutdown: the workers are gone before anything is freed, and only the   *)
(* connections that were open when accept failed can meet freed memory.    *)

RequestStates == {"new", "untracked", "push", "busy", "check", "wait", "store", "answered"}

(* What the proofs need of the pipeline under the server. *)
HandsOK ==
    /\ req \in [Submissions -> RequestStates]
    /\ jobs \in Seq(Submissions)
    /\ work \in [Workers -> Submissions \cup {None}]
    /\ stage \in [Workers -> {"idle", "job", "result"}]
    /\ \A w \in Workers : stage[w] = "idle" => work[w] = None
    /\ \A w \in Workers : thread[w] # "idle" => stage[w] = "idle"

(* How far starting, unwinding or joining has come is what the threads     *)
(* say: those from at, or from the one that could not be had, on do not    *)
(* exist, and those before at are gone once they have been joined.         *)
ThreadsMatchMain ==
    /\ main = "starting" => \A w \in Workers : thread[w] = "none" <=> w >= at
    /\ main = "unwinding" =>
         \E k \in Workers : /\ at <= k
                            /\ \A w \in Workers : thread[w] = "none" <=> w >= k
                            /\ \A w \in Workers : w < at => thread[w] = "gone"
    /\ main = "joining" => \A w \in Workers : w < at => thread[w] = "gone"
    /\ main \in {"freeing", "freed", "returned"} =>
         \A w \in Workers : thread[w] \in {"none", "gone"}
    /\ main \notin {"freeing", "freed", "returned"} => freed = {}

(* Who may still be served when. *)
ConnectionsMatchMain ==
    /\ main \in {"starting", "unwinding"} => accepted = {}
    /\ main # "inline" => \A s \in inline : req[s] \in Ended
    /\ main \in {"stopping", "joining", "freeing", "freed", "returned"} => Open \subseteq openAtStop
    /\ freed = {} => dangling = {}

StopInv == ControlTypeOK /\ HandsOK /\ ThreadsMatchMain /\ ConnectionsMatchMain /\ OnlyOpenDangle
-----------------------------------------------------------------------------
(* The workers are numbered from 1. *)
LEMMA WorkersNumbered ==
    /\ WorkerCount \in Nat
    /\ Workers = 1 .. WorkerCount
<1>1. WorkerCount \in Nat
  BY ShutdownAssumption, FS_CardinalityType DEF WorkerCount
<1> QED
  BY <1>1, ShutdownAssumption DEF WorkerCount

(* Nothing has happened yet. *)
LEMMA StartsRight == StartInit => StopInv
<1> SUFFICES ASSUME StartInit PROVE StopInv
  OBVIOUS
<1> USE WorkersNumbered DEF StartInit, Init
<1>1. ControlTypeOK
  BY DEF ControlTypeOK
<1>2. HandsOK
  BY DEF HandsOK, RequestStates
<1>3. ThreadsMatchMain
  BY DEF ThreadsMatchMain
<1>4. ConnectionsMatchMain /\ OnlyOpenDangle
  BY DEF ConnectionsMatchMain, OnlyOpenDangle
<1> QED
  BY <1>1, <1>2, <1>3, <1>4 DEF StopInv
-----------------------------------------------------------------------------
(* A step of main that leaves the pipeline, the connections and what is    *)
(* freed alone keeps what does not depend on where main is.                *)
LEMMA MainOnly ==
    ASSUME StopInv, UNCHANGED <<vars, accepted, inline, openAtStop, dangling>>, ControlTypeOK',
           \A w \in Workers : thread'[w] # "idle" => thread[w] # "idle"
    PROVE  HandsOK' /\ OnlyOpenDangle' /\ Open' = Open
BY DEF StopInv, HandsOK, OnlyOpenDangle, Open, vars

(* main starts its workers, or fails to and takes those it has back. *)
LEMMA StartingSteps ==
    ASSUME StopInv, StartWorker \/ StartFails \/ UnwindOne \/ UnwindJoin \/ Unwound
    PROVE  StopInv'
<1> USE WorkersNumbered DEF StopInv, Proceed
<1>1. ControlTypeOK'
  <2>1. CASE StartWorker BY <2>1 DEF StartWorker, ControlTypeOK
  <2>2. CASE StartFails BY <2>2 DEF StartFails, ControlTypeOK
  <2>3. CASE UnwindOne BY <2>3 DEF UnwindOne, ControlTypeOK
  <2>4. CASE UnwindJoin BY <2>4 DEF UnwindJoin, ControlTypeOK
  <2>5. CASE Unwound BY <2>5 DEF Unwound, ControlTypeOK
  <2> QED BY <2>1, <2>2, <2>3, <2>4, <2>5
<1>2. HandsOK' /\ OnlyOpenDangle' /\ Open' = Open
  <2>1. \A w \in Workers : thread'[w] # "idle" => thread[w] # "idle"
    BY DEF StartWorker, StartFails, UnwindOne, UnwindJoin, Unwound, ControlTypeOK
  <2>2. UNCHANGED <<vars, accepted, inline, openAtStop, dangling>>
    BY DEF StartWorker, StartFails, UnwindOne, UnwindJoin, Unwound
  <2> QED BY <1>1, <2>1, <2>2, MainOnly
<1>3. ThreadsMatchMain'
  <2>1. CASE StartWorker BY <2>1 DEF StartWorker, ThreadsMatchMain, ControlTypeOK
  <2>2. CASE StartFails
    <3>1. /\ main' = "unwinding" /\ at' = 1 /\ at \in Workers
          /\ UNCHANGED <<thread, freed>> /\ freed = {}
          /\ \A w \in Workers : thread[w] = "none" <=> w >= at
      BY <2>2 DEF StartFails, ThreadsMatchMain, ControlTypeOK
    <3>2. \E k \in Workers : /\ at' <= k
                             /\ \A w \in Workers : thread'[w] = "none" <=> w >= k
                             /\ \A w \in Workers : w < at' => thread'[w] = "gone"
      <4> USE <3>1
      <4> WITNESS at \in Workers
      <4> QED OBVIOUS
    <3> QED BY <3>1, <3>2 DEF ThreadsMatchMain
  <2>3. CASE UnwindOne BY <2>3 DEF UnwindOne, ThreadsMatchMain, ControlTypeOK
  <2>4. CASE UnwindJoin
    <3>1. /\ main = "unwinding" /\ main' = "unwinding" /\ at' = at + 1 /\ at \in Workers
          /\ UNCHANGED <<thread, freed>> /\ freed = {} /\ thread[at] = "gone"
      BY <2>4 DEF UnwindJoin, ThreadsMatchMain, ControlTypeOK
    <3>2. ASSUME NEW k \in Workers, at <= k,
                 \A w \in Workers : thread[w] = "none" <=> w >= k,
                 \A w \in Workers : w < at => thread[w] = "gone"
          PROVE  ThreadsMatchMain'
      <4>1. at \in Int /\ k \in Int /\ \A w \in Workers : w \in Int
        BY <3>1
      <4>2. ~(at >= k)
        BY <3>1, <3>2
      <4>3. \A w \in Workers : w < at + 1 => w < at \/ w = at
        BY <4>1
      <4>4. at + 1 <= k /\ \A w \in Workers : w < at + 1 => thread[w] = "gone"
        BY <3>1, <3>2, <4>1, <4>2, <4>3
      <4>5. \E j \in Workers : /\ at' <= j
                               /\ \A w \in Workers : thread'[w] = "none" <=> w >= j
                               /\ \A w \in Workers : w < at' => thread'[w] = "gone"
        <5> WITNESS k \in Workers
        <5> QED BY <3>1, <3>2, <4>4
      <4> QED BY <3>1, <4>5 DEF ThreadsMatchMain
    <3> QED BY <3>1, <3>2 DEF ThreadsMatchMain
  <2>5. CASE Unwound BY <2>5 DEF Unwound, ThreadsMatchMain, ControlTypeOK
  <2> QED BY <2>1, <2>2, <2>3, <2>4, <2>5
<1>4. ConnectionsMatchMain'
  <2>1. accepted = {} /\ accepted' = {} /\ Open' = {}
    BY DEF StartWorker, StartFails, UnwindOne, UnwindJoin, Unwound, ConnectionsMatchMain, Open
  <2>2. UNCHANGED <<inline, req, freed, dangling>> /\ main # "inline"
    BY DEF StartWorker, StartFails, UnwindOne, UnwindJoin, Unwound, vars
  <2> QED BY <2>1, <2>2 DEF ConnectionsMatchMain, Ended
<1> QED BY <1>1, <1>2, <1>3, <1>4

(* main listens, accepts and stops accepting. *)
LEMMA ListeningSteps ==
    ASSUME StopInv,
           \/ Listen \/ ListenFails \/ InlineDone \/ AcceptFails
           \/ \E s \in Submissions : Accept(s) \/ AcceptInline(s)
    PROVE  StopInv'
<1> USE WorkersNumbered DEF StopInv, Proceed
<1>1. ControlTypeOK'
  <2> USE DEF ControlTypeOK
  <2>1. CASE Listen BY <2>1 DEF Listen
  <2>2. CASE ListenFails BY <2>2 DEF ListenFails
  <2>3. CASE InlineDone BY <2>3 DEF InlineDone
  <2>4. CASE AcceptFails BY <2>4 DEF AcceptFails, Open
  <2>5. ASSUME NEW s \in Submissions, Accept(s) PROVE ControlTypeOK'
    BY <2>5 DEF Accept
  <2>6. ASSUME NEW s \in Submissions, AcceptInline(s) PROVE ControlTypeOK'
    BY <2>6 DEF AcceptInline
  <2> QED BY <2>1, <2>2, <2>3, <2>4, <2>5, <2>6
<1>2. HandsOK'
  BY DEF Listen, ListenFails, InlineDone, AcceptFails, Accept, AcceptInline, HandsOK, vars
<1>3. ThreadsMatchMain'
  BY DEF Listen, ListenFails, InlineDone, AcceptFails, Accept, AcceptInline, ThreadsMatchMain
<1>4. freed = {} /\ freed' = {} /\ dangling = {} /\ dangling' = {}
  BY DEF Listen, ListenFails, InlineDone, AcceptFails, Accept, AcceptInline, ThreadsMatchMain,
         ConnectionsMatchMain
<1>5. ConnectionsMatchMain'
  BY <1>4 DEF Listen, ListenFails, InlineDone, AcceptFails, Accept, AcceptInline,
         ConnectionsMatchMain, Open, Ended, vars
<1> QED BY <1>1, <1>2, <1>3, <1>4, <1>5 DEF OnlyOpenDangle

(* main stops and joins the workers, frees what they used, and returns. *)
LEMMA StoppingSteps ==
    ASSUME StopInv, StopWorker \/ Join \/ Joined \/ Free \/ Return
    PROVE  StopInv'
<1> USE WorkersNumbered DEF StopInv, Proceed
<1>1. ControlTypeOK'
  <2> USE DEF ControlTypeOK
  <2>1. CASE StopWorker BY <2>1 DEF StopWorker
  <2>2. CASE Join BY <2>2 DEF Join
  <2>3. CASE Joined BY <2>3 DEF Joined
  <2>4. CASE Free BY <2>4 DEF Free
  <2>5. CASE Return BY <2>5 DEF Return
  <2> QED BY <2>1, <2>2, <2>3, <2>4, <2>5
<1>2. UNCHANGED <<vars, thread, accepted, inline, openAtStop, dangling>>
  BY DEF StopWorker, Join, Joined, Free, Return
<1>3. HandsOK' /\ OnlyOpenDangle' /\ Open' = Open
  BY <1>1, <1>2, MainOnly
<1>4. ThreadsMatchMain'
  <2> USE <1>2 DEF ThreadsMatchMain, ControlTypeOK
  <2>1. CASE StopWorker BY <2>1 DEF StopWorker
  <2>2. CASE Join BY <2>2 DEF Join
  <2>3. CASE Joined BY <2>3 DEF Joined
  <2>4. CASE Free BY <2>4 DEF Free
  <2>5. CASE Return BY <2>5 DEF Return
  <2> QED BY <2>1, <2>2, <2>3, <2>4, <2>5
<1>5. ConnectionsMatchMain'
  <2>1. /\ main \in {"stopping", "joining", "freeing", "freed"}
        /\ main' \in {"stopping", "joining", "freeing", "freed", "returned"}
    BY DEF StopWorker, Join, Joined, Free, Return
  <2>2. freed' = {} => freed = {}
    BY DEF StopWorker, Join, Joined, Free, Return
  <2> QED BY <1>2, <1>3, <2>1, <2>2 DEF ConnectionsMatchMain, vars
<1> QED BY <1>1, <1>3, <1>4, <1>5
-----------------------------------------------------------------------------
(* A worker looks at its flag only with nothing in its hands. *)
LEMMA WorkerSteps ==
    ASSUME StopInv, NEW w \in Workers, WorkerThread(w)
    PROVE  StopInv'
<1> USE DEF StopInv
<1>1. CASE Look(w)
  <2>1. ControlTypeOK' /\ OnlyOpenDangle'
    BY <1>1 DEF Look, ControlTypeOK, OnlyOpenDangle
  <2>2. HandsOK'
    BY <1>1 DEF Look, HandsOK, vars, ControlTypeOK
  <2>3. ThreadsMatchMain'
    BY <1>1 DEF Look, ThreadsMatchMain, ControlTypeOK
  <2>4. ConnectionsMatchMain'
    BY <1>1 DEF Look, ConnectionsMatchMain, Open, vars
  <2> QED BY <2>1, <2>2, <2>3, <2>4
<1>2. CASE Pop(w)
  <2>1. ControlTypeOK' /\ OnlyOpenDangle'
    BY <1>2 DEF Pop, ControlTypeOK, OnlyOpenDangle
  <2>2. HandsOK'
    <3>1. thread[w] = "looked" /\ thread' = [thread EXCEPT ![w] = "idle"]
      BY <1>2 DEF Pop
    <3>2. CASE PopJob(w)
      <4>1. Head(jobs) \in Submissions /\ Tail(jobs) \in Seq(Submissions)
        BY <3>2 DEF PopJob, HandsOK
      <4> QED BY <3>1, <3>2, <4>1 DEF PopJob, HandsOK, ControlTypeOK
    <3>3. CASE UNCHANGED vars
      BY <3>1, <3>3 DEF HandsOK, vars, ControlTypeOK
    <3> QED BY <1>2, <3>2, <3>3 DEF Pop
  <2>3. ThreadsMatchMain'
    BY <1>2 DEF Pop, ThreadsMatchMain, ControlTypeOK
  <2>4. ConnectionsMatchMain'
    BY <1>2 DEF Pop, PopJob, ConnectionsMatchMain, Open, vars
  <2> QED BY <2>1, <2>2, <2>3, <2>4
<1>3. CASE HandleAndPush(w)
  <2>1. UNCHANGED <<control, dangling, req, jobs>>
    BY <1>3 DEF HandleAndPush, HandleJob, HandleFails, PushResult
  <2>2. HandsOK'
    BY <1>3, <2>1 DEF HandleAndPush, HandleJob, HandleFails, PushResult, HandsOK, control
  <2> QED
    BY <2>1, <2>2 DEF control, ControlTypeOK, OnlyOpenDangle, ThreadsMatchMain,
                      ConnectionsMatchMain, Open
<1> QED BY <1>1, <1>2, <1>3 DEF WorkerThread

(* A request that is over stays so, and one that is not moves on by itself *)
(* only.                                                                   *)
LEMMA RequestSteps ==
    ASSUME StopInv, NEW s \in Submissions, RequestThread(s)
    PROVE  StopInv'
<1> USE DEF StopInv
<1>1. s \in Open
  BY DEF RequestThread
<1>2. CASE Dangle(s)
  <2>1. freed # {}
    BY <1>2 DEF Dangle, UsesFreed
  <2>2. s \in openAtStop /\ s \notin inline
    BY <1>1, <2>1 DEF ThreadsMatchMain, ConnectionsMatchMain, Open
  <2>3. UNCHANGED <<vars, control>> /\ dangling' = dangling \cup {s} /\ s \in accepted
    BY <1>1, <1>2 DEF Dangle, Open
  <2> QED
    BY <2>1, <2>2, <2>3 DEF vars, control, ControlTypeOK, HandsOK, ThreadsMatchMain,
                            ConnectionsMatchMain, OnlyOpenDangle, Open
<1>3. CASE Serve(s)
  <2> USE <1>3 DEF Serve, RequestStep, Submit, PushJob, PushRefused, GiveUp, CacheHit, CacheMiss,
                   PopOwn, PopForeign, Store, Answer, Goto
  <2>1. UNCHANGED <<control, dangling, work, stage>>
    OBVIOUS
  <2>2. req' \in [Submissions -> RequestStates] /\ \A t \in Submissions : req[t] \in Ended => req'[t] = req[t]
    BY DEF HandsOK, RequestStates, Ended
  <2>3. jobs' \in Seq(Submissions)
    BY DEF HandsOK
  <2>4. HandsOK'
    BY <2>1, <2>2, <2>3 DEF HandsOK, control
  <2>5. Open' \subseteq Open
    BY <2>1, <2>2 DEF control, Open, ControlTypeOK
  <2>6. ConnectionsMatchMain'
    BY <2>1, <2>2, <2>5 DEF control, ConnectionsMatchMain, ControlTypeOK
  <2> QED
    BY <2>1, <2>4, <2>6 DEF control, ControlTypeOK, ThreadsMatchMain, OnlyOpenDangle
<1> QED BY <1>2, <1>3 DEF RequestThread
-----------------------------------------------------------------------------
(* The invariant holds however the threads are interleaved. *)
THEOREM StopInvariant == StartSpec => []StopInv
<1>1. StartInit => StopInv
  BY StartsRight
<1>2. StopInv /\ [StartNext]_allVars => StopInv'
  <2> SUFFICES ASSUME StopInv, [StartNext]_allVars PROVE StopInv'
    OBVIOUS
  <2>1. CASE MainStep
    BY <2>1, StartingSteps, ListeningSteps, StoppingSteps DEF MainStep
  <2>2. CASE AcceptFails
    BY <2>2, ListeningSteps
  <2>3. CASE \E s \in Submissions : Accept(s) \/ AcceptInline(s) \/ RequestThread(s)
    BY <2>3, ListeningSteps, RequestSteps
  <2>4. CASE \E w \in Workers : WorkerThread(w)
    BY <2>4, WorkerSteps
  <2>5. CASE UNCHANGED allVars
    BY <2>5 DEF allVars, vars, control, StopInv, ControlTypeOK, HandsOK, ThreadsMatchMain,
                ConnectionsMatchMain, OnlyOpenDangle, Open
  <2> QED BY <2>1, <2>2, <2>3, <2>4, <2>5 DEF StartNext
<1> QED BY <1>1, <1>2, PTL DEF StartSpec

(* Nothing a worker uses is freed while the worker runs, and a worker that *)
(* is gone has left no job or result in its hands: fp_workers_destroy, and *)
(* the unwinding of fp_workers_create, before fp_queue_destroy.            *)
THEOREM WorkersGoFirst == StartSpec => []WorkersOutlivedByQueues
<1>1. StopInv => WorkersOutlivedByQueues
  BY DEF StopInv, HandsOK, ThreadsMatchMain, WorkersOutlivedByQueues
<1> QED BY <1>1, StopInvariant, PTL

(* Freed memory is met only by a connection that was open when accept      *)
(* failed (server.c:3085), and never by one that main serves itself.       *)
THEOREM DanglingWereOpen == StartSpec => []OnlyOpenDangle
<1>1. StopInv => OnlyOpenDangle
  BY DEF StopInv
<1> QED BY <1>1, StopInvariant, PTL
-----------------------------------------------------------------------------
(* The pipeline goes on under the server as it does alone, and what is     *)
(* proved of it holds here.                                                *)
LEMMA ServerRunsPipeline == StartSpec => Spec
<1>1. StartInit => Init
  BY DEF StartInit
<1>2. [StartNext]_allVars => [Next]_vars
  <2> SUFFICES ASSUME [StartNext]_allVars PROVE [Next]_vars
    OBVIOUS
  <2>1. CASE MainStep \/ AcceptFails
    BY <2>1 DEF MainStep, StartWorker, StartFails, UnwindOne, UnwindJoin, Unwound, Listen,
                ListenFails, InlineDone, StopWorker, Join, Joined, Free, Return, AcceptFails
  <2>2. ASSUME NEW s \in Submissions, Accept(s) \/ AcceptInline(s) PROVE [Next]_vars
    BY <2>2 DEF Accept, AcceptInline
  <2>3. ASSUME NEW s \in Submissions, RequestThread(s) PROVE [Next]_vars
    BY <2>3 DEF RequestThread, Dangle, Serve, Next
  <2>4. ASSUME NEW w \in Workers, WorkerThread(w) PROVE [Next]_vars
    BY <2>4 DEF WorkerThread, Look, Pop, HandleAndPush, Next, WorkerStep
  <2>5. CASE UNCHANGED allVars
    BY <2>5 DEF allVars
  <2> QED
    BY <2>1, <2>2, <2>3, <2>4, <2>5 DEF StartNext
<1> QED
  BY <1>1, <1>2, PTL DEF StartSpec, Spec

(* Only a connection makes a request, and there have been finitely many.   *)
RequestsConnected ==
    /\ IsFiniteSet(accepted)
    /\ \A s \in Submissions : req[s] # "new" => s \in accepted

LEMMA RequestsAreConnected == StartSpec => []RequestsConnected
<1>1. StartInit => RequestsConnected
  BY FS_EmptySet DEF StartInit, Init, RequestsConnected
<1>2. RequestsConnected /\ StopInv /\ [StartNext]_allVars => RequestsConnected'
  <2> SUFFICES ASSUME RequestsConnected, StopInv, [StartNext]_allVars PROVE RequestsConnected'
    OBVIOUS
  <2>1. CASE MainStep \/ AcceptFails
    BY <2>1 DEF MainStep, StartWorker, StartFails, UnwindOne, UnwindJoin, Unwound, Listen,
                ListenFails, InlineDone, StopWorker, Join, Joined, Free, Return, AcceptFails,
                vars, RequestsConnected
  <2>2. ASSUME NEW s \in Submissions, Accept(s) \/ AcceptInline(s) PROVE RequestsConnected'
    BY <2>2, FS_AddElement DEF Accept, AcceptInline, vars, RequestsConnected
  <2>3. ASSUME NEW s \in Submissions, RequestThread(s) PROVE RequestsConnected'
    <3>1. s \in accepted /\ accepted' = accepted
      BY <2>3 DEF RequestThread, Open, Dangle, Serve, control
    <3>2. \A t \in Submissions \ {s} : req'[t] = req[t]
      BY <2>3 DEF RequestThread, Dangle, Serve, vars, Submit, RequestStep, PushJob,
                  PushRefused, GiveUp, CacheHit, CacheMiss, PopOwn, PopForeign, Store, Answer,
                  Goto, StopInv, HandsOK
    <3> QED
      BY <3>1, <3>2 DEF RequestsConnected
  <2>4. ASSUME NEW w \in Workers, WorkerThread(w) PROVE RequestsConnected'
    BY <2>4 DEF WorkerThread, Look, Pop, PopJob, HandleAndPush, HandleJob, HandleFails,
                PushResult, vars, control, RequestsConnected
  <2>5. CASE UNCHANGED allVars
    BY <2>5 DEF allVars, vars, control, RequestsConnected
  <2> QED
    BY <2>1, <2>2, <2>3, <2>4, <2>5 DEF StartNext
<1> QED
  BY <1>1, <1>2, StopInvariant, PTL DEF StartSpec

(* When every connection is over, each of those that had a job accepted    *)
(* has been answered with the result of one; there are as many results as  *)
(* answers, so none is left over, whatever the ids.                        *)
LEMMA AllAnswered ==
    ASSUME PlaceInv, RequestsConnected,
           \A s \in accepted : req[s] \in Ended,
           NEW r \in Submissions, Somewhere(r)
    PROVE  \E s \in Submissions : At(r, "answer", s)
<1> USE DEF PlaceInv, RequestsConnected
<1> DEFINE Done == {s \in Submissions : req[s] = "answered"}
           Own == [s \in Done |-> answer[s]]
<1>1. \A s \in Submissions : Somewhere(s) <=> s \in Done
  BY DEF AcceptedJobsHaveAPlace, Accepted, Ended
<1>2. IsFiniteSet(Done)
  <2>1. Done \subseteq accepted
    OBVIOUS
  <2> QED
    BY <2>1, FS_Subset
<1>3. \A s \in Done : answer[s] \in Submissions /\ At(answer[s], "answer", s)
  BY DEF HandsMatchSteps, TypeOK, At
<1>4. \A s \in Done : answer[s] \in Done
  BY <1>1, <1>3 DEF Somewhere
<1>5. \A s, t \in Done : answer[s] = answer[t] => s = t
  BY <1>3 DEF OnePlace
<1>6. Own \in Injection(Done, Done)
  BY <1>4, <1>5 DEF Injection, IsInjective
<1>7. Own \in Surjection(Done, Done)
  BY <1>2, <1>6, FS_Injection
<1>8. \E s \in Done : answer[s] = r
  BY <1>1, <1>7 DEF Surjection
<1> QED
  BY <1>3, <1>8

(* A server that stops with no connection open leaves no job and no result *)
(* in its queues: those who wait for them are gone only once answered.     *)
THEOREM QuietStop == StartSpec => []QuietStopIsClean
<1>1. PlaceInv /\ StopInv /\ RequestsConnected => QuietStopIsClean
  <2> SUFFICES ASSUME PlaceInv, StopInv, RequestsConnected, freed # {}, openAtStop = {}
               PROVE  jobs = <<>> /\ results = <<>>
    BY DEF QuietStopIsClean, StopInv
  <2>1. Open = {} /\ dangling = {}
    BY DEF StopInv, ThreadsMatchMain, ConnectionsMatchMain, OnlyOpenDangle, ControlTypeOK
  <2>2. \A s \in accepted : req[s] \in Ended
    BY <2>1 DEF Open
  <2>3. ASSUME NEW r \in Submissions, NEW k \in {"jobs", "results"}, NEW i, At(r, k, i)
        PROVE  FALSE
    <3>1. PICK s \in Submissions : At(r, "answer", s)
      BY <2>2, <2>3, AllAnswered DEF Somewhere
    <3> QED
      BY <2>3, <3>1 DEF PlaceInv, OnePlace
  <2>4. jobs # <<>> => jobs[1] \in Submissions /\ At(jobs[1], "jobs", 1)
    BY DEF PlaceInv, TypeOK, At
  <2>5. results # <<>> => results[1] \in Submissions /\ At(results[1], "results", 1)
    BY DEF PlaceInv, TypeOK, At
  <2> QED
    BY <2>3, <2>4, <2>5
<1> QED
  BY <1>1, ServerRunsPipeline, PlaceInvariant, StopInvariant, RequestsAreConnected, PTL
=============================================================================
