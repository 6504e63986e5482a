----------------------------- MODULE JobQueueProofs -----------------------------
(***************************************************************************)
(* What the operators of JobQueue do to a set of jobs, whichever component  *)
(* uses them: a set that contains what is enqueued, and each of its jobs    *)
(* also as one that came back, goes on containing all jobs there are.       *)
(***************************************************************************)
EXTENDS JobQueue, SequenceTheorems, TLAPS

\* All jobs are in J.
JobsIn(J) ==
    /\ queue \in Seq(J)
    /\ active \in J \cup {NoJob}
    /\ stalled \subseteq J

\* J has each of its jobs also as one that came back.
Returnable(J) == \A job \in J : [job EXCEPT !.again = TRUE] \in J

LEMMA EnqueueKeeps ==
    ASSUME NEW J, JobsIn(J), NEW kind, NEW arg, Enqueue(kind, arg),
           [kind |-> kind, arg |-> arg, again |-> FALSE] \in J
    PROVE  JobsIn(J)'
    BY DEF JobsIn, Enqueue

\* The head of the queue becomes the active job.
LEMMA TakeKeeps ==
    ASSUME NEW J, JobsIn(J), Take
    PROVE  /\ JobsIn(J)'
           /\ active' \in J
           /\ active' = queue[1]
           /\ queue # <<>>
    BY DEF JobsIn, Take

LEMMA FinishKeeps ==
    ASSUME NEW J, JobsIn(J), Finish
    PROVE  JobsIn(J)'
    BY DEF JobsIn, Finish

LEMMA DieKeeps ==
    ASSUME NEW J, JobsIn(J), Die
    PROVE  JobsIn(J)'
    BY DEF JobsIn, Die

LEMMA ComesBackKeeps ==
    ASSUME NEW J, JobsIn(J), Returnable(J), ComesBack
    PROVE  JobsIn(J)'
<1>1. PICK job \in stalled :
          /\ queue' = <<[job EXCEPT !.again = TRUE]>> \o queue
          /\ stalled' = stalled \ {job}
    BY DEF ComesBack
<1>2. <<[job EXCEPT !.again = TRUE]>> \in Seq(J)
    BY DEF JobsIn, Returnable
<1>3. queue' \in Seq(J)
    BY <1>1, <1>2, ConcatProperties DEF JobsIn
<1> QED BY <1>1, <1>3 DEF JobsIn, ComesBack

\* The jobs on the queue.
Waiting == {queue[i] : i \in DOMAIN queue}

LEMMA EnqueueWaiting ==
    ASSUME NEW J, queue \in Seq(J), NEW kind, NEW arg, Enqueue(kind, arg)
    PROVE  Waiting' = Waiting \cup {[kind |-> kind, arg |-> arg, again |-> FALSE]}
<1> DEFINE job == [kind |-> kind, arg |-> arg, again |-> FALSE]
<1>1. /\ DOMAIN queue' = DOMAIN queue \cup {Len(queue) + 1}
      /\ \A i \in DOMAIN queue : queue'[i] = queue[i]
      /\ queue'[Len(queue) + 1] = job
    BY DEF Enqueue
<1> QED BY <1>1 DEF Waiting

LEMMA TakeWaiting ==
    ASSUME NEW J, queue \in Seq(J), Take
    PROVE  Waiting = Waiting' \cup {active'}
<1>1. /\ queue # <<>> /\ active' = queue[1] /\ Len(queue') = Len(queue) - 1
      /\ \A i \in 1..Len(queue') : queue'[i] = queue[i + 1]
    BY DEF Take
<1>2. DOMAIN queue = 1..Len(queue) /\ DOMAIN queue' = 1..Len(queue') /\ Len(queue) \in Nat /\ Len(queue) # 0
    BY <1>1 DEF Take
<1>3. \A i \in DOMAIN queue : i = 1 \/ (i - 1 \in DOMAIN queue' /\ queue[i] = queue'[i - 1])
    BY <1>1, <1>2
<1>4. \A i \in DOMAIN queue' : i + 1 \in DOMAIN queue /\ queue'[i] = queue[i + 1]
    BY <1>1, <1>2
<1>5. 1 \in DOMAIN queue
    BY <1>2
<1>6. ASSUME NEW job \in Waiting PROVE job \in Waiting' \/ job = active'
    BY <1>1, <1>3 DEF Waiting
<1>7. Waiting' \subseteq Waiting
    BY <1>4 DEF Waiting
<1>8. active' \in Waiting
    BY <1>1, <1>5 DEF Waiting
<1> QED BY <1>6, <1>7, <1>8

LEMMA ComesBackWaiting ==
    ASSUME NEW J, JobsIn(J), Returnable(J), ComesBack
    PROVE  \E job \in stalled :
             /\ stalled' = stalled \ {job}
             /\ Waiting' = Waiting \cup {[job EXCEPT !.again = TRUE]}
<1>1. PICK job \in stalled :
          /\ queue' = <<[job EXCEPT !.again = TRUE]>> \o queue
          /\ stalled' = stalled \ {job}
    BY DEF ComesBack
<1> DEFINE back == [job EXCEPT !.again = TRUE]
<1>2. <<back>> \in Seq(J) /\ queue \in Seq(J) /\ Len(<<back>>) = 1 /\ <<back>>[1] = back
    BY DEF JobsIn, Returnable
<1> HIDE DEF back
<1>3. /\ Len(queue') = 1 + Len(queue)
      /\ \A i \in 1..Len(queue') :
           queue'[i] = IF i <= 1 THEN <<back>>[i] ELSE queue[i - 1]
    BY <1>1, <1>2, ConcatProperties DEF back
<1>4. DOMAIN queue = 1..Len(queue) /\ Len(queue) \in Nat
    BY <1>2
<1>5. DOMAIN queue' = 1..Len(queue')
    BY <1>1, <1>2, ConcatProperties DEF back
<1>6. 1 \in DOMAIN queue' /\ queue'[1] = back
    BY <1>2, <1>3, <1>4, <1>5
<1>7. \A i \in DOMAIN queue' : i = 1 \/ (i - 1 \in DOMAIN queue /\ queue'[i] = queue[i - 1])
    BY <1>3, <1>4, <1>5
<1>8. \A i \in DOMAIN queue : i + 1 \in DOMAIN queue' /\ queue'[i + 1] = queue[i]
    BY <1>3, <1>4, <1>5
<1>9. Waiting' = Waiting \cup {back}
    BY <1>6, <1>7, <1>8 DEF Waiting
<1> QED BY <1>1, <1>9 DEF back
================================================================================
