------------------------------ MODULE ForkJoin ------------------------------
(***************************************************************************)
(* What the Machine promises a program that joins every tape it runs: a    *)
(* tape handed to an idle thread is started there with the argument it was *)
(* handed, exactly once; a join returns only when it is over; and the      *)
(* machine closes only when every tape was joined.  How threads sleep and  *)
(* wake is not visible here.                                               *)
(***************************************************************************)
EXTENDS Naturals

CONSTANTS Workers, Arguments

VARIABLES
    job,  \* per worker: the state of the tape it was handed
    mode  \* "up", "closed" after the last line, or "aborted"

Job(st, p, a) == [st |-> st, tape |-> p, arg |-> a]
Free == Job("free", 0, 0)
Over == Job("over", 0, 0)
Queued == [st : {"queued"}, tape : Nat, arg : Arguments]

Set(w, j) == job' = [job EXCEPT ![w] = j] /\ UNCHANGED mode

Init == job = [w \in Workers |-> Free] /\ mode = "up"

Submit(w) ==
    /\ mode = "up" /\ job[w] = Free
    /\ job'[w] \in Queued
    /\ Set(w, job'[w])

Start(w) ==
    /\ mode # "aborted" /\ job[w].st = "queued"
    /\ Set(w, Job("running", job[w].tape, job[w].arg))

Finish(w) == mode # "aborted" /\ job[w].st = "running" /\ Set(w, Over)

Join(w) == mode # "aborted" /\ job[w] = Over /\ Set(w, Free)

Close ==
    /\ mode = "up" /\ \A w \in Workers : job[w] = Free
    /\ mode' = "closed" /\ UNCHANGED job

Abort == mode # "aborted" /\ mode' = "aborted" /\ UNCHANGED job

Next ==
    \/ \E w \in Workers : Submit(w) \/ Start(w) \/ Finish(w) \/ Join(w)
    \/ Close \/ Abort

vars == <<job, mode>>

\* Nothing makes a program hand out a tape, but what was handed out moves on.
Fairness ==
    \A w \in Workers : WF_vars(Start(w)) /\ WF_vars(Finish(w)) /\ WF_vars(Join(w))

Safety == Init /\ [][Next]_vars

Spec == Safety /\ Fairness
=============================================================================
