---------------------------- MODULE MachineProps ----------------------------
(***************************************************************************)
(* The properties of the Machine, and the abstract machine it implements.  *)
(***************************************************************************)
EXTENDS Machine

\* No thread is working, nor has a tape it has yet to notice.
Quiet(t) == opc[t] \notin Busy /\ OTI[t].prognum < 0

(* The control thread leaves Synchronize only when every online thread has *)
(* signalled that it is ready, however its waits end.                      *)
SynchronizedStart == cpc # "sync" => \A t \in Threads : opc[t] # "start"

(* A join returns only once the tape handed to the thread has been run to  *)
(* its end: Lock_Until_Finished_Tape, whose wait is under an `if', called  *)
(* by Machine::run and by JOIN_TAPE.                                       *)
JoinAfterFinish ==
    [][\A t \in unjoined \ unjoined' : OTI[t].finished /\ Quiet(t)]_vars

(* A tape handed to a thread is not replaced before the thread has taken   *)
(* it, nor its argument before get_OTI_arg has read it without the mutex.  *)
NoTapeOverwritten ==
    [][\A t \in Threads :
          /\ OTI[t].prognum >= 0 => OTI'[t].prognum \in {OTI[t].prognum, -2}
          /\ (OTI[t].prognum >= 0 \/ opc[t] = "fetch")
                => OTI'[t].arg = OTI[t].arg]_vars

(* Pause_While_Nothing_To_Do never answers -2, the value with which        *)
(* online_phase would index machine.progs out of its bounds.               *)
NeverRunsNothing == \A t \in Threads : opc[t] # "wild"

(* Between two lines of the schedule, and once the threads are being told  *)
(* to stop, no thread has a tape (Machine::run, "Make sure all terminate   *)
(* before we continue").                                                   *)
LineBarrier ==
    cpc \in {"load", "stop", "bye", "destroy", "exit"} =>
        \A t \in Threads : Quiet(t)

(* The programs are replaced by RESTART only while no other thread can be  *)
(* reading them, and while the control thread is not reading the schedule. *)
ReloadAlone ==
    \A t \in Threads :
        opc[t] = "reload" => /\ \A u \in Threads \ {t} : Quiet(u)
                             /\ cpc \in {"join", "joinwait"}

(* The control thread leaves a line of the schedule only after dispatching *)
(* all of it ("First go through the schedule and execute what is there").  *)
NoLineSkipped ==
    [][line' = line + 1 => issued = Len(sch.Sch[line + 1])]_vars

(* The mutex and conditions of a thread are destroyed only when the thread *)
(* is past its last use of them ("Wait until all clients have signed out").*)
(* The code does not keep this: see the README.                            *)
DestroyedAfterSignOut ==
    \A t \in destroyed : opc[t] \in {"dying", "done"}

(* The control thread and every online thread end, unless an exception has *)
(* ended the process.                                                      *)
Termination == <>Ended

---------------------------------------------------------------------------
(* The inductive invariant behind the safety properties.  It is checked by *)
(* TLC like them, and proved in MachineProofs.                             *)

\* Where the control thread is in its loops, and that a schedule in force
\* declares no more threads than there are.
LoopsOK ==
    /\ width <= NThreads
    /\ aborted \/ sch.nthreads <= NThreads
    /\ cpc \in {"dispatch", "join", "joinwait"} => ci < width
    /\ cpc = "advance" => 0 < width
    /\ cpc = "dispatch" => line < Len(sch.Sch) /\ width = Len(sch.Sch[line + 1])

\* In Synchronize, a thread is ready only after it has said so.
SyncOK ==
    /\ cpc = "sync" => \A t \in Threads :
          (OTI[t].ready \/ t < ci) => opc[t] # "start"
    /\ cpc # "sync" => \A t \in Threads : opc[t] # "start"

Handed(t) == opc[t] \in Busy \/ OTI[t].prognum >= 0
LineThreads == 0 .. width - 1

\* A thread has at most one tape, unfinished and to be joined until it ends.
TapesOK ==
    /\ \A t \in Threads : Handed(t) => ~OTI[t].finished /\ t \in unjoined
    /\ \A t \in Threads : ~(opc[t] \in Busy /\ OTI[t].prognum >= 0)
    /\ \A t \in Threads : opc[t] \in {"joining", "reload", "ending"} => t = 0

\* Which threads of the line are to be joined; others only under tape 0.
UnjoinedOK ==
    /\ cpc \in {"sync", "load", "stop", "bye", "destroy", "exit"} => unjoined = {}
    /\ cpc = "dispatch" => \A t \in LineThreads : t \in unjoined <=> t < ci
    /\ cpc = "advance" => LineThreads \subseteq unjoined
    /\ cpc \in {"join", "joinwait"} => \A t \in LineThreads : t \in unjoined <=> t >= ci
    /\ unjoined \subseteq LineThreads \/ opc[0] \in {"exec", "joining"}

\* A joiner that has been woken is woken by the end of the tape.
JoinersOK ==
    /\ cpc = "joinwait" /\ Control \notin sleepO[ci] => OTI[ci].finished
    /\ opc[0] = "joining" =>
          /\ target \in unjoined \ LineThreads
          /\ 0 \notin sleepO[target] => OTI[target].finished

\* A paused thread that has been woken has something to take; a thread that
\* was told to stop takes that, or has.
Stopped(t) == cpc \in {"bye", "destroy", "exit"} \/ (cpc = "stop" /\ t < ci)
PausesOK ==
    /\ \A t \in Threads : opc[t] = "paused" /\ t \notin sleepM => OTI[t].prognum # -2
    /\ \A t \in Threads : Stopped(t) =>
          \/ opc[t] \in {"last", "lastwait", "dying", "done"}
          \/ /\ opc[t] \in {"pause", "paused"}
             /\ OTI[t].prognum = -1
             /\ t \notin sleepM
    /\ \A t \in Threads : opc[t] # "wild"

\* With a trigger that takes its time, RESTART meets the control thread in
\* the join of its own line.
RestartOK ==
    /\ opc[0] = "reload" => unjoined = {0} /\ cpc \in {"join", "joinwait"}
    /\ cpc \in {"sync", "load", "join", "joinwait"} => issued = 0
    /\ cpc = "dispatch" => issued = ci
    /\ cpc = "advance" => line < Len(sch.Sch) /\ issued = Len(sch.Sch[line + 1])

TapeInv == TapesOK /\ UnjoinedOK /\ JoinersOK /\ PausesOK /\ RestartOK
IInv == LoopsOK /\ SyncOK /\ TapeInv

\* What the invariant needs of the constants: waits end by a signal only,
\* tapes join what they ran, and an answer to RESTART takes its time.
Disciplined == ~SpuriousWakeups /\ JoinAll /\ ~EagerTrigger

---------------------------------------------------------------------------
(* The Machine implements ForkJoin.                                        *)

\* What was handed to a thread and not joined: still in OTI, taken with its
\* argument yet to be read, being run, or over.
AbsJob(t) ==
    IF t \notin unjoined THEN [st |-> "free", tape |-> 0, arg |-> 0]
    ELSE IF OTI[t].prognum >= 0
    THEN [st |-> "queued", tape |-> OTI[t].prognum, arg |-> OTI[t].arg]
    ELSE IF opc[t] = "fetch"
    THEN [st |-> "queued", tape |-> cur[t].tape, arg |-> OTI[t].arg]
    ELSE IF opc[t] \in Busy
    THEN [st |-> "running", tape |-> cur[t].tape, arg |-> cur[t].arg]
    ELSE [st |-> "over", tape |-> 0, arg |-> 0]

AbsMode ==
    IF aborted THEN "aborted"
    ELSE IF cpc \in {"stop", "bye", "destroy", "exit"} THEN "closed" ELSE "up"

FJ == INSTANCE ForkJoin WITH Workers <- Threads, Arguments <- Args,
                             job <- [t \in Threads |-> AbsJob(t)],
                             mode <- AbsMode

(* Every behaviour of the Machine, seen through AbsJob and AbsMode, is one *)
(* of ForkJoin, its liveness included.                                     *)
ImplementsForkJoin == FJ!Spec
=============================================================================
