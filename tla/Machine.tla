------------------------------ MODULE Machine ------------------------------
(***************************************************************************)
(* The Machine coordinates one control thread (main, in Run_Scale and      *)
(* Machine::run) with the online threads, each of which runs online_phase. *)
(* They share, for every online thread t, the record OTI[t], the mutex     *)
(* online_mutex[t] and two condition variables: online_thread_ready[t],    *)
(* on which whoever waits for thread t sleeps, and machine_ready[t], on    *)
(* which thread t itself sleeps.                                           *)
(*                                                                         *)
(* A critical section that neither sleeps nor keeps its mutex is one       *)
(* action.  The only mutexes held from one action to the next are those    *)
(* Init_OTI locks and Synchronize gives back; `online_mutex' is their set. *)
(* Tapes are abstracted to the instructions that reach the Machine:        *)
(* RUN_TAPE, JOIN_TAPE and RESTART, chosen freely within the rules the     *)
(* compiler and the documentation set for them.                            *)
(***************************************************************************)
EXTENDS Integers, Sequences, FiniteSets

CONSTANTS
    NThreads,        \* number of online threads
    Args,            \* tape arguments that occur
    Schedules,       \* schedules a run may start with or be restarted with
    SpawnBound,      \* bound: RUN_TAPE instructions executed in a behaviour
    RestartBound,    \* bound: RESTART instructions executed in a behaviour
    SpuriousWakeups, \* may any wait return without a signal?
    EagerTrigger,    \* may IO.trigger return before control thread waits?
    JoinAll          \* does every tape join the tapes it has run?

Threads == 0 .. NThreads - 1
Control == -1                        \* the control thread, as a joiner
Callers == Threads \cup {Control}

Entry == [tape : Nat, arg : Args]

ASSUME NThreadsAssumption == NThreads \in Nat \ {0}
ASSUME BoundsAssumption == SpawnBound \in Nat /\ RestartBound \in Nat
ASSUME SwitchesAssumption ==
    /\ SpuriousWakeups \in BOOLEAN
    /\ EagerTrigger \in BOOLEAN
    /\ JoinAll \in BOOLEAN
\* The number that ends a schedule file's lines is the width 0, so every
\* line read has at least one tape, and at most one per thread it declares.
ASSUME SchedulesAssumption ==
    \A s \in Schedules :
        /\ s.nthreads \in Nat \ {0}
        /\ s.nprogs \in Nat
        /\ s.Sch \in Seq(Seq(Entry))
        /\ \A n \in 1 .. Len(s.Sch) : Len(s.Sch[n]) \in 1 .. s.nthreads

VARIABLES
    OTI,          \* per thread: prognum, finished, ready, arg
    online_mutex, \* mutexes the control thread holds between two actions
    sleepM,       \* threads asleep on their own machine_ready
    sleepO,       \* per thread: the callers asleep on online_thread_ready
    destroyed,    \* threads whose mutex and conditions were destroyed
    cpc, ci,      \* control thread: where it is, its loop index
    width,        \* its local threads_on_line
    sch, line,    \* schedule and schedule.line_number
    progs,        \* progs.size(): the programs parsed into the machine
    opc,          \* per online thread: where it is
    cur,          \* per online thread: the tape and argument it executes
    target,       \* the thread that a tape's JOIN_TAPE waits for
    unjoined,     \* threads handed a tape and not joined since
    spawned, restarts, \* instructions executed, for the bounds
    issued,       \* history: tapes dispatched from the current line
    aborted       \* an exception left a thread: the process terminated

control == <<cpc, ci, width>>
schedule == <<sch, line, progs, issued>>
counters == <<spawned, restarts>>
vars == <<OTI, online_mutex, sleepM, sleepO, destroyed, control, schedule,
          opc, cur, target, unjoined, counters, aborted>>

ControlPoints == {"sync", "load", "dispatch", "advance", "join", "joinwait",
                  "stop", "bye", "destroy", "exit"}
OnlinePoints == {"start", "pause", "paused", "fetch", "exec", "joining",
                 "reload", "ending", "last", "lastwait", "dying", "done",
                 "wild"}
\* A thread at one of these points has a tape it has not finished.
Busy == {"fetch", "exec", "joining", "reload", "ending"}

\* What a thread executes, and what is shared with it.
Current == [tape : Nat, arg : Args \cup {0}]
OTIType == [prognum : {-2, -1} \cup Nat, finished : BOOLEAN,
            ready : BOOLEAN, arg : Args \cup {0}]

TypeOK ==
    /\ OTI \in [Threads -> OTIType]
    /\ online_mutex \in SUBSET Threads
    /\ sleepM \in SUBSET Threads
    /\ sleepO \in [Threads -> SUBSET Callers]
    /\ destroyed \in SUBSET Threads
    /\ cpc \in ControlPoints
    /\ ci \in Threads
    /\ width \in Nat
    /\ sch \in Schedules
    /\ line \in Nat
    /\ progs \in Nat
    /\ opc \in [Threads -> OnlinePoints]
    /\ cur \in [Threads -> Current]
    /\ target \in Threads
    /\ unjoined \in SUBSET Threads
    /\ spawned \in 0 .. SpawnBound
    /\ restarts \in 0 .. RestartBound
    /\ issued \in Nat
    /\ aborted \in BOOLEAN

---------------------------------------------------------------------------
(* The initial state is the one after SetUp_Threads and pthread_create.    *)

Init_OTI ==
    /\ OTI = [t \in Threads |->
                [prognum |-> -2, finished |-> TRUE, ready |-> FALSE, arg |-> 0]]
    /\ online_mutex = Threads
    /\ sleepM = {}
    /\ sleepO = [t \in Threads |-> {}]
    /\ destroyed = {}

Init ==
    /\ Init_OTI
    /\ cpc = "sync" /\ ci = 0 /\ width = 0
    /\ sch \in {s \in Schedules : s.nthreads = NThreads}
    /\ line = 0
    /\ progs = sch.nprogs
    /\ opc = [t \in Threads |-> "start"]
    /\ cur = [t \in Threads |-> [tape |-> 0, arg |-> 0]]
    /\ target = 0
    /\ unjoined = {}
    /\ spawned = 0 /\ restarts = 0
    /\ issued = 0
    /\ aborted = FALSE

---------------------------------------------------------------------------
(* pthread_cond_signal wakes one sleeper, if there is one.                 *)

SignalMachineReady(t) == sleepM' = sleepM \ {t}

SignalThreadReady(t) ==
    IF sleepO[t] = {}
    THEN UNCHANGED sleepO
    ELSE \E c \in sleepO[t] : sleepO' = [sleepO EXCEPT ![t] = @ \ {c}]

\* Nobody holds online_mutex[t] from an earlier action.
Free(t) == t \notin online_mutex

ControlGoes(pc, i) == cpc' = pc /\ ci' = i
OnlineGoes(t, pc) == opc' = [opc EXCEPT ![t] = pc]

\* A faulty form: the loop runs once too often.
FaultyNextIndex(n, stay, after) ==
    IF ci < n THEN ControlGoes(stay, ci + 1) ELSE ControlGoes(after, 0)

\* The loop of the control thread over the threads 0 .. n-1 moves on to the
\* next one, or leaves for `after' with its index reset.
NextIndex(n, stay, after) ==
    IF ci + 1 < n THEN ControlGoes(stay, ci + 1) ELSE ControlGoes(after, 0)

---------------------------------------------------------------------------
(* Machine::Synchronize: the control thread entered it with every mutex.   *)

SyncWait ==
    /\ cpc = "sync" /\ ci \in online_mutex /\ ~OTI[ci].ready
    /\ online_mutex' = online_mutex \ {ci}
    /\ sleepO' = [sleepO EXCEPT ![ci] = @ \cup {Control}]
    /\ UNCHANGED <<OTI, sleepM, destroyed, control, schedule, opc, cur, target,
                   unjoined, counters, aborted>>

\* A faulty form: `if' instead of `while', ready is not looked at again.
FaultySyncWake ==
    /\ cpc = "sync" /\ ci \notin online_mutex /\ Control \notin sleepO[ci]
    /\ NextIndex(NThreads, "sync", "load")
    /\ UNCHANGED <<OTI, online_mutex, sleepM, sleepO, destroyed, width, schedule,
                   opc, cur, target, unjoined, counters, aborted>>

SyncWake ==
    /\ cpc = "sync" /\ ci \notin online_mutex /\ Control \notin sleepO[ci]
    /\ online_mutex' = online_mutex \cup {ci}
    /\ UNCHANGED <<OTI, sleepM, sleepO, destroyed, control, schedule, opc, cur,
                   target, unjoined, counters, aborted>>

SyncUnlock ==
    /\ cpc = "sync" /\ ci \in online_mutex /\ OTI[ci].ready
    /\ online_mutex' = online_mutex \ {ci}
    /\ NextIndex(NThreads, "sync", "load")
    /\ UNCHANGED <<OTI, sleepM, sleepO, destroyed, width, schedule, opc, cur,
                   target, unjoined, counters, aborted>>

---------------------------------------------------------------------------
(* Machine::run_tape, called by the control thread and by RUN_TAPE.  It    *)
(* throws Processor_Error on a thread or tape number out of range.         *)

InRange(t, p) == t \in Threads /\ p < progs

\* Faulty forms: finished is not cleared; the argument is not stored.
NoClear_run_tape(t, p, a) ==
    /\ InRange(t, p) /\ Free(t)
    /\ OTI' = [OTI EXCEPT ![t].prognum = p, ![t].arg = a]
    /\ SignalMachineReady(t)
    /\ unjoined' = unjoined \cup {t}
    /\ UNCHANGED aborted

NoArg_run_tape(t, p, a) ==
    /\ InRange(t, p) /\ Free(t)
    /\ OTI' = [OTI EXCEPT ![t].prognum = p, ![t].finished = FALSE]
    /\ SignalMachineReady(t)
    /\ unjoined' = unjoined \cup {t}
    /\ UNCHANGED aborted

run_tape(t, p, a) ==
    /\ InRange(t, p) /\ Free(t)
    /\ OTI' = [OTI EXCEPT ![t].prognum = p, ![t].arg = a, ![t].finished = FALSE]
    /\ SignalMachineReady(t)
    /\ unjoined' = unjoined \cup {t}
    /\ UNCHANGED aborted

run_tape_throws(t, p) ==
    /\ ~InRange(t, p)
    /\ aborted' = TRUE
    /\ UNCHANGED <<OTI, sleepM, unjoined>>

---------------------------------------------------------------------------
(* Machine::run.                                                           *)

EndOfSchedule ==
    /\ cpc = "load" /\ line = Len(sch.Sch)
    /\ ControlGoes("stop", 0)
    /\ UNCHANGED <<OTI, online_mutex, sleepM, sleepO, destroyed, width, schedule,
                   opc, cur, target, unjoined, counters, aborted>>

\* A faulty form: the last tape of a line of several is left out.
FaultyStartLine ==
    /\ cpc = "load" /\ line < Len(sch.Sch)
    /\ width' = IF Len(sch.Sch[line + 1]) = 1 THEN 1 ELSE Len(sch.Sch[line + 1]) - 1
    /\ ControlGoes("dispatch", 0)
    /\ UNCHANGED <<OTI, online_mutex, sleepM, sleepO, destroyed, schedule, opc,
                   cur, target, unjoined, counters, aborted>>

StartLine ==
    /\ cpc = "load" /\ line < Len(sch.Sch)
    /\ width' = Len(sch.Sch[line + 1])
    /\ ControlGoes("dispatch", 0)
    /\ UNCHANGED <<OTI, online_mutex, sleepM, sleepO, destroyed, schedule, opc,
                   cur, target, unjoined, counters, aborted>>

DispatchTape ==
    LET e == sch.Sch[line + 1][ci + 1]
    IN  /\ cpc = "dispatch"
        /\ \/ /\ run_tape(ci, e.tape, e.arg)
              /\ NextIndex(width, "dispatch", "advance")
              /\ issued' = issued + 1
           \/ /\ run_tape_throws(ci, e.tape)
              /\ UNCHANGED <<cpc, ci, issued>>
        /\ UNCHANGED <<online_mutex, sleepO, destroyed, width, sch, line, progs,
                       opc, cur, target, counters>>

\* A faulty form: line_number is not incremented.
FaultyAdvance ==
    /\ cpc = "advance"
    /\ issued' = 0
    /\ ControlGoes("join", 0)
    /\ UNCHANGED <<OTI, online_mutex, sleepM, sleepO, destroyed, width, sch, line,
                   progs, opc, cur, target, unjoined, counters, aborted>>

Advance ==
    /\ cpc = "advance"
    /\ line' = line + 1
    /\ issued' = 0
    /\ ControlGoes("join", 0)
    /\ UNCHANGED <<OTI, online_mutex, sleepM, sleepO, destroyed, width, sch,
                   progs, opc, cur, target, unjoined, counters, aborted>>

\* A faulty form: only the last thread of the line is waited for.
FaultyJoinLine ==
    /\ cpc = "join" /\ Free(ci) /\ (OTI[ci].finished \/ ci + 1 < width)
    /\ NextIndex(width, "join", "load")
    /\ unjoined' = unjoined \ {ci}
    /\ UNCHANGED <<OTI, online_mutex, sleepM, sleepO, destroyed, width, schedule,
                   opc, cur, target, counters, aborted>>

\* Lock_Until_Finished_Tape, called by the control thread.
JoinLine ==
    /\ cpc = "join" /\ Free(ci) /\ OTI[ci].finished
    /\ NextIndex(width, "join", "load")
    /\ unjoined' = unjoined \ {ci}
    /\ UNCHANGED <<OTI, online_mutex, sleepM, sleepO, destroyed, width, schedule,
                   opc, cur, target, counters, aborted>>

JoinLineWait ==
    /\ cpc = "join" /\ Free(ci) /\ ~OTI[ci].finished
    /\ sleepO' = [sleepO EXCEPT ![ci] = @ \cup {Control}]
    /\ ControlGoes("joinwait", ci)
    /\ UNCHANGED <<OTI, online_mutex, sleepM, destroyed, width, schedule, opc,
                   cur, target, unjoined, counters, aborted>>

\* The wait is under an `if': finished is not looked at again.
JoinLineWake ==
    /\ cpc = "joinwait" /\ Control \notin sleepO[ci] /\ Free(ci)
    /\ NextIndex(width, "join", "load")
    /\ unjoined' = unjoined \ {ci}
    /\ UNCHANGED <<OTI, online_mutex, sleepM, sleepO, destroyed, width, schedule,
                   opc, cur, target, counters, aborted>>

\* A faulty form: the thread is woken with nothing to run.
FaultyStopThread ==
    /\ cpc = "stop" /\ Free(ci)
    /\ OTI' = [OTI EXCEPT ![ci].ready = FALSE]
    /\ SignalMachineReady(ci)
    /\ NextIndex(NThreads, "stop", "bye")
    /\ UNCHANGED <<online_mutex, sleepO, destroyed, width, schedule, opc, cur,
                   target, unjoined, counters, aborted>>

\* Signal_Ready(i, false) for every thread.
StopThread ==
    /\ cpc = "stop" /\ Free(ci)
    /\ OTI' = [OTI EXCEPT ![ci].ready = FALSE, ![ci].prognum = -1]
    /\ SignalMachineReady(ci)
    /\ NextIndex(NThreads, "stop", "bye")
    /\ UNCHANGED <<online_mutex, sleepO, destroyed, width, schedule, opc, cur,
                   target, unjoined, counters, aborted>>

ByeThread ==
    /\ cpc = "bye" /\ Free(ci)
    /\ OTI' = [OTI EXCEPT ![ci].ready = TRUE]
    /\ SignalMachineReady(ci)
    /\ ControlGoes("destroy", ci)
    /\ UNCHANGED <<online_mutex, sleepO, destroyed, width, schedule, opc, cur,
                   target, unjoined, counters, aborted>>

DestroyThread ==
    /\ cpc = "destroy"
    /\ destroyed' = destroyed \cup {ci}
    /\ NextIndex(NThreads, "bye", "exit")
    /\ UNCHANGED <<OTI, online_mutex, sleepM, sleepO, width, schedule, opc, cur,
                   target, unjoined, counters, aborted>>

ControlStep ==
    \/ SyncWait \/ SyncWake \/ SyncUnlock
    \/ EndOfSchedule \/ StartLine \/ DispatchTape \/ Advance
    \/ JoinLine \/ JoinLineWait \/ JoinLineWake
    \/ StopThread \/ ByeThread \/ DestroyThread

---------------------------------------------------------------------------
(* online_phase on thread t.  Its wait for the minimum of offline data is  *)
(* external to this module; Signal_Ready(t, true) follows it.              *)

SignalReady(t) ==
    /\ opc[t] = "start" /\ Free(t)
    /\ OTI' = [OTI EXCEPT ![t].ready = TRUE]
    /\ SignalThreadReady(t)
    /\ OnlineGoes(t, "pause")
    /\ UNCHANGED <<online_mutex, sleepM, destroyed, control, schedule, cur,
                   target, unjoined, counters, aborted>>

\* The end of Pause_While_Nothing_To_Do: take prognum and reset it.  Were it
\* still -2, online_phase would index progs with it.
TakeProgram(t) ==
    LET program == OTI[t].prognum
    IN  /\ OTI' = [OTI EXCEPT ![t].prognum = -2]
        /\ OnlineGoes(t, CASE program = -1 -> "last"
                           [] program = -2 -> "wild"
                           [] OTHER -> "fetch")
        /\ cur' = IF program < 0 THEN cur ELSE [cur EXCEPT ![t].tape = program]

Pause(t) ==
    /\ opc[t] = "pause" /\ Free(t)
    /\ \/ /\ OTI[t].prognum = -2
          /\ sleepM' = sleepM \cup {t}
          /\ OnlineGoes(t, "paused")
          /\ UNCHANGED <<OTI, cur>>
       \/ /\ OTI[t].prognum # -2
          /\ TakeProgram(t)
          /\ UNCHANGED sleepM
    /\ UNCHANGED <<online_mutex, sleepO, destroyed, control, schedule, target,
                   unjoined, counters, aborted>>

PauseWake(t) ==
    /\ opc[t] = "paused" /\ t \notin sleepM /\ Free(t)
    /\ TakeProgram(t)
    /\ UNCHANGED <<online_mutex, sleepM, sleepO, destroyed, control, schedule,
                   target, unjoined, counters, aborted>>

\* machine.get_OTI_arg is called without the mutex.
FetchArg(t) ==
    /\ opc[t] = "fetch"
    /\ cur' = [cur EXCEPT ![t].arg = OTI[t].arg]
    /\ OnlineGoes(t, "exec")
    /\ UNCHANGED <<OTI, online_mutex, sleepM, sleepO, destroyed, control,
                   schedule, target, unjoined, counters, aborted>>

\* A faulty form: a thread that was not joined is taken again.
FaultyRunTapeInstr(t) ==
    /\ opc[t] = "exec" /\ t = 0 /\ spawned < SpawnBound
    /\ spawned' = spawned + 1
    /\ \E u \in width .. NThreads, p \in 0 .. progs, a \in Args :
          run_tape(u, p, a) \/ run_tape_throws(u, p)
    /\ UNCHANGED <<online_mutex, sleepO, destroyed, control, schedule, opc, cur,
                   target, restarts>>

\* RUN_TAPE.  The compiler lets only the first tape run others, each on a
\* thread taken out of its free_threads; none is one the line itself uses.
RunTapeInstr(t) ==
    /\ opc[t] = "exec" /\ t = 0 /\ spawned < SpawnBound
    /\ spawned' = spawned + 1
    /\ \E u \in width .. NThreads, p \in 0 .. progs, a \in Args :
          /\ u \notin unjoined
          /\ run_tape(u, p, a) \/ run_tape_throws(u, p)
    /\ UNCHANGED <<online_mutex, sleepO, destroyed, control, schedule, opc, cur,
                   target, restarts>>

\* JOIN_TAPE of a thread that this tape ran: Lock_Until_Finished_Tape.
JoinTapeInstr(t) ==
    /\ opc[t] = "exec" /\ t = 0
    /\ \E u \in unjoined \ (0 .. width - 1) :
          /\ Free(u)
          /\ target' = u
          /\ \/ /\ OTI[u].finished
                /\ unjoined' = unjoined \ {u}
                /\ UNCHANGED <<sleepO, opc>>
             \/ /\ ~OTI[u].finished
                /\ sleepO' = [sleepO EXCEPT ![u] = @ \cup {t}]
                /\ OnlineGoes(t, "joining")
                /\ UNCHANGED unjoined
    /\ UNCHANGED <<OTI, online_mutex, sleepM, destroyed, control, schedule, cur,
                   counters, aborted>>

JoinTapeWake(t) ==
    /\ opc[t] = "joining" /\ t \notin sleepO[target] /\ Free(target)
    /\ unjoined' = unjoined \ {target}
    /\ OnlineGoes(t, "exec")
    /\ UNCHANGED <<OTI, online_mutex, sleepM, sleepO, destroyed, control,
                   schedule, cur, target, counters, aborted>>

\* A faulty form: RESTART does not wait for the other threads.
FaultyRestart(t) ==
    /\ opc[t] = "exec" /\ t = 0 /\ restarts < RestartBound
    /\ cpc \in {"join", "joinwait"}
    /\ restarts' = restarts + 1
    /\ \E s \in Schedules :
          /\ sch' = s /\ line' = 0 /\ issued' = 0
          /\ aborted' = (NThreads < s.nthreads)
    /\ OnlineGoes(t, "reload")
    /\ UNCHANGED <<OTI, online_mutex, sleepM, sleepO, destroyed, control, progs,
                   cur, target, unjoined, spawned>>

\* RESTART: IO.trigger loads a new schedule, or throws when that needs more
\* threads.  It is used by thread 0 while no other thread has work, and the
\* trigger is an answer from outside.
Restart(t) ==
    /\ opc[t] = "exec" /\ t = 0 /\ restarts < RestartBound
    /\ unjoined = {t}
    /\ cpc \in IF EagerTrigger THEN {"advance", "join", "joinwait"}
                               ELSE {"join", "joinwait"}
    /\ restarts' = restarts + 1
    /\ \E s \in Schedules :
          /\ sch' = s /\ line' = 0 /\ issued' = 0
          /\ aborted' = (NThreads < s.nthreads)
    /\ OnlineGoes(t, "reload")
    /\ UNCHANGED <<OTI, online_mutex, sleepM, sleepO, destroyed, control, progs,
                   cur, target, unjoined, spawned>>

LoadSchedule(t) ==
    /\ opc[t] = "reload"
    /\ progs' = sch.nprogs
    /\ OnlineGoes(t, "ending")
    /\ UNCHANGED <<OTI, online_mutex, sleepM, sleepO, destroyed, control, sch,
                   line, issued, cur, target, unjoined, counters, aborted>>

\* The tape ends, RunOpenCheck passes, and Signal_Finished_Tape.
FinishTape(t) ==
    /\ opc[t] \in {"exec", "ending"} /\ Free(t)
    /\ (JoinAll /\ t = 0) => unjoined \subseteq 0 .. width - 1
    /\ OTI' = [OTI EXCEPT ![t].finished = TRUE]
    /\ SignalThreadReady(t)
    /\ OnlineGoes(t, "pause")
    /\ UNCHANGED <<online_mutex, sleepM, destroyed, control, schedule, cur,
                   target, unjoined, counters, aborted>>

\* Lock_Until_Ready, after the last RunOpenCheck.
LastCheck(t) ==
    /\ opc[t] = "last" /\ Free(t)
    /\ \/ /\ OTI[t].ready
          /\ OnlineGoes(t, "dying")
          /\ UNCHANGED sleepM
       \/ /\ ~OTI[t].ready
          /\ sleepM' = sleepM \cup {t}
          /\ OnlineGoes(t, "lastwait")
    /\ UNCHANGED <<OTI, online_mutex, sleepO, destroyed, control, schedule, cur,
                   target, unjoined, counters, aborted>>

LastWake(t) ==
    /\ opc[t] = "lastwait" /\ t \notin sleepM /\ Free(t)
    /\ OnlineGoes(t, "dying")
    /\ UNCHANGED <<OTI, online_mutex, sleepM, sleepO, destroyed, control,
                   schedule, cur, target, unjoined, counters, aborted>>

\* finish_offline[t] = 1; the offline threads take it from there.
Die(t) ==
    /\ opc[t] = "dying"
    /\ OnlineGoes(t, "done")
    /\ UNCHANGED <<OTI, online_mutex, sleepM, sleepO, destroyed, control,
                   schedule, cur, target, unjoined, counters, aborted>>

\* Indexing progs with -2 is undefined; the outcome modelled is a crash.
WildProgram(t) ==
    /\ opc[t] = "wild"
    /\ aborted' = TRUE
    /\ UNCHANGED <<OTI, online_mutex, sleepM, sleepO, destroyed, control,
                   schedule, opc, cur, target, unjoined, counters>>

OnlineStep(t) ==
    \/ SignalReady(t) \/ Pause(t) \/ PauseWake(t) \/ FetchArg(t)
    \/ RunTapeInstr(t) \/ JoinTapeInstr(t) \/ JoinTapeWake(t)
    \/ Restart(t) \/ LoadSchedule(t) \/ FinishTape(t)
    \/ LastCheck(t) \/ LastWake(t) \/ Die(t) \/ WildProgram(t)

---------------------------------------------------------------------------
(* POSIX lets pthread_cond_wait return without a signal.  The wait of      *)
(* Synchronize, in a loop, is made for it; the others are not.             *)

SpuriousSync ==
    /\ cpc = "sync" /\ Control \in sleepO[ci]
    /\ sleepO' = [sleepO EXCEPT ![ci] = @ \ {Control}]
    /\ UNCHANGED <<OTI, online_mutex, sleepM, destroyed, control, schedule, opc,
                   cur, target, unjoined, counters, aborted>>

Spurious ==
    /\ SpuriousWakeups
    /\ \/ \E t \in sleepM : sleepM' = sleepM \ {t} /\ UNCHANGED sleepO
       \/ \E t \in Threads : \E c \in sleepO[t] :
             /\ sleepO' = [sleepO EXCEPT ![t] = @ \ {c}]
             /\ UNCHANGED sleepM
    /\ UNCHANGED <<OTI, online_mutex, destroyed, control, schedule, opc, cur,
                   target, unjoined, counters, aborted>>

\* pthread_join has returned for every thread, or the process has aborted.
Ended == aborted \/ (cpc = "exit" /\ \A t \in Threads : opc[t] = "done")

Next ==
    \/ /\ ~aborted
       /\ ControlStep \/ SpuriousSync \/ Spurious \/ \E t \in Threads : OnlineStep(t)
    \/ Ended /\ UNCHANGED vars

Fairness ==
    /\ WF_vars(~aborted /\ ControlStep)
    /\ \A t \in Threads : WF_vars(~aborted /\ OnlineStep(t))
    /\ \A t \in Threads : SF_vars(~aborted /\ SignalReady(t))

Spec == Init /\ [][Next]_vars /\ Fairness
=============================================================================
