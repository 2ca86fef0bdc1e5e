--------------------------- MODULE MachineProofs ---------------------------
(***************************************************************************)
(* Proofs about the Machine, for every number of threads, every set of     *)
(* schedules and every bound: its invariant and properties, and that it    *)
(* implements the safety part of ForkJoin.                                 *)
(***************************************************************************)
EXTENDS MachineProps, TLAPS

---------------------------------------------------------------------------
(* Constants, and what a schedule in force looks like.                     *)

\* Thread 0 exists, and the control thread is no thread of its own.
LEMMA ThreadNumbers ==
    /\ 0 \in Threads /\ Control \notin Threads
    /\ \A t \in Threads : t \in Nat /\ t < NThreads
    /\ \A n \in Nat : n < NThreads => n \in Threads
BY NThreadsAssumption DEF Threads, Control

\* The assumption on schedules, for one of them.
LEMMA ScheduleFields ==
    ASSUME NEW s \in Schedules
    PROVE  /\ s.nprogs \in Nat
           /\ s.nthreads \in Nat \ {0}
           /\ s.Sch \in Seq(Seq(Entry))
           /\ \A n \in 1 .. Len(s.Sch) : Len(s.Sch[n]) \in 1 .. s.nthreads
BY SchedulesAssumption

\* A line has at least one tape and no more than its schedule has threads.
LEMMA ScheduleLine ==
    ASSUME NEW s \in Schedules, NEW n \in Nat, n < Len(s.Sch)
    PROVE  /\ Len(s.Sch[n + 1]) \in 1 .. s.nthreads
           /\ s.Sch[n + 1] \in Seq(Entry)
<1>1. n + 1 \in 1 .. Len(s.Sch)
  BY ScheduleFields
<1>2. Len(s.Sch[n + 1]) \in 1 .. s.nthreads
  BY <1>1, ScheduleFields
<1>3. s.Sch[n + 1] \in Seq(Entry)
  BY <1>1, ScheduleFields
<1> QED
  BY <1>2, <1>3

\* Each position of a line is a tape with its argument.
LEMMA ScheduleEntry ==
    ASSUME NEW s \in Schedules, NEW n \in Nat, n < Len(s.Sch),
           NEW i \in Nat, i < Len(s.Sch[n + 1])
    PROVE  s.Sch[n + 1][i + 1] \in Entry
<1>1. s.Sch[n + 1] \in Seq(Entry)
  BY ScheduleLine
<1>2. i + 1 \in 1 .. Len(s.Sch[n + 1])
  BY <1>1
<1> QED
  BY <1>1, <1>2

---------------------------------------------------------------------------
(* Types: what the steps shared by several actions do to them.             *)

\* Where the loop of the control thread may be after a step of it.
LEMMA NextIndexMoves ==
    ASSUME ci \in Threads, NEW n \in Nat, n <= NThreads,
           NEW stay, NEW after, NextIndex(n, stay, after)
    PROVE  /\ ci' \in Threads
           /\ \/ cpc' = stay /\ ci' = ci + 1 /\ ci' < n
              \/ cpc' = after /\ ci' = 0 /\ ci + 1 >= n
<1>1. CASE ci + 1 < n
  BY <1>1, ThreadNumbers, NThreadsAssumption DEF NextIndex, ControlGoes
<1>2. CASE ~(ci + 1 < n)
  BY <1>2, ThreadNumbers DEF NextIndex, ControlGoes
<1> QED
  BY <1>1, <1>2

\* run_tape keeps the types of what it changes.
LEMMA RunTapeTypes ==
    ASSUME TypeOK, NEW t, NEW p \in Nat, NEW a \in Args, run_tape(t, p, a)
    PROVE  /\ OTI' \in [Threads -> OTIType] /\ sleepM' \in SUBSET Threads
           /\ unjoined' \in SUBSET Threads /\ aborted' \in BOOLEAN
<1>1. t \in Threads
  BY DEF run_tape, InRange
<1>2. OTI' \in [Threads -> OTIType]
  BY <1>1, ZenonT(60) DEF run_tape, TypeOK, OTIType
<1>3. unjoined' \in SUBSET Threads
  BY <1>1 DEF run_tape, TypeOK
<1> QED
  BY <1>2, <1>3 DEF run_tape, SignalMachineReady, TypeOK

\* The end of Pause_While_Nothing_To_Do keeps the types of what it changes.
LEMMA TakeProgramTypes ==
    ASSUME TypeOK, NEW t \in Threads, TakeProgram(t)
    PROVE  /\ OTI' \in [Threads -> OTIType] /\ cur' \in [Threads -> Current]
           /\ opc' \in [Threads -> OnlinePoints]
<1>1. OTI[t].prognum \in {-1, -2} \cup Nat
  BY DEF TypeOK, OTIType
<1>2. OTI' \in [Threads -> OTIType]
  BY DEF TakeProgram, OTIType, TypeOK
<1>3. cur' \in [Threads -> Current]
  BY <1>1 DEF TakeProgram, TypeOK, Current
<1>4. opc' \in [Threads -> OnlinePoints]
  BY DEF TakeProgram, OnlineGoes, TypeOK, OnlinePoints
<1> QED
  BY <1>2, <1>3, <1>4

\* Waking the sleepers on online_thread_ready keeps the type of sleepO.
LEMMA SignalThreadReadyTypes ==
    ASSUME TypeOK, NEW t \in Threads, SignalThreadReady(t)
    PROVE  sleepO' \in [Threads -> SUBSET Callers]
BY DEF SignalThreadReady, TypeOK

\* The initial state has its types, and its loop indices are sound.
LEMMA TypeInit == Init => TypeOK /\ LoopsOK
<1> SUFFICES ASSUME Init PROVE TypeOK /\ LoopsOK
  OBVIOUS
<1>1. OTI \in [Threads -> OTIType]
  BY DEF Init, Init_OTI, OTIType
<1>2. sch \in Schedules /\ sch.nthreads = NThreads
  BY DEF Init
<1>3. progs \in Nat
  BY <1>2, ScheduleFields DEF Init
<1>4. cur \in [Threads -> Current]
  BY DEF Init, Current
<1>5. /\ online_mutex \in SUBSET Threads /\ sleepM \in SUBSET Threads
      /\ sleepO \in [Threads -> SUBSET Callers] /\ destroyed \in SUBSET Threads
  BY DEF Init, Init_OTI
<1>6. cpc \in ControlPoints /\ opc \in [Threads -> OnlinePoints]
  BY DEF Init, ControlPoints, OnlinePoints
<1>7. ci \in Threads /\ target \in Threads
  BY ThreadNumbers DEF Init
<1>8. spawned \in 0 .. SpawnBound /\ restarts \in 0 .. RestartBound
  BY BoundsAssumption DEF Init
<1>9. TypeOK
  BY <1>1, <1>2, <1>3, <1>4, <1>5, <1>6, <1>7, <1>8 DEF Init, TypeOK
<1>10. LoopsOK
  BY <1>2, NThreadsAssumption DEF Init, LoopsOK
<1> QED
  BY <1>9, <1>10

---------------------------------------------------------------------------
(* Every step keeps the types.                                             *)

\* Every step keeps the types.
LEMMA TypeStep == TypeOK /\ LoopsOK /\ [Next]_vars => TypeOK'
<1> SUFFICES ASSUME TypeOK, LoopsOK, [Next]_vars PROVE TypeOK'
  OBVIOUS
<1> USE DEF control, schedule, counters
<1>0. width \in Nat /\ width <= NThreads /\ NThreads \in Nat /\ ci \in Threads
  BY NThreadsAssumption DEF TypeOK, LoopsOK
<1>1. CASE SyncWait
  BY <1>1 DEF SyncWait, TypeOK, Callers
<1>2. CASE SyncWake
  BY <1>2 DEF SyncWake, TypeOK
<1>3. CASE SyncUnlock
  <2>1. cpc' \in ControlPoints /\ ci' \in Threads
    BY <1>3, <1>0, NextIndexMoves DEF SyncUnlock, ControlPoints
  <2> QED
    BY <1>3, <2>1 DEF SyncUnlock, TypeOK
<1>4. CASE EndOfSchedule
  BY <1>4, ThreadNumbers DEF EndOfSchedule, ControlGoes, TypeOK, ControlPoints
<1>5. CASE StartLine
  <2>1. Len(sch.Sch[line + 1]) \in 1 .. sch.nthreads
    BY <1>5, ScheduleLine DEF StartLine, TypeOK
  <2> QED
    BY <1>5, <2>1, ThreadNumbers DEF StartLine, ControlGoes, TypeOK, ControlPoints
<1>6. CASE DispatchTape
  <2> DEFINE e == sch.Sch[line + 1][ci + 1]
  <2>1. e.tape \in Nat /\ e.arg \in Args
    BY <1>0, <1>6, ThreadNumbers, ScheduleEntry DEF DispatchTape, TypeOK, LoopsOK, Entry
  <2>2. CASE run_tape(ci, e.tape, e.arg) /\ NextIndex(width, "dispatch", "advance")
             /\ issued' = issued + 1
    <3>1. /\ OTI' \in [Threads -> OTIType] /\ sleepM' \in SUBSET Threads
          /\ unjoined' \in SUBSET Threads /\ aborted' \in BOOLEAN
      BY <2>1, <2>2, RunTapeTypes
    <3>2. cpc' \in ControlPoints /\ ci' \in Threads
      BY <1>0, <2>2, NextIndexMoves DEF ControlPoints
    <3>3. UNCHANGED <<online_mutex, sleepO, destroyed, width, sch, line, progs,
                      opc, cur, target, spawned, restarts>>
      BY <1>6 DEF DispatchTape
    <3> QED
      BY <2>2, <3>1, <3>2, <3>3 DEF TypeOK
  <2>3. CASE run_tape_throws(ci, e.tape) /\ UNCHANGED <<cpc, ci, issued>>
    BY <1>6, <2>3 DEF DispatchTape, run_tape_throws, TypeOK
  <2> QED
    BY <1>6, <2>2, <2>3 DEF DispatchTape
<1>7. CASE Advance
  BY <1>7, ThreadNumbers DEF Advance, ControlGoes, TypeOK, ControlPoints
<1>8. CASE JoinLine
  <2>1. cpc' \in ControlPoints /\ ci' \in Threads
    BY <1>8, <1>0, NextIndexMoves DEF JoinLine, ControlPoints
  <2> QED
    BY <1>8, <2>1 DEF JoinLine, TypeOK
<1>9. CASE JoinLineWait
  BY <1>9 DEF JoinLineWait, ControlGoes, TypeOK, ControlPoints, Callers
<1>10. CASE JoinLineWake
  <2>1. cpc' \in ControlPoints /\ ci' \in Threads
    BY <1>10, <1>0, NextIndexMoves DEF JoinLineWake, ControlPoints
  <2> QED
    BY <1>10, <2>1 DEF JoinLineWake, TypeOK
<1>11. CASE StopThread
  <2>1. cpc' \in ControlPoints /\ ci' \in Threads
    BY <1>11, <1>0, NextIndexMoves DEF StopThread, ControlPoints
  <2>2. OTI' \in [Threads -> OTIType]
    BY <1>11, ZenonT(60) DEF StopThread, TypeOK, OTIType
  <2> QED
    BY <1>11, <2>1, <2>2 DEF StopThread, TypeOK, SignalMachineReady
<1>12. CASE ByeThread
  <2>1. OTI' \in [Threads -> OTIType]
    BY <1>12 DEF ByeThread, TypeOK, OTIType
  <2> QED
    BY <1>12, <2>1 DEF ByeThread, ControlGoes, SignalMachineReady, TypeOK, ControlPoints
<1>13. CASE DestroyThread
  <2>1. cpc' \in ControlPoints /\ ci' \in Threads
    BY <1>13, <1>0, NextIndexMoves DEF DestroyThread, ControlPoints
  <2> QED
    BY <1>13, <2>1 DEF DestroyThread, TypeOK
<1>14. CASE SpuriousSync \/ Spurious
  BY <1>14 DEF SpuriousSync, Spurious, TypeOK
<1>15. ASSUME NEW t \in Threads, SignalReady(t) PROVE TypeOK'
  <2>1. OTI' \in [Threads -> OTIType]
    BY <1>15 DEF SignalReady, TypeOK, OTIType
  <2>2. sleepO' \in [Threads -> SUBSET Callers]
    BY <1>15, SignalThreadReadyTypes DEF SignalReady
  <2> QED
    BY <1>15, <2>1, <2>2 DEF SignalReady, OnlineGoes, TypeOK, OnlinePoints
<1>16. ASSUME NEW t \in Threads, Pause(t) PROVE TypeOK'
  <2>1. CASE TakeProgram(t) /\ UNCHANGED sleepM
    <3>1. /\ OTI' \in [Threads -> OTIType] /\ cur' \in [Threads -> Current]
          /\ opc' \in [Threads -> OnlinePoints]
      BY <2>1, TakeProgramTypes
    <3> QED
      BY <1>16, <2>1, <3>1 DEF Pause, TypeOK
  <2>2. CASE /\ sleepM' = sleepM \cup {t} /\ OnlineGoes(t, "paused")
             /\ UNCHANGED <<OTI, cur>>
    BY <1>16, <2>2 DEF Pause, OnlineGoes, TypeOK, OnlinePoints
  <2> QED
    BY <1>16, <2>1, <2>2 DEF Pause
<1>17. ASSUME NEW t \in Threads, PauseWake(t) PROVE TypeOK'
  <2>1. /\ OTI' \in [Threads -> OTIType] /\ cur' \in [Threads -> Current]
        /\ opc' \in [Threads -> OnlinePoints]
    BY <1>17, TakeProgramTypes DEF PauseWake
  <2> QED
    BY <1>17, <2>1 DEF PauseWake, TypeOK
<1>18. ASSUME NEW t \in Threads, FetchArg(t) PROVE TypeOK'
  <2>1. cur' \in [Threads -> Current]
    BY <1>18 DEF FetchArg, TypeOK, Current, OTIType
  <2> QED
    BY <1>18, <2>1 DEF FetchArg, OnlineGoes, TypeOK, OnlinePoints
<1>19. ASSUME NEW t \in Threads, RunTapeInstr(t) PROVE TypeOK'
  <2>1. spawned' \in 0 .. SpawnBound
    BY <1>19, BoundsAssumption DEF RunTapeInstr, TypeOK
  <2>2. PICK u \in width .. NThreads, p \in 0 .. progs, a \in Args :
            run_tape(u, p, a) \/ run_tape_throws(u, p)
    BY <1>19 DEF RunTapeInstr
  <2>3. p \in Nat
    BY <2>2 DEF TypeOK
  <2>4. /\ OTI' \in [Threads -> OTIType] /\ sleepM' \in SUBSET Threads
        /\ unjoined' \in SUBSET Threads /\ aborted' \in BOOLEAN
    <3>1. CASE run_tape(u, p, a)
      BY <2>3, <3>1, RunTapeTypes
    <3>2. CASE run_tape_throws(u, p)
      BY <3>2 DEF run_tape_throws, TypeOK
    <3> QED
      BY <2>2, <3>1, <3>2
  <2>5. UNCHANGED <<online_mutex, sleepO, destroyed, control, schedule, opc, cur,
                    target, restarts>>
    BY <1>19 DEF RunTapeInstr
  <2> QED
    BY <2>1, <2>4, <2>5 DEF TypeOK
<1>20. ASSUME NEW t \in Threads, JoinTapeInstr(t) PROVE TypeOK'
  <2>1. PICK u \in unjoined \ (0 .. width - 1) :
            /\ target' = u
            /\ \/ unjoined' = unjoined \ {u} /\ UNCHANGED <<sleepO, opc>>
               \/ /\ sleepO' = [sleepO EXCEPT ![u] = @ \cup {t}]
                  /\ OnlineGoes(t, "joining")
                  /\ UNCHANGED unjoined
    BY <1>20 DEF JoinTapeInstr
  <2>2. /\ target' \in Threads /\ unjoined' \in SUBSET Threads
        /\ sleepO' \in [Threads -> SUBSET Callers]
        /\ opc' \in [Threads -> OnlinePoints]
    BY <2>1 DEF OnlineGoes, TypeOK, OnlinePoints, Callers
  <2> QED
    BY <1>20, <2>2 DEF JoinTapeInstr, TypeOK
<1>21. ASSUME NEW t \in Threads, JoinTapeWake(t) PROVE TypeOK'
  BY <1>21 DEF JoinTapeWake, OnlineGoes, TypeOK, OnlinePoints
<1>22. ASSUME NEW t \in Threads, Restart(t) PROVE TypeOK'
  <2>1. restarts' \in 0 .. RestartBound
    BY <1>22, BoundsAssumption DEF Restart, TypeOK
  <2>2. aborted' \in BOOLEAN /\ sch' \in Schedules /\ line' = 0 /\ issued' = 0
    BY <1>22 DEF Restart
  <2> QED
    BY <1>22, <2>1, <2>2 DEF Restart, OnlineGoes, TypeOK, OnlinePoints
<1>23. ASSUME NEW t \in Threads, LoadSchedule(t) PROVE TypeOK'
  <2>1. progs' \in Nat
    BY <1>23, ScheduleFields DEF LoadSchedule, TypeOK
  <2> QED
    BY <1>23, <2>1 DEF LoadSchedule, OnlineGoes, TypeOK, OnlinePoints
<1>24. ASSUME NEW t \in Threads, FinishTape(t) PROVE TypeOK'
  <2>1. OTI' \in [Threads -> OTIType]
    BY <1>24 DEF FinishTape, TypeOK, OTIType
  <2>2. sleepO' \in [Threads -> SUBSET Callers]
    BY <1>24, SignalThreadReadyTypes DEF FinishTape
  <2> QED
    BY <1>24, <2>1, <2>2 DEF FinishTape, OnlineGoes, TypeOK, OnlinePoints
<1>25. ASSUME NEW t \in Threads, LastCheck(t) PROVE TypeOK'
  BY <1>25 DEF LastCheck, OnlineGoes, TypeOK, OnlinePoints
<1>26. ASSUME NEW t \in Threads, LastWake(t) \/ Die(t) \/ WildProgram(t) PROVE TypeOK'
  BY <1>26 DEF LastWake, Die, WildProgram, OnlineGoes, TypeOK, OnlinePoints
<1>27. CASE UNCHANGED vars
  BY <1>27 DEF vars, TypeOK
<1>28. CASE ControlStep
  BY <1>1, <1>2, <1>3, <1>4, <1>5, <1>6, <1>7, <1>8, <1>9, <1>10, <1>11, <1>12,
     <1>13, <1>28 DEF ControlStep
<1>29. ASSUME NEW t \in Threads, OnlineStep(t) PROVE TypeOK'
  BY <1>15, <1>16, <1>17, <1>18, <1>19, <1>20, <1>21, <1>22, <1>23, <1>24,
     <1>25, <1>26, <1>29 DEF OnlineStep
<1> QED
  BY <1>14, <1>27, <1>28, <1>29 DEF Next

\* An online thread leaves the state of the control thread alone, and the
\* schedule too but for RESTART, which meets the control thread after a line.
LEMMA OnlineFrame ==
    ASSUME TypeOK, NEW t \in Threads, OnlineStep(t)
    PROVE  /\ UNCHANGED <<control, online_mutex, destroyed>>
           /\ \A u \in Threads \ {t} : opc'[u] = opc[u]
           /\ \/ UNCHANGED <<sch, line, issued>> /\ aborted' \in {aborted, TRUE}
              \/ Restart(t)
<1> USE DEF OnlineGoes, control, schedule, counters
<1>1. opc \in [Threads -> OnlinePoints]
  BY DEF TypeOK
<1>2. CASE SignalReady(t) \/ FetchArg(t)
  BY <1>1, <1>2 DEF SignalReady, FetchArg
<1>3. CASE JoinTapeWake(t) \/ LoadSchedule(t) \/ FinishTape(t)
  BY <1>1, <1>3 DEF JoinTapeWake, LoadSchedule, FinishTape
<1>4. CASE LastCheck(t)
  BY <1>1, <1>4 DEF LastCheck
<1>5. CASE LastWake(t) \/ Die(t) \/ WildProgram(t)
  BY <1>1, <1>5 DEF LastWake, Die, WildProgram
<1>6. CASE Pause(t)
  BY <1>1, <1>6 DEF Pause, TakeProgram
<1>7. CASE PauseWake(t)
  BY <1>1, <1>7 DEF PauseWake, TakeProgram
<1>8. CASE JoinTapeInstr(t)
  BY <1>1, <1>8 DEF JoinTapeInstr
<1>9. CASE Restart(t)
  BY <1>1, <1>9 DEF Restart
<1>10. CASE RunTapeInstr(t)
  BY <1>1, <1>10 DEF RunTapeInstr, run_tape, run_tape_throws
<1> QED
  BY <1>2, <1>3, <1>4, <1>5, <1>6, <1>7, <1>8, <1>9, <1>10 DEF OnlineStep

\* Every step keeps the loop indices within the line of the schedule.
LEMMA LoopsStep == TypeOK /\ LoopsOK /\ [Next]_vars => LoopsOK'
<1> SUFFICES ASSUME TypeOK, LoopsOK, [Next]_vars PROVE LoopsOK'
  OBVIOUS
<1> USE DEF control, schedule, counters
<1>0. width \in Nat /\ width <= NThreads /\ NThreads \in Nat /\ ci \in Threads /\ ci \in Nat
  BY NThreadsAssumption, ThreadNumbers DEF TypeOK, LoopsOK
<1>1. CASE SyncWait \/ SyncWake \/ EndOfSchedule \/ Advance \/ JoinLineWait
              \/ ByeThread
  BY <1>0, <1>1 DEF SyncWait, SyncWake, EndOfSchedule, Advance, JoinLineWait,
              ByeThread, ControlGoes, LoopsOK
<1>2. CASE SyncUnlock \/ StopThread \/ DestroyThread
  <2>1. cpc' \in {"sync", "load", "stop", "bye", "exit"}
    BY <1>0, <1>2, NextIndexMoves DEF SyncUnlock, StopThread, DestroyThread
  <2> QED
    BY <1>2, <2>1 DEF SyncUnlock, StopThread, DestroyThread, LoopsOK
<1>3. CASE StartLine /\ ~aborted
  <2>1. Len(sch.Sch[line + 1]) \in 1 .. sch.nthreads /\ sch.nthreads \in Nat
    BY <1>3, ScheduleLine, ScheduleFields DEF StartLine, TypeOK
  <2> QED
    BY <1>0, <1>3, <2>1 DEF StartLine, ControlGoes, LoopsOK
<1>4. CASE DispatchTape
  <2> DEFINE e == sch.Sch[line + 1][ci + 1]
  <2>1. CASE run_tape(ci, e.tape, e.arg) /\ NextIndex(width, "dispatch", "advance")
    <3>1. \/ cpc' = "dispatch" /\ ci' = ci + 1 /\ ci' < width
          \/ cpc' = "advance" /\ ci' = 0 /\ ci + 1 >= width
      BY <1>0, <2>1, NextIndexMoves
    <3>2. UNCHANGED <<width, sch, line, aborted>> /\ cpc = "dispatch"
      BY <1>4, <2>1 DEF DispatchTape, run_tape
    <3> QED
      BY <1>0, <3>1, <3>2 DEF LoopsOK
  <2>2. CASE run_tape_throws(ci, e.tape) /\ UNCHANGED <<cpc, ci, issued>>
    BY <1>4, <2>2 DEF DispatchTape, run_tape_throws, LoopsOK
  <2> QED
    BY <1>4, <2>1, <2>2 DEF DispatchTape
<1>5. CASE JoinLine \/ JoinLineWake
  <2>1. \/ cpc' = "join" /\ ci' = ci + 1 /\ ci' < width
        \/ cpc' = "load" /\ ci' = 0
    BY <1>0, <1>5, NextIndexMoves DEF JoinLine, JoinLineWake
  <2> QED
    BY <1>5, <2>1 DEF JoinLine, JoinLineWake, LoopsOK
<1>6. CASE SpuriousSync \/ Spurious \/ UNCHANGED vars
  BY <1>6 DEF SpuriousSync, Spurious, vars, LoopsOK
<1>7. ASSUME NEW t \in Threads, OnlineStep(t) PROVE LoopsOK'
  <2>1. UNCHANGED <<cpc, ci, width>>
    BY <1>7, OnlineFrame
  <2>2. CASE UNCHANGED <<sch, line, issued>> /\ aborted' \in {aborted, TRUE}
    BY <2>1, <2>2 DEF LoopsOK
  <2>3. CASE Restart(t)
    <3>1. sch' \in Schedules /\ aborted' = (NThreads < sch'.nthreads)
      BY <2>3 DEF Restart
    <3>2. sch'.nthreads \in Nat
      BY <3>1, ScheduleFields
    <3>3. cpc \in {"advance", "join", "joinwait"}
      BY <2>3 DEF Restart
    <3>4. aborted' \/ sch'.nthreads <= NThreads
      <4>1. CASE NThreads < sch'.nthreads
        BY <3>1, <4>1, Zenon
      <4>2. CASE ~(NThreads < sch'.nthreads)
        BY <1>0, <3>2, <4>2
      <4> QED
        BY <4>1, <4>2
    <3> QED
      BY <1>0, <2>1, <3>3, <3>4 DEF LoopsOK
  <2> QED
    BY <1>7, <2>2, <2>3, OnlineFrame
<1> QED
  BY <1>1, <1>2, <1>3, <1>4, <1>5, <1>6, <1>7 DEF Next, ControlStep

---------------------------------------------------------------------------
(* Every variable keeps its type: for every number of threads, every set   *)
(* of schedules, with waits that return early or not and with tapes that   *)
(* join what they ran or do not.                                           *)
THEOREM TypeCorrect == Spec => []TypeOK
<1>1. TypeOK /\ LoopsOK /\ [Next]_vars => (TypeOK /\ LoopsOK)'
  BY TypeStep, LoopsStep
<1> QED
  BY TypeInit, <1>1, PTL DEF Spec

---------------------------------------------------------------------------
(* Start-up.                                                               *)

\* No step of an online thread leads to its first point, and it sets no
\* other thread's ready.
LEMMA StartFrame ==
    ASSUME TypeOK, NEW t \in Threads, OnlineStep(t)
    PROVE  /\ opc'[t] # "start"
           /\ \A u \in Threads \ {t} : OTI'[u].ready = OTI[u].ready
<1> USE DEF OnlineGoes, OTIType
<1>1. opc \in [Threads -> OnlinePoints] /\ OTI \in [Threads -> OTIType]
  BY DEF TypeOK
<1>2. CASE SignalReady(t) \/ FetchArg(t)
  BY <1>1, <1>2 DEF SignalReady, FetchArg
<1>3. CASE JoinTapeWake(t) \/ LoadSchedule(t) \/ FinishTape(t)
  BY <1>1, <1>3 DEF JoinTapeWake, LoadSchedule, FinishTape
<1>4. CASE LastCheck(t)
  BY <1>1, <1>4 DEF LastCheck
<1>5. CASE LastWake(t) \/ Die(t) \/ WildProgram(t)
  BY <1>1, <1>5 DEF LastWake, Die, WildProgram
<1>6. CASE Pause(t)
  BY <1>1, <1>6 DEF Pause, TakeProgram
<1>7. CASE PauseWake(t)
  BY <1>1, <1>7 DEF PauseWake, TakeProgram
<1>8. CASE JoinTapeInstr(t)
  BY <1>1, <1>8 DEF JoinTapeInstr
<1>9. CASE Restart(t)
  BY <1>1, <1>9 DEF Restart
<1>10. CASE RunTapeInstr(t)
  BY <1>1, <1>10 DEF RunTapeInstr, run_tape, run_tape_throws
<1> QED
  BY <1>2, <1>3, <1>4, <1>5, <1>6, <1>7, <1>8, <1>9, <1>10 DEF OnlineStep

\* Synchronize is in order at the start.
LEMMA SyncInit == Init => SyncOK
BY ThreadNumbers DEF Init, Init_OTI, SyncOK

\* Every step keeps Synchronize in order.
LEMMA SyncStep == TypeOK /\ LoopsOK /\ SyncOK /\ [Next]_vars => SyncOK'
<1> SUFFICES ASSUME TypeOK, LoopsOK, SyncOK, [Next]_vars PROVE SyncOK'
  OBVIOUS
<1> USE DEF control, schedule, counters
<1>0. width \in Nat /\ width <= NThreads /\ NThreads \in Nat /\ ci \in Threads /\ ci \in Nat
  BY NThreadsAssumption, ThreadNumbers DEF TypeOK, LoopsOK
<1>1. CASE SyncWait \/ SyncWake
  BY <1>1 DEF SyncWait, SyncWake, SyncOK
<1>2. CASE SyncUnlock
  <2>1. \/ cpc' = "sync" /\ ci' = ci + 1
        \/ cpc' = "load" /\ ci + 1 >= NThreads
    BY <1>0, <1>2, NextIndexMoves DEF SyncUnlock
  <2>2. OTI[ci].ready /\ cpc = "sync" /\ UNCHANGED <<OTI, opc>>
    BY <1>2 DEF SyncUnlock
  <2>3. \A t \in Threads : t < ci + 1 => opc[t] # "start"
    BY <1>0, <2>2, ThreadNumbers DEF SyncOK
  <2> QED
    BY <1>0, <2>1, <2>2, <2>3, ThreadNumbers DEF SyncOK
<1>3. CASE EndOfSchedule \/ StartLine \/ Advance \/ JoinLineWait \/ ByeThread
  BY <1>3 DEF EndOfSchedule, StartLine, Advance, JoinLineWait, ByeThread,
              ControlGoes, SyncOK
<1>4. CASE DispatchTape
  BY <1>4 DEF DispatchTape, NextIndex, ControlGoes, SyncOK
<1>5. CASE JoinLine \/ JoinLineWake \/ StopThread \/ DestroyThread
  BY <1>5 DEF JoinLine, JoinLineWake, StopThread, DestroyThread, NextIndex,
              ControlGoes, SyncOK
<1>6. CASE SpuriousSync \/ Spurious \/ UNCHANGED vars
  BY <1>6 DEF SpuriousSync, Spurious, vars, SyncOK
<1>7. ASSUME NEW t \in Threads, OnlineStep(t) PROVE SyncOK'
  BY <1>7, OnlineFrame, StartFrame DEF SyncOK
<1> QED
  BY <1>1, <1>2, <1>3, <1>4, <1>5, <1>6, <1>7 DEF Next, ControlStep

(* Synchronize: no thread is short of being ready once the control thread  *)
(* has left it, even if the waits in it return without a signal.           *)
THEOREM StartSynchronized == Spec => []SynchronizedStart
<1>1. TypeOK /\ LoopsOK /\ SyncOK /\ [Next]_vars => (TypeOK /\ LoopsOK /\ SyncOK)'
  BY TypeStep, LoopsStep, SyncStep
<1>2. SyncOK => SynchronizedStart
  BY DEF SyncOK, SynchronizedStart
<1> QED
  BY TypeInit, SyncInit, <1>1, <1>2, PTL DEF Spec

---------------------------------------------------------------------------
(* Tapes.                                                                  *)

\* What the invariant says of a thread that is not to be joined, and of the
\* first thread while none is.
LEMMA NotHanded ==
    ASSUME TypeOK, IInv
    PROVE  /\ \A t \in Threads \ unjoined :
                 /\ opc[t] \notin {"fetch", "exec", "joining", "reload", "ending"}
                 /\ OTI[t].prognum \in {-1, -2}
           /\ \A t \in Threads : OTI[t].finished =>
                 /\ opc[t] \notin {"fetch", "exec", "joining", "reload", "ending"}
                 /\ OTI[t].prognum \in {-1, -2}
<1>1. \A t \in Threads : OTI[t].prognum \in {-2, -1} \cup Nat
  BY DEF TypeOK, OTIType
<1>2. \A t \in Threads : ~Handed(t) =>
          /\ opc[t] \notin {"fetch", "exec", "joining", "reload", "ending"}
          /\ OTI[t].prognum \in {-1, -2}
  BY <1>1 DEF Handed, Busy
<1>3. \A t \in Threads : Handed(t) => ~OTI[t].finished /\ t \in unjoined
  BY DEF IInv, TapeInv, TapesOK
<1> QED
  BY <1>2, <1>3

\* The tapes and their joins are in order at the start.
LEMMA TapeInit == Init => TapeInv
<1> SUFFICES ASSUME Init PROVE TapeInv
  OBVIOUS
<1> USE ThreadNumbers DEF Init, Init_OTI
<1>1. TapesOK
  BY DEF TapesOK, Handed, Busy
<1>2. UnjoinedOK
  BY DEF UnjoinedOK
<1>3. JoinersOK
  BY DEF JoinersOK
<1>4. PausesOK
  BY DEF PausesOK, Stopped
<1>5. RestartOK
  BY DEF RestartOK
<1> QED
  BY <1>1, <1>2, <1>3, <1>4, <1>5 DEF TapeInv

\* The steps of the control thread.
LEMMA TapeControlStep ==
    ASSUME TypeOK, IInv, ControlStep, ~aborted, Disciplined
    PROVE  TapeInv'
<1> USE DEF schedule, counters
<1>0. /\ width \in Nat /\ width <= NThreads /\ NThreads \in Nat
      /\ ci \in Threads /\ ci \in Nat
  BY NThreadsAssumption, ThreadNumbers DEF TypeOK, LoopsOK, IInv
<1>a. TapesOK /\ UnjoinedOK /\ JoinersOK /\ PausesOK /\ RestartOK /\ SyncOK /\ LoopsOK
  BY DEF IInv, TapeInv
<1>b. /\ OTI \in [Threads -> OTIType] /\ sleepO \in [Threads -> SUBSET Callers]
      /\ opc \in [Threads -> OnlinePoints]
  BY DEF TypeOK
<1>c. unjoined = {} => opc[0] \notin {"fetch", "exec", "joining", "reload", "ending"}
  BY ThreadNumbers, NotHanded
<1>1. CASE SyncWait \/ SyncWake
  <2>11. TapesOK'
    BY <1>a, <1>b, <1>c, <1>1, ThreadNumbers DEF SyncWait, SyncWake, control, TapesOK, Handed, Busy
  <2>12. UnjoinedOK'
    BY <1>a, <1>b, <1>c, <1>1, ThreadNumbers DEF SyncWait, SyncWake, control, UnjoinedOK, LineThreads
  <2>13. JoinersOK'
    BY <1>a, <1>c, <1>1 DEF SyncWait, SyncWake, control, UnjoinedOK, JoinersOK, LineThreads
  <2>14. PausesOK'
    BY <1>a, <1>b, <1>c, <1>1, ThreadNumbers DEF SyncWait, SyncWake, control, PausesOK, Stopped
  <2>15. RestartOK'
    BY <1>a, <1>b, <1>c, <1>1, ThreadNumbers DEF SyncWait, SyncWake, control, RestartOK
  <2> QED
    BY <2>11, <2>12, <2>13, <2>14, <2>15 DEF TapeInv
<1>2. CASE SyncUnlock
  <2>1. cpc' \in {"sync", "load"}
    BY <1>0, <1>2, NextIndexMoves DEF SyncUnlock
  <2>11. TapesOK'
    BY <1>a, <1>b, <1>2, <2>1 DEF SyncUnlock, TapesOK, Handed, Busy
  <2>12. UnjoinedOK'
    BY <1>a, <1>b, <1>2, <2>1 DEF SyncUnlock, UnjoinedOK, LineThreads
  <2>13. JoinersOK'
    BY <1>a, <1>b, <1>2, <2>1 DEF SyncUnlock, JoinersOK, LineThreads
  <2>14. PausesOK'
    BY <1>a, <1>b, <1>2, <2>1 DEF SyncUnlock, PausesOK, Stopped
  <2>15. RestartOK'
    BY <1>a, <1>b, <1>2, <2>1 DEF SyncUnlock, RestartOK
  <2> QED
    BY <2>11, <2>12, <2>13, <2>14, <2>15 DEF TapeInv
<1>3. CASE EndOfSchedule
  <2>11. TapesOK'
    BY <1>a, <1>b, <1>3, ThreadNumbers, NotHanded DEF EndOfSchedule, ControlGoes, TapesOK, Handed, Busy
  <2>12. UnjoinedOK'
    BY <1>a, <1>b, <1>3, ThreadNumbers, NotHanded DEF EndOfSchedule, ControlGoes, UnjoinedOK, LineThreads
  <2>13. JoinersOK'
    BY <1>a, <1>b, <1>3, ThreadNumbers, NotHanded DEF EndOfSchedule, ControlGoes, JoinersOK, LineThreads
  <2>14. PausesOK'
    BY <1>a, <1>b, <1>3, ThreadNumbers, NotHanded DEF EndOfSchedule, ControlGoes, PausesOK, Stopped
  <2>15. RestartOK'
    BY <1>a, <1>b, <1>3, ThreadNumbers, NotHanded DEF EndOfSchedule, ControlGoes, RestartOK
  <2> QED
    BY <2>11, <2>12, <2>13, <2>14, <2>15 DEF TapeInv
<1>4. CASE StartLine
  <2>11. TapesOK'
    BY <1>a, <1>b, <1>4, ThreadNumbers, NotHanded DEF StartLine, ControlGoes, TapesOK, Handed, Busy
  <2>12. UnjoinedOK'
    BY <1>a, <1>b, <1>4, ThreadNumbers, NotHanded DEF StartLine, ControlGoes, UnjoinedOK, LineThreads
  <2>13. JoinersOK'
    BY <1>a, <1>c, <1>4 DEF StartLine, ControlGoes, UnjoinedOK, JoinersOK, LineThreads
  <2>14. PausesOK'
    BY <1>a, <1>b, <1>4, ThreadNumbers, NotHanded DEF StartLine, ControlGoes, PausesOK, Stopped
  <2>15. RestartOK'
    BY <1>a, <1>b, <1>4, ThreadNumbers, NotHanded DEF StartLine, ControlGoes, RestartOK
  <2> QED
    BY <2>11, <2>12, <2>13, <2>14, <2>15 DEF TapeInv
<1>5. CASE DispatchTape
  <2> DEFINE e == sch.Sch[line + 1][ci + 1]
  <2>1. CASE /\ run_tape(ci, e.tape, e.arg) /\ NextIndex(width, "dispatch", "advance")
             /\ issued' = issued + 1
    <3>1. \/ cpc' = "dispatch" /\ ci' = ci + 1 /\ ci' < width
          \/ cpc' = "advance" /\ ci' = 0 /\ ci + 1 >= width
      BY <1>0, <2>1, NextIndexMoves
    <3>2. e.tape \in Nat /\ e.arg \in Args
      BY <1>0, <1>5, ThreadNumbers, ScheduleEntry DEF DispatchTape, TypeOK, LoopsOK, IInv, Entry
    <3>3. /\ cpc = "dispatch" /\ ci < width /\ ci \notin unjoined
          /\ line < Len(sch.Sch) /\ width = Len(sch.Sch[line + 1]) /\ issued = ci
      BY <1>0, <1>5, <1>a DEF DispatchTape, UnjoinedOK, LoopsOK, RestartOK, LineThreads
    <3>4. /\ OTI' = [OTI EXCEPT ![ci].prognum = e.tape, ![ci].arg = e.arg,
                                ![ci].finished = FALSE]
          /\ sleepM' = sleepM \ {ci} /\ unjoined' = unjoined \cup {ci}
          /\ UNCHANGED <<online_mutex, sleepO, destroyed, width, sch, line, progs,
                         opc, cur, target, counters, aborted>>
          /\ issued' = issued + 1
      BY <1>5, <2>1 DEF DispatchTape, run_tape, SignalMachineReady
    <3>5. opc[ci] \notin {"fetch", "exec", "joining", "reload", "ending"}
      BY <1>0, <3>3, NotHanded
    <3>6. opc[0] = "joining" => target \in Threads /\ target # ci
      BY <1>0, <1>a, <3>3 DEF JoinersOK, LineThreads, TypeOK
    <3>11. TapesOK'
      <4>1. /\ ci \in Threads /\ ci \in unjoined' /\ unjoined \subseteq unjoined'
            /\ OTI'[ci].prognum = e.tape /\ ~OTI'[ci].finished /\ opc'[ci] \notin Busy
        BY <1>0, <3>3, <3>4, <3>5 DEF Busy, TypeOK, OTIType
      <4>2. \A t \in Threads \ {ci} : OTI'[t] = OTI[t]
        BY <1>0, <3>4 DEF TypeOK
      <4>3. \A t \in Threads : Handed(t)' => ~OTI'[t].finished /\ t \in unjoined'
        BY <1>a, <3>4, <4>1, <4>2 DEF TapesOK, Handed
      <4>4. \A t \in Threads : ~(opc'[t] \in Busy /\ OTI'[t].prognum >= 0)
        BY <1>a, <3>4, <4>1, <4>2 DEF TapesOK
      <4>5. \A t \in Threads : opc'[t] \in {"joining", "reload", "ending"} => t = 0
        BY <1>a, <3>4 DEF TapesOK
      <4> QED
        BY <4>3, <4>4, <4>5 DEF TapesOK
    <3>12. UnjoinedOK'
      BY <1>0, <1>a, <1>b, <3>1, <3>2, <3>3, <3>4, <3>5, <3>6, SMTT(30) DEF UnjoinedOK, LineThreads
    <3>13. JoinersOK'
      BY <1>0, <1>a, <1>b, <3>1, <3>2, <3>3, <3>4, <3>5, <3>6 DEF JoinersOK, LineThreads
    <3>14. PausesOK'
      <4>1. \A t \in Threads : opc'[t] = "paused" /\ t \notin sleepM' => OTI'[t].prognum # -2
        <5>1. ci \in Threads /\ OTI'[ci].prognum = e.tape /\ e.tape # -2
          BY <1>0, <3>2, <3>4 DEF TypeOK, OTIType
        <5>2. \A t \in Threads \ {ci} : OTI'[t] = OTI[t] /\ (t \in sleepM' <=> t \in sleepM)
          BY <1>0, <3>4 DEF TypeOK
        <5> QED
          BY <1>a, <3>4, <5>1, <5>2 DEF PausesOK
      <4>2. \A t \in Threads : ~Stopped(t)'
        BY <3>1 DEF Stopped
      <4>3. \A t \in Threads : opc'[t] # "wild"
        BY <1>a, <3>4 DEF PausesOK
      <4> QED
        BY <4>1, <4>2, <4>3 DEF PausesOK
    <3>15. RestartOK'
      BY <1>0, <1>a, <1>b, <3>1, <3>2, <3>3, <3>4, <3>5, <3>6 DEF RestartOK
    <3> QED
      BY <3>11, <3>12, <3>13, <3>14, <3>15 DEF TapeInv
  <2>2. CASE run_tape_throws(ci, e.tape) /\ UNCHANGED <<cpc, ci, issued>>
    <3>1. UNCHANGED <<OTI, sleepM, sleepO, opc, target, unjoined, cpc, ci, width,
                      sch, line, issued>>
      BY <1>5, <2>2 DEF DispatchTape, run_tape_throws
    <3> QED
      BY <1>a, <3>1 DEF TapeInv, TapesOK, UnjoinedOK, JoinersOK, PausesOK, RestartOK,
                        Handed, LineThreads, Stopped
  <2> QED
    BY <1>5, <2>1, <2>2 DEF DispatchTape
<1>6. CASE Advance
  <2>11. TapesOK'
    BY <1>a, <1>b, <1>6, <1>0 DEF Advance, ControlGoes, TapesOK, Handed, Busy
  <2>12. UnjoinedOK'
    BY <1>a, <1>b, <1>6, <1>0 DEF Advance, ControlGoes, UnjoinedOK, LineThreads
  <2>13. JoinersOK'
    BY <1>a, <1>b, <1>6, <1>0 DEF Advance, ControlGoes, JoinersOK, LineThreads
  <2>14. PausesOK'
    BY <1>a, <1>b, <1>6, <1>0 DEF Advance, ControlGoes, PausesOK, Stopped
  <2>15. RestartOK'
    BY <1>a, <1>b, <1>6, <1>0 DEF Advance, ControlGoes, RestartOK
  <2> QED
    BY <2>11, <2>12, <2>13, <2>14, <2>15 DEF TapeInv
<1>7. CASE JoinLine \/ JoinLineWake
  <2>1. \/ cpc' = "join" /\ ci' = ci + 1 /\ ci' < width
        \/ cpc' = "load" /\ ci' = 0 /\ ci + 1 >= width
    BY <1>0, <1>7, NextIndexMoves DEF JoinLine, JoinLineWake
  <2>2. /\ cpc \in {"join", "joinwait"} /\ ci < width /\ OTI[ci].finished
    BY <1>7, <1>a DEF JoinLine, JoinLineWake, JoinersOK, LoopsOK
  <2>3. /\ unjoined' = unjoined \ {ci}
        /\ UNCHANGED <<OTI, sleepM, sleepO, width, sch, line, issued, opc, target>>
    BY <1>7 DEF JoinLine, JoinLineWake
  <2>4. /\ opc[ci] \notin {"fetch", "exec", "joining", "reload", "ending"}
        /\ OTI[ci].prognum \in {-1, -2}
    BY <1>0, <2>2, NotHanded
  <2>5. ci \in LineThreads /\ ci \in unjoined
    BY <1>0, <1>a, <2>2 DEF LineThreads, UnjoinedOK
  <2>6. opc[0] # "reload"
    BY <1>a, <2>4, <2>5 DEF RestartOK
  <2>7. ci + 1 >= width => unjoined \subseteq LineThreads
    <3>1. CASE opc[0] \in {"exec", "joining"}
      <4>1. 0 \in unjoined
        BY <1>a, <3>1, ThreadNumbers DEF TapesOK, Handed, Busy
      <4>2. ci = 0
        BY <1>0, <1>a, <2>2, <4>1 DEF UnjoinedOK, LineThreads
      <4> QED
        BY <2>4, <3>1, <4>2
    <3>2. CASE opc[0] \notin {"exec", "joining"}
      BY <1>a, <3>2 DEF UnjoinedOK
    <3> QED
      BY <3>1, <3>2
  <2>11. TapesOK'
    BY <1>0, <1>a, <1>b, <2>1, <2>2, <2>3, <2>4, <2>5, <2>6, <2>7 DEF TapesOK, Handed, Busy
  <2>12. UnjoinedOK'
    BY <1>0, <1>a, <1>b, <2>1, <2>2, <2>3, <2>4, <2>5, <2>6, <2>7 DEF UnjoinedOK, LineThreads
  <2>13. JoinersOK'
    BY <1>0, <1>a, <1>b, <2>1, <2>2, <2>3, <2>4, <2>5, <2>6, <2>7 DEF JoinersOK, LineThreads
  <2>14. PausesOK'
    BY <1>0, <1>a, <1>b, <2>1, <2>2, <2>3, <2>4, <2>5, <2>6, <2>7 DEF PausesOK, Stopped
  <2>15. RestartOK'
    BY <1>0, <1>a, <1>b, <2>1, <2>2, <2>3, <2>4, <2>5, <2>6, <2>7 DEF RestartOK
  <2> QED
    BY <2>11, <2>12, <2>13, <2>14, <2>15 DEF TapeInv
<1>8. CASE JoinLineWait
  <2>11. TapesOK'
    BY <1>0, <1>a, <1>b, <1>8, ThreadNumbers DEF JoinLineWait, ControlGoes, TapesOK, Handed, Busy
  <2>12. UnjoinedOK'
    BY <1>0, <1>a, <1>b, <1>8, ThreadNumbers DEF JoinLineWait, ControlGoes, UnjoinedOK, LineThreads
  <2>13. JoinersOK'
    BY <1>0, <1>a, <1>b, <1>8, ThreadNumbers DEF JoinLineWait, ControlGoes, JoinersOK, LineThreads
  <2>14. PausesOK'
    BY <1>0, <1>a, <1>b, <1>8, ThreadNumbers DEF JoinLineWait, ControlGoes, PausesOK, Stopped
  <2>15. RestartOK'
    BY <1>0, <1>a, <1>b, <1>8, ThreadNumbers DEF JoinLineWait, ControlGoes, RestartOK
  <2> QED
    BY <2>11, <2>12, <2>13, <2>14, <2>15 DEF TapeInv
<1>9. CASE StopThread
  <2>1. \/ cpc' = "stop" /\ ci' = ci + 1
        \/ cpc' = "bye" /\ ci' = 0 /\ ci + 1 >= NThreads
    BY <1>0, <1>9, NextIndexMoves DEF StopThread
  <2>2. /\ cpc = "stop" /\ unjoined = {}
        /\ OTI' = [OTI EXCEPT ![ci].ready = FALSE, ![ci].prognum = -1]
        /\ sleepM' = sleepM \ {ci}
        /\ UNCHANGED <<sleepO, width, sch, line, issued, opc, target, unjoined>>
    BY <1>9, <1>a DEF StopThread, SignalMachineReady, UnjoinedOK
  <2>3. \A t \in Threads : opc[t] \in {"pause", "paused", "last", "lastwait", "dying", "done"}
    BY <1>a, <1>b, <2>2, NotHanded DEF SyncOK, PausesOK, OnlinePoints
  <2>11. TapesOK'
    BY <1>0, <1>a, <1>b, <2>1, <2>2, <2>3, ThreadNumbers DEF TapesOK, Handed, Busy
  <2>12. UnjoinedOK'
    BY <1>0, <1>a, <1>b, <2>1, <2>2, <2>3, ThreadNumbers DEF UnjoinedOK, LineThreads
  <2>13. JoinersOK'
    BY <1>0, <1>a, <1>b, <2>1, <2>2, <2>3, ThreadNumbers DEF JoinersOK, LineThreads
  <2>14. PausesOK'
    BY <1>0, <1>a, <1>b, <2>1, <2>2, <2>3, ThreadNumbers DEF PausesOK, Stopped
  <2>15. RestartOK'
    BY <1>0, <1>a, <1>b, <2>1, <2>2, <2>3, ThreadNumbers DEF RestartOK
  <2> QED
    BY <2>11, <2>12, <2>13, <2>14, <2>15 DEF TapeInv
<1>10. CASE ByeThread
  <2>11. TapesOK'
    BY <1>0, <1>a, <1>b, <1>10 DEF ByeThread, ControlGoes, SignalMachineReady, TapesOK, Handed, Busy
  <2>12. UnjoinedOK'
    BY <1>0, <1>a, <1>b, <1>10 DEF ByeThread, ControlGoes, SignalMachineReady, UnjoinedOK, LineThreads
  <2>13. JoinersOK'
    BY <1>0, <1>a, <1>b, <1>10 DEF ByeThread, ControlGoes, SignalMachineReady, JoinersOK, LineThreads
  <2>14. PausesOK'
    BY <1>0, <1>a, <1>b, <1>10 DEF ByeThread, ControlGoes, SignalMachineReady, PausesOK, Stopped
  <2>15. RestartOK'
    BY <1>0, <1>a, <1>b, <1>10 DEF ByeThread, ControlGoes, SignalMachineReady, RestartOK
  <2> QED
    BY <2>11, <2>12, <2>13, <2>14, <2>15 DEF TapeInv
<1>11. CASE DestroyThread
  <2>1. cpc' \in {"bye", "exit"}
    BY <1>0, <1>11, NextIndexMoves DEF DestroyThread
  <2>11. TapesOK'
    BY <1>0, <1>a, <1>b, <1>11, <2>1 DEF DestroyThread, TapesOK, Handed, Busy
  <2>12. UnjoinedOK'
    BY <1>0, <1>a, <1>b, <1>11, <2>1 DEF DestroyThread, UnjoinedOK, LineThreads
  <2>13. JoinersOK'
    BY <1>0, <1>a, <1>b, <1>11, <2>1 DEF DestroyThread, JoinersOK, LineThreads
  <2>14. PausesOK'
    BY <1>0, <1>a, <1>b, <1>11, <2>1 DEF DestroyThread, PausesOK, Stopped
  <2>15. RestartOK'
    BY <1>0, <1>a, <1>b, <1>11, <2>1 DEF DestroyThread, RestartOK
  <2> QED
    BY <2>11, <2>12, <2>13, <2>14, <2>15 DEF TapeInv
<1> QED
  BY <1>1, <1>2, <1>3, <1>4, <1>5, <1>6, <1>7, <1>8, <1>9, <1>10, <1>11 DEF ControlStep
\* The steps of an online thread.
LEMMA TapeOnlineStep ==
    ASSUME TypeOK, IInv, NEW t \in Threads, OnlineStep(t), Disciplined
    PROVE  TapeInv'
<1>0. /\ width \in Nat /\ width <= NThreads /\ NThreads \in Nat
      /\ ci \in Threads /\ ci \in Nat
  BY NThreadsAssumption, ThreadNumbers DEF TypeOK, LoopsOK, IInv
<1>a. TapesOK /\ UnjoinedOK /\ JoinersOK /\ PausesOK /\ RestartOK /\ SyncOK /\ LoopsOK
  BY DEF IInv, TapeInv
<1>b. /\ OTI \in [Threads -> OTIType] /\ sleepO \in [Threads -> SUBSET Callers]
      /\ opc \in [Threads -> OnlinePoints]
      /\ \A u \in Threads : OTI[u].prognum \in {-1, -2} \cup Nat
  BY DEF TypeOK, OTIType
<1>c. UNCHANGED <<cpc, ci, width>>
  BY OnlineFrame DEF control
<1>d. 0 \in Threads /\ Control \notin Threads /\ target \in Threads
  BY ThreadNumbers DEF TypeOK
<1> USE DEF schedule, counters
<1>1. CASE SignalReady(t)
  <2>1. /\ cpc = "sync" /\ unjoined = {}
        /\ opc[0] \notin {"fetch", "exec", "joining", "reload", "ending"}
    BY <1>1, <1>a, <1>d, NotHanded DEF SignalReady, SyncOK, UnjoinedOK
  <2>11. TapesOK'
    BY <1>0, <1>a, <1>b, <1>c, <1>d, <1>1, <2>1 DEF SignalReady, OnlineGoes, TapesOK, Handed, Busy
  <2>12. UnjoinedOK'
    BY <1>0, <1>a, <1>b, <1>c, <1>d, <1>1, <2>1 DEF SignalReady, OnlineGoes, UnjoinedOK, LineThreads
  <2>13. JoinersOK'
    BY <1>0, <1>a, <1>b, <1>c, <1>d, <1>1, <2>1 DEF SignalReady, OnlineGoes, JoinersOK, LineThreads
  <2>14. PausesOK'
    BY <1>0, <1>a, <1>b, <1>c, <1>d, <1>1, <2>1 DEF SignalReady, OnlineGoes, PausesOK, Stopped
  <2>15. RestartOK'
    BY <1>0, <1>a, <1>b, <1>c, <1>d, <1>1, <2>1 DEF SignalReady, OnlineGoes, RestartOK
  <2> QED
    BY <2>11, <2>12, <2>13, <2>14, <2>15 DEF TapeInv
<1>2. CASE (Pause(t) /\ TakeProgram(t) /\ OTI[t].prognum # -2 /\ UNCHANGED sleepM)
              \/ PauseWake(t)
  <2>1. /\ UNCHANGED <<sleepM, sleepO, sch, line, issued, target, unjoined>>
        /\ OTI[t].prognum # -2 /\ opc[t] \in {"pause", "paused"}
    BY <1>2, <1>a DEF Pause, PauseWake, PausesOK
  <2>2. OTI' = [OTI EXCEPT ![t].prognum = -2]
    BY <1>2 DEF PauseWake, TakeProgram
  <2>3. OTI[t].prognum = -1 => opc' = [opc EXCEPT ![t] = "last"]
    BY <1>2 DEF PauseWake, TakeProgram, OnlineGoes
  <2>4. OTI[t].prognum >= 0 => opc' = [opc EXCEPT ![t] = "fetch"]
    BY <1>2, <1>b DEF PauseWake, TakeProgram, OnlineGoes
  <2>11. TapesOK'
    BY <1>0, <1>a, <1>b, <1>c, <1>d, <2>1, <2>2, <2>3, <2>4 DEF TapesOK, Handed, Busy
  <2>12. UnjoinedOK'
    BY <1>0, <1>a, <1>b, <1>c, <1>d, <2>1, <2>2, <2>3, <2>4 DEF UnjoinedOK, LineThreads
  <2>13. JoinersOK'
    BY <1>0, <1>a, <1>b, <1>c, <1>d, <2>1, <2>2, <2>3, <2>4 DEF JoinersOK, LineThreads
  <2>14. PausesOK'
    BY <1>0, <1>a, <1>b, <1>c, <1>d, <2>1, <2>2, <2>3, <2>4 DEF PausesOK, Stopped
  <2>15. RestartOK'
    BY <1>0, <1>a, <1>b, <1>c, <1>d, <2>1, <2>2, <2>3, <2>4 DEF RestartOK
  <2> QED
    BY <2>11, <2>12, <2>13, <2>14, <2>15 DEF TapeInv
<1>3. CASE /\ Pause(t) /\ OTI[t].prognum = -2 /\ UNCHANGED <<OTI, cur>>
           /\ sleepM' = sleepM \cup {t} /\ OnlineGoes(t, "paused")
  <2>11. TapesOK'
    BY <1>0, <1>a, <1>b, <1>c, <1>d, <1>3 DEF Pause, OnlineGoes, TapesOK, Handed, Busy
  <2>12. UnjoinedOK'
    BY <1>0, <1>a, <1>b, <1>c, <1>d, <1>3 DEF Pause, OnlineGoes, UnjoinedOK, LineThreads
  <2>13. JoinersOK'
    BY <1>0, <1>a, <1>b, <1>c, <1>d, <1>3 DEF Pause, OnlineGoes, JoinersOK, LineThreads
  <2>14. PausesOK'
    BY <1>0, <1>a, <1>b, <1>c, <1>d, <1>3 DEF Pause, OnlineGoes, PausesOK, Stopped
  <2>15. RestartOK'
    BY <1>0, <1>a, <1>b, <1>c, <1>d, <1>3 DEF Pause, OnlineGoes, RestartOK
  <2> QED
    BY <2>11, <2>12, <2>13, <2>14, <2>15 DEF TapeInv
<1>4. CASE FetchArg(t)
  <2>11. TapesOK'
    BY <1>0, <1>a, <1>b, <1>c, <1>d, <1>4 DEF FetchArg, OnlineGoes, TapesOK, Handed, Busy
  <2>12. UnjoinedOK'
    BY <1>0, <1>a, <1>b, <1>c, <1>d, <1>4 DEF FetchArg, OnlineGoes, UnjoinedOK, LineThreads
  <2>13. JoinersOK'
    BY <1>0, <1>a, <1>b, <1>c, <1>d, <1>4 DEF FetchArg, OnlineGoes, JoinersOK, LineThreads
  <2>14. PausesOK'
    BY <1>0, <1>a, <1>b, <1>c, <1>d, <1>4 DEF FetchArg, OnlineGoes, PausesOK, Stopped
  <2>15. RestartOK'
    BY <1>0, <1>a, <1>b, <1>c, <1>d, <1>4 DEF FetchArg, OnlineGoes, RestartOK
  <2> QED
    BY <2>11, <2>12, <2>13, <2>14, <2>15 DEF TapeInv
<1>5. CASE RunTapeInstr(t)
  <2>1. /\ opc[0] = "exec" /\ 0 \in unjoined /\ cpc \notin {"stop", "bye", "destroy", "exit"}
        /\ UNCHANGED <<sleepO, sch, line, issued, opc, target>>
    BY <1>5, <1>a, <1>d DEF RunTapeInstr, TapesOK, Handed, Busy, UnjoinedOK
  <2>2. PICK u \in width .. NThreads, p \in 0 .. progs, a \in Args :
            u \notin unjoined /\ (run_tape(u, p, a) \/ run_tape_throws(u, p))
    BY <1>5 DEF RunTapeInstr
  <2>3. CASE run_tape(u, p, a)
    <3>1. /\ u \in Threads /\ u >= width /\ p \in Nat
          /\ OTI' = [OTI EXCEPT ![u].prognum = p, ![u].arg = a, ![u].finished = FALSE]
          /\ sleepM' = sleepM \ {u} /\ unjoined' = unjoined \cup {u}
      BY <2>3 DEF run_tape, InRange, SignalMachineReady, TypeOK
    <3>2. opc[u] \notin {"fetch", "exec", "joining", "reload", "ending"}
      BY <2>2, <3>1, NotHanded
    <3>3. u \notin LineThreads
      BY <1>0, <3>1 DEF LineThreads
    <3>11. TapesOK'
      BY <1>0, <1>a, <1>b, <1>c, <1>d, <2>1, <2>2, <3>1, <3>2, <3>3 DEF TapesOK, Handed, Busy
    <3>12. UnjoinedOK'
      BY <1>0, <1>a, <1>b, <1>c, <1>d, <2>1, <2>2, <3>1, <3>2, <3>3 DEF UnjoinedOK, LineThreads
    <3>13. JoinersOK'
      BY <1>0, <1>a, <1>b, <1>c, <1>d, <2>1, <3>1, <3>3 DEF LoopsOK, JoinersOK, LineThreads
    <3>14. PausesOK'
      BY <1>0, <1>a, <1>b, <1>c, <1>d, <2>1, <2>2, <3>1, <3>2, <3>3 DEF PausesOK, Stopped
    <3>15. RestartOK'
      BY <1>0, <1>a, <1>b, <1>c, <1>d, <2>1, <2>2, <3>1, <3>2, <3>3 DEF RestartOK
    <3> QED
      BY <3>11, <3>12, <3>13, <3>14, <3>15 DEF TapeInv
  <2>4. CASE run_tape_throws(u, p)
    <3>1. UNCHANGED <<OTI, sleepM, unjoined>>
      BY <2>4 DEF run_tape_throws
    <3> QED
      BY <1>a, <1>c, <2>1, <3>1 DEF TapeInv, TapesOK, UnjoinedOK, JoinersOK, PausesOK,
                                    RestartOK, Handed, LineThreads, Stopped
  <2> QED
    BY <2>2, <2>3, <2>4
<1>6. CASE JoinTapeInstr(t)
  <2>1. t = 0 /\ opc[0] = "exec" /\ UNCHANGED <<OTI, sleepM, sch, line, issued>>
    BY <1>6 DEF JoinTapeInstr
  <2>2. PICK u \in unjoined \ (0 .. width - 1) :
            /\ target' = u
            /\ \/ /\ OTI[u].finished
                  /\ unjoined' = unjoined \ {u} /\ UNCHANGED <<sleepO, opc>>
               \/ /\ sleepO' = [sleepO EXCEPT ![u] = @ \cup {t}]
                  /\ OnlineGoes(t, "joining")
                  /\ UNCHANGED unjoined
    BY <1>6 DEF JoinTapeInstr
  <2>3. u \in Threads
    BY DEF TypeOK
  <2>11. TapesOK'
    BY <1>0, <1>a, <1>b, <1>c, <1>d, <2>1, <2>2, <2>3 DEF OnlineGoes, TapesOK, Handed, Busy
  <2>12. UnjoinedOK'
    BY <1>0, <1>a, <1>b, <1>c, <1>d, <2>1, <2>2, <2>3 DEF OnlineGoes, UnjoinedOK, LineThreads
  <2>13. JoinersOK'
    BY <1>0, <1>a, <1>b, <1>c, <1>d, <2>1, <2>2, <2>3 DEF OnlineGoes, JoinersOK, LineThreads
  <2>14. PausesOK'
    BY <1>0, <1>a, <1>b, <1>c, <1>d, <2>1, <2>2, <2>3 DEF OnlineGoes, PausesOK, Stopped
  <2>15. RestartOK'
    BY <1>0, <1>a, <1>b, <1>c, <1>d, <2>1, <2>2, <2>3 DEF OnlineGoes, RestartOK
  <2> QED
    BY <2>11, <2>12, <2>13, <2>14, <2>15 DEF TapeInv
<1>7. CASE JoinTapeWake(t)
  <2>1. /\ t = 0 /\ opc[0] = "joining" /\ OTI[target].finished
        /\ target \in unjoined \ LineThreads
    BY <1>7, <1>a DEF JoinTapeWake, TapesOK, JoinersOK
  <2>2. /\ unjoined' = unjoined \ {target} /\ opc' = [opc EXCEPT ![0] = "exec"]
        /\ UNCHANGED <<OTI, sleepM, sleepO, sch, line, issued, target>>
    BY <1>7, <2>1 DEF JoinTapeWake, OnlineGoes
  <2>11. TapesOK'
    BY <1>0, <1>a, <1>b, <1>c, <1>d, <2>1, <2>2 DEF OnlineGoes, TapesOK, Handed, Busy
  <2>12. UnjoinedOK'
    BY <1>0, <1>a, <1>b, <1>c, <1>d, <2>1, <2>2 DEF OnlineGoes, UnjoinedOK, LineThreads
  <2>13. JoinersOK'
    BY <1>0, <1>a, <1>b, <1>c, <1>d, <2>1, <2>2 DEF OnlineGoes, JoinersOK, LineThreads
  <2>14. PausesOK'
    BY <1>0, <1>a, <1>b, <1>c, <1>d, <2>1, <2>2 DEF OnlineGoes, PausesOK, Stopped
  <2>15. RestartOK'
    BY <1>0, <1>a, <1>b, <1>c, <1>d, <2>1, <2>2 DEF OnlineGoes, RestartOK
  <2> QED
    BY <2>11, <2>12, <2>13, <2>14, <2>15 DEF TapeInv
<1>8. CASE Restart(t)
  <2>1. /\ t = 0 /\ opc[0] = "exec" /\ unjoined = {0} /\ cpc \in {"join", "joinwait"}
        /\ 0 < width /\ opc' = [opc EXCEPT ![0] = "reload"] /\ issued' = 0
        /\ UNCHANGED <<OTI, sleepM, sleepO, target, unjoined>>
    BY <1>0, <1>8, <1>a DEF Restart, OnlineGoes, Disciplined, LoopsOK
  <2>11. TapesOK'
    BY <1>0, <1>a, <1>b, <1>c, <1>d, <1>8, <2>1 DEF OnlineGoes, TapesOK, Handed, Busy
  <2>12. UnjoinedOK'
    BY <1>0, <1>a, <1>b, <1>c, <1>d, <1>8, <2>1 DEF OnlineGoes, UnjoinedOK, LineThreads
  <2>13. JoinersOK'
    BY <1>0, <1>a, <1>b, <1>c, <1>d, <1>8, <2>1 DEF OnlineGoes, JoinersOK, LineThreads
  <2>14. PausesOK'
    BY <1>0, <1>a, <1>b, <1>c, <1>d, <1>8, <2>1 DEF OnlineGoes, PausesOK, Stopped
  <2>15. RestartOK'
    BY <1>0, <1>a, <1>b, <1>c, <1>d, <1>8, <2>1 DEF OnlineGoes, RestartOK
  <2> QED
    BY <2>11, <2>12, <2>13, <2>14, <2>15 DEF TapeInv
<1>9. CASE LoadSchedule(t)
  <2>11. TapesOK'
    BY <1>0, <1>a, <1>b, <1>c, <1>d, <1>9 DEF LoadSchedule, OnlineGoes, TapesOK, Handed, Busy
  <2>12. UnjoinedOK'
    BY <1>0, <1>a, <1>b, <1>c, <1>d, <1>9 DEF LoadSchedule, OnlineGoes, UnjoinedOK, LineThreads
  <2>13. JoinersOK'
    BY <1>0, <1>a, <1>b, <1>c, <1>d, <1>9 DEF LoadSchedule, OnlineGoes, JoinersOK, LineThreads
  <2>14. PausesOK'
    BY <1>0, <1>a, <1>b, <1>c, <1>d, <1>9 DEF LoadSchedule, OnlineGoes, PausesOK, Stopped
  <2>15. RestartOK'
    BY <1>0, <1>a, <1>b, <1>c, <1>d, <1>9 DEF LoadSchedule, OnlineGoes, RestartOK
  <2> QED
    BY <2>11, <2>12, <2>13, <2>14, <2>15 DEF TapeInv
<1>10. CASE FinishTape(t)
  <2>1. /\ opc[t] \in {"exec", "ending"} /\ OTI[t].prognum \in {-1, -2}
        /\ t = 0 => unjoined \subseteq LineThreads
    BY <1>10, <1>a, <1>b DEF FinishTape, TapesOK, Busy, Disciplined, LineThreads
  <2>2. /\ OTI' = [OTI EXCEPT ![t].finished = TRUE] /\ opc' = [opc EXCEPT ![t] = "pause"]
        /\ UNCHANGED <<sleepM, sch, line, issued, target, unjoined>>
    BY <1>10 DEF FinishTape, OnlineGoes
  <2>3. \A u \in Threads : u # t => sleepO'[u] = sleepO[u]
    BY <1>10, <1>b DEF FinishTape, SignalThreadReady
  <2>11. TapesOK'
    BY <1>0, <1>a, <1>b, <1>c, <1>d, <2>1, <2>2, <2>3 DEF TapesOK, Handed, Busy
  <2>12. UnjoinedOK'
    BY <1>0, <1>a, <1>b, <1>c, <1>d, <2>1, <2>2, <2>3 DEF UnjoinedOK, LineThreads
  <2>13. JoinersOK'
    BY <1>0, <1>a, <1>b, <1>c, <1>d, <2>1, <2>2, <2>3 DEF JoinersOK, LineThreads
  <2>14. PausesOK'
    BY <1>0, <1>a, <1>b, <1>c, <1>d, <2>1, <2>2, <2>3 DEF PausesOK, Stopped
  <2>15. RestartOK'
    BY <1>0, <1>a, <1>b, <1>c, <1>d, <2>1, <2>2, <2>3 DEF RestartOK
  <2> QED
    BY <2>11, <2>12, <2>13, <2>14, <2>15 DEF TapeInv
<1>11. CASE LastCheck(t)
  <2>11. TapesOK'
    BY <1>0, <1>a, <1>b, <1>c, <1>d, <1>11 DEF LastCheck, OnlineGoes, TapesOK, Handed, Busy
  <2>12. UnjoinedOK'
    BY <1>0, <1>a, <1>b, <1>c, <1>d, <1>11 DEF LastCheck, OnlineGoes, UnjoinedOK, LineThreads
  <2>13. JoinersOK'
    BY <1>0, <1>a, <1>b, <1>c, <1>d, <1>11 DEF LastCheck, OnlineGoes, JoinersOK, LineThreads
  <2>14. PausesOK'
    BY <1>0, <1>a, <1>b, <1>c, <1>d, <1>11 DEF LastCheck, OnlineGoes, PausesOK, Stopped
  <2>15. RestartOK'
    BY <1>0, <1>a, <1>b, <1>c, <1>d, <1>11 DEF LastCheck, OnlineGoes, RestartOK
  <2> QED
    BY <2>11, <2>12, <2>13, <2>14, <2>15 DEF TapeInv
<1>12. CASE LastWake(t) \/ Die(t)
  <2>11. TapesOK'
    BY <1>0, <1>a, <1>b, <1>c, <1>d, <1>12 DEF LastWake, Die, OnlineGoes, TapesOK, Handed, Busy
  <2>12. UnjoinedOK'
    BY <1>0, <1>a, <1>b, <1>c, <1>d, <1>12 DEF LastWake, Die, OnlineGoes, UnjoinedOK, LineThreads
  <2>13. JoinersOK'
    BY <1>0, <1>a, <1>b, <1>c, <1>d, <1>12 DEF LastWake, Die, OnlineGoes, JoinersOK, LineThreads
  <2>14. PausesOK'
    BY <1>0, <1>a, <1>b, <1>c, <1>d, <1>12 DEF LastWake, Die, OnlineGoes, PausesOK, Stopped
  <2>15. RestartOK'
    BY <1>0, <1>a, <1>b, <1>c, <1>d, <1>12 DEF LastWake, Die, OnlineGoes, RestartOK
  <2> QED
    BY <2>11, <2>12, <2>13, <2>14, <2>15 DEF TapeInv
<1>13. ~WildProgram(t)
  BY <1>a DEF WildProgram, PausesOK
<1>14. Pause(t) => \/ TakeProgram(t) /\ OTI[t].prognum # -2 /\ UNCHANGED sleepM
                   \/ /\ OTI[t].prognum = -2 /\ UNCHANGED <<OTI, cur>>
                      /\ sleepM' = sleepM \cup {t} /\ OnlineGoes(t, "paused")
  BY DEF Pause
<1> QED
  BY <1>1, <1>2, <1>3, <1>4, <1>5, <1>6, <1>7, <1>8, <1>9, <1>10, <1>11, <1>12,
     <1>13, <1>14 DEF OnlineStep
\* The whole invariant is inductive together with the types.
LEMMA TapeStep ==
    ASSUME Disciplined
    PROVE  TypeOK /\ IInv /\ [Next]_vars => TapeInv'
<1> SUFFICES ASSUME TypeOK, IInv, [Next]_vars PROVE TapeInv'
  OBVIOUS
<1>1. CASE ControlStep /\ ~aborted
  BY <1>1, TapeControlStep
<1>2. ASSUME NEW t \in Threads, OnlineStep(t) PROVE TapeInv'
  BY <1>2, TapeOnlineStep
<1>3. CASE UNCHANGED vars
  BY <1>3 DEF vars, control, schedule, counters, IInv, TapeInv, TapesOK, UnjoinedOK,
              JoinersOK, PausesOK, RestartOK, Handed, LineThreads, Stopped
<1>4. ~Spurious
  BY DEF Spurious, Disciplined
<1>5. CASE SpuriousSync
  <2>1. /\ cpc = "sync" /\ unjoined = {} /\ sleepM' = sleepM
        /\ UNCHANGED <<OTI, control, schedule, opc, cur, target, unjoined, aborted>>
    BY <1>5 DEF SpuriousSync, IInv, TapeInv, UnjoinedOK
  <2>2. TapesOK' /\ UnjoinedOK' /\ PausesOK' /\ RestartOK'
    BY <2>1 DEF control, schedule, IInv, TapeInv, TapesOK, UnjoinedOK, PausesOK,
                RestartOK, Handed, LineThreads, Stopped
  <2>3. JoinersOK'
    BY <2>1 DEF control, IInv, TapeInv, JoinersOK, LineThreads
  <2> QED
    BY <2>2, <2>3 DEF TapeInv
<1> QED
  BY <1>1, <1>2, <1>3, <1>4, <1>5 DEF Next

(* Where tapes join what they run and waits end by a signal, the invariant *)
(* holds: every thread, joiner and sleeper is where the protocol has it.   *)
THEOREM MachineInvariant == Disciplined => (Spec => [](TypeOK /\ IInv))
<1> SUFFICES ASSUME Disciplined PROVE Spec => [](TypeOK /\ IInv)
  OBVIOUS
<1>1. Init => TypeOK /\ IInv
  BY TypeInit, SyncInit, TapeInit DEF IInv
<1>2. TypeOK /\ IInv /\ [Next]_vars => (TypeOK /\ IInv)'
  BY TypeStep, LoopsStep, SyncStep, TapeStep DEF IInv
<1> QED
  BY <1>1, <1>2, PTL DEF Spec

---------------------------------------------------------------------------
(* What follows from the invariant.                                        *)

(* Machine::run, "Make sure all terminate before we continue": no thread   *)
(* has a tape between two lines of the schedule, nor while they are told   *)
(* to stop.                                                                *)
THEOREM LinesAreBarriers == Disciplined => (Spec => []LineBarrier)
<1> SUFFICES ASSUME Disciplined PROVE Spec => []LineBarrier
  OBVIOUS
<1>1. TypeOK /\ IInv => LineBarrier
  <2> SUFFICES ASSUME TypeOK, IInv,
                      cpc \in {"load", "stop", "bye", "destroy", "exit"},
                      NEW t \in Threads
               PROVE  Quiet(t)
    BY DEF LineBarrier
  <2>1. t \notin unjoined
    BY DEF IInv, TapeInv, UnjoinedOK
  <2> QED
    BY <2>1, NotHanded DEF Quiet, Busy
<1> QED
  BY <1>1, MachineInvariant, PTL

(* Pause_While_Nothing_To_Do never answers -2: a woken thread has a tape,  *)
(* or is told to stop.                                                     *)
THEOREM WokenForAReason == Disciplined => (Spec => []NeverRunsNothing)
<1> SUFFICES ASSUME Disciplined PROVE Spec => []NeverRunsNothing
  OBVIOUS
<1>1. IInv => NeverRunsNothing
  BY DEF IInv, TapeInv, PausesOK, NeverRunsNothing
<1> QED
  BY <1>1, MachineInvariant, PTL

(* RESTART replaces the programs only while no other thread can be reading *)
(* them and the control thread is not reading the schedule.                *)
THEOREM ReloadsAlone == Disciplined => (Spec => []ReloadAlone)
<1> SUFFICES ASSUME Disciplined PROVE Spec => []ReloadAlone
  OBVIOUS
<1>1. TypeOK /\ IInv => ReloadAlone
  <2> SUFFICES ASSUME TypeOK, IInv, NEW t \in Threads, opc[t] = "reload"
               PROVE  /\ \A u \in Threads \ {t} : Quiet(u)
                      /\ cpc \in {"join", "joinwait"}
    BY DEF ReloadAlone
  <2>1. t = 0
    BY DEF IInv, TapeInv, TapesOK
  <2>2. unjoined = {0} /\ cpc \in {"join", "joinwait"}
    BY <2>1 DEF IInv, TapeInv, RestartOK
  <2>3. ASSUME NEW u \in Threads \ {t} PROVE Quiet(u)
    <3>1. opc[u] \notin Busy /\ OTI[u].prognum \in {-1, -2}
      BY <2>1, <2>2, NotHanded DEF Busy
    <3> QED
      BY <3>1 DEF Quiet
  <2> QED
    BY <2>2, <2>3
<1> QED
  BY <1>1, MachineInvariant, PTL

\* A step takes a thread out of `unjoined' only by one of the four forms of
\* Lock_Until_Finished_Tape, each on a thread whose tape is finished.
LEMMA JoinStep ==
    ASSUME Disciplined, TypeOK, IInv, [Next]_vars, NEW t \in unjoined \ unjoined'
    PROVE  OTI[t].finished
<1> USE DEF control, schedule, counters
<1>1. CASE JoinLine \/ JoinLineWake
  BY <1>1 DEF JoinLine, JoinLineWake, IInv, TapeInv, JoinersOK
<1>2. CASE \/ SyncWait \/ SyncWake \/ SyncUnlock \/ EndOfSchedule \/ StartLine
           \/ Advance \/ JoinLineWait \/ StopThread \/ ByeThread \/ DestroyThread
  BY <1>2 DEF SyncWait, SyncWake, SyncUnlock, EndOfSchedule, StartLine, Advance,
              JoinLineWait, StopThread, ByeThread, DestroyThread
<1>3. CASE DispatchTape
  BY <1>3 DEF DispatchTape, run_tape, run_tape_throws
<1>4. CASE SpuriousSync \/ Spurious \/ UNCHANGED vars
  BY <1>4 DEF SpuriousSync, Spurious, vars
<1>5. ASSUME NEW u \in Threads, OnlineStep(u) PROVE OTI[t].finished
  <2>1. CASE JoinTapeInstr(u)
    BY <2>1 DEF JoinTapeInstr
  <2>2. CASE JoinTapeWake(u)
    <3>1. u = 0
      BY <2>2 DEF JoinTapeWake, IInv, TapeInv, TapesOK
    <3> QED
      BY <2>2, <3>1 DEF JoinTapeWake, IInv, TapeInv, JoinersOK
  <2>3. CASE RunTapeInstr(u)
    BY <2>3 DEF RunTapeInstr, run_tape, run_tape_throws
  <2>4. CASE \/ SignalReady(u) \/ Pause(u) \/ PauseWake(u) \/ FetchArg(u) \/ Restart(u)
             \/ LoadSchedule(u) \/ FinishTape(u) \/ LastCheck(u) \/ LastWake(u)
             \/ Die(u) \/ WildProgram(u)
    BY <2>4 DEF SignalReady, Pause, PauseWake, FetchArg, Restart, LoadSchedule,
                FinishTape, LastCheck, LastWake, Die, WildProgram
  <2> QED
    BY <1>5, <2>1, <2>2, <2>3, <2>4 DEF OnlineStep
<1> QED
  BY <1>1, <1>2, <1>3, <1>4, <1>5 DEF Next, ControlStep

(* A join, by the control thread or by JOIN_TAPE, returns only after the   *)
(* tape handed to the thread has been run to its end.                      *)
THEOREM JoinsAfterFinish == Disciplined => (Spec => JoinAfterFinish)
<1> SUFFICES ASSUME Disciplined PROVE Spec => JoinAfterFinish
  OBVIOUS
<1>1. TypeOK /\ IInv /\ [Next]_vars
        => [\A t \in unjoined \ unjoined' : OTI[t].finished /\ Quiet(t)]_vars
  <2> SUFFICES ASSUME TypeOK, IInv, [Next]_vars, NEW t \in unjoined \ unjoined'
               PROVE  OTI[t].finished /\ Quiet(t)
    OBVIOUS
  <2>1. OTI[t].finished
    BY JoinStep
  <2>2. t \in Threads
    BY DEF TypeOK
  <2> QED
    BY <2>1, <2>2, NotHanded DEF Quiet, Busy
<1> QED
  BY <1>1, MachineInvariant, PTL DEF Spec, JoinAfterFinish
\* A step changes prognum and arg of a thread that has a tape only by taking it.
LEMMA OverwriteStep ==
    ASSUME TypeOK, IInv, [Next]_vars, NEW t \in Threads
    PROVE  /\ OTI[t].prognum >= 0 => OTI'[t].prognum \in {OTI[t].prognum, -2}
           /\ OTI[t].prognum >= 0 \/ opc[t] = "fetch" => OTI'[t].arg = OTI[t].arg
<1> USE DEF control, schedule, counters
<1>a. OTI \in [Threads -> OTIType] /\ ci \in Threads
  BY DEF TypeOK
<1>b. \A u \in Threads \ unjoined : opc[u] # "fetch" /\ ~(OTI[u].prognum >= 0)
  BY NotHanded
<1>1. CASE StopThread
  <2>1. unjoined = {}
    BY <1>1 DEF StopThread, IInv, TapeInv, UnjoinedOK
  <2> QED
    BY <1>1, <1>a, <1>b, <2>1 DEF StopThread, OTIType
<1>2. CASE DispatchTape
  <2> DEFINE e == sch.Sch[line + 1][ci + 1]
  <2>1. ci \notin unjoined
    <3>1. cpc = "dispatch" /\ ci < width /\ width \in Nat /\ ci \in Nat
      BY <1>2, ThreadNumbers DEF DispatchTape, TypeOK, IInv, LoopsOK
    <3> QED
      BY <3>1 DEF IInv, TapeInv, UnjoinedOK, LineThreads
  <2>2. CASE run_tape(ci, e.tape, e.arg)
    BY <1>a, <1>b, <2>1, <2>2 DEF run_tape, OTIType
  <2>3. CASE run_tape_throws(ci, e.tape)
    BY <2>3 DEF run_tape_throws
  <2> QED
    BY <1>2, <2>2, <2>3 DEF DispatchTape
<1>3. CASE ByeThread
  BY <1>3, <1>a DEF ByeThread, OTIType
<1>4. CASE \/ SyncWait \/ SyncWake \/ SyncUnlock \/ EndOfSchedule \/ StartLine
           \/ Advance \/ JoinLine \/ JoinLineWait \/ JoinLineWake \/ DestroyThread
  BY <1>4 DEF SyncWait, SyncWake, SyncUnlock, EndOfSchedule, StartLine, Advance,
              JoinLine, JoinLineWait, JoinLineWake, DestroyThread
<1>5. CASE SpuriousSync \/ Spurious \/ UNCHANGED vars
  BY <1>5 DEF SpuriousSync, Spurious, vars
<1>6. ASSUME NEW u \in Threads, OnlineStep(u)
      PROVE  /\ OTI[t].prognum >= 0 => OTI'[t].prognum \in {OTI[t].prognum, -2}
             /\ OTI[t].prognum >= 0 \/ opc[t] = "fetch" => OTI'[t].arg = OTI[t].arg
  <2>1. CASE SignalReady(u) \/ FinishTape(u)
    BY <1>a, <2>1 DEF SignalReady, FinishTape, OTIType
  <2>2. CASE Pause(u) \/ PauseWake(u)
    BY <1>a, <2>2 DEF Pause, PauseWake, TakeProgram, OTIType
  <2>3. CASE RunTapeInstr(u)
    <3>1. PICK v \in width .. NThreads, p \in 0 .. progs, a \in Args :
              v \notin unjoined /\ (run_tape(v, p, a) \/ run_tape_throws(v, p))
      BY <2>3 DEF RunTapeInstr
    <3>2. CASE run_tape(v, p, a)
      BY <1>a, <1>b, <3>1, <3>2 DEF run_tape, InRange, OTIType
    <3>3. CASE run_tape_throws(v, p)
      BY <3>3 DEF run_tape_throws
    <3> QED
      BY <3>1, <3>2, <3>3
  <2>4. CASE \/ FetchArg(u) \/ JoinTapeInstr(u) \/ JoinTapeWake(u) \/ Restart(u)
             \/ LoadSchedule(u) \/ LastCheck(u) \/ LastWake(u) \/ Die(u)
             \/ WildProgram(u)
    BY <2>4 DEF FetchArg, JoinTapeInstr, JoinTapeWake, Restart, LoadSchedule,
                LastCheck, LastWake, Die, WildProgram
  <2> QED
    BY <1>6, <2>1, <2>2, <2>3, <2>4 DEF OnlineStep
<1> QED
  BY <1>1, <1>2, <1>3, <1>4, <1>5, <1>6 DEF Next, ControlStep

(* A tape handed to a thread is not replaced before the thread takes it,   *)
(* nor its argument before get_OTI_arg has read it without the mutex.      *)
THEOREM TapesNotOverwritten == Disciplined => (Spec => NoTapeOverwritten)
<1> SUFFICES ASSUME Disciplined PROVE Spec => NoTapeOverwritten
  OBVIOUS
<1>1. TypeOK /\ IInv /\ [Next]_vars
        => [\A t \in Threads :
              /\ OTI[t].prognum >= 0 => OTI'[t].prognum \in {OTI[t].prognum, -2}
              /\ (OTI[t].prognum >= 0 \/ opc[t] = "fetch")
                    => OTI'[t].arg = OTI[t].arg]_vars
  BY OverwriteStep
<1> QED
  BY <1>1, MachineInvariant, PTL DEF Spec, NoTapeOverwritten

(* "First go through the schedule and execute what is there": the control  *)
(* thread leaves a line only after dispatching the whole of it.            *)
THEOREM LinesNotSkipped == Disciplined => (Spec => NoLineSkipped)
<1> SUFFICES ASSUME Disciplined PROVE Spec => NoLineSkipped
  OBVIOUS
<1>1. TypeOK /\ IInv /\ [Next]_vars
        => [line' = line + 1 => issued = Len(sch.Sch[line + 1])]_vars
  <2> SUFFICES ASSUME TypeOK, IInv, [Next]_vars, line' = line + 1
               PROVE  issued = Len(sch.Sch[line + 1])
    OBVIOUS
  <2> USE DEF control, schedule, counters
  <2>1. line \in Nat /\ line' # line /\ line' # 0
    BY DEF TypeOK
  <2>2. CASE Advance
    BY <2>2 DEF Advance, IInv, TapeInv, RestartOK
  <2>3. ~(\/ SyncWait \/ SyncWake \/ SyncUnlock \/ EndOfSchedule \/ StartLine
          \/ DispatchTape \/ JoinLine \/ JoinLineWait \/ JoinLineWake
          \/ StopThread \/ ByeThread \/ DestroyThread)
    BY <2>1 DEF SyncWait, SyncWake, SyncUnlock, EndOfSchedule, StartLine,
                DispatchTape, JoinLine, JoinLineWait, JoinLineWake, StopThread,
                ByeThread, DestroyThread
  <2>4. ~(SpuriousSync \/ Spurious \/ UNCHANGED vars)
    BY <2>1 DEF SpuriousSync, Spurious, vars
  <2>5. ASSUME NEW u \in Threads PROVE ~OnlineStep(u)
    BY <2>1, OnlineFrame DEF Restart
  <2> QED
    BY <2>2, <2>3, <2>4, <2>5 DEF Next, ControlStep
<1> QED
  BY <1>1, MachineInvariant, PTL DEF Spec, NoLineSkipped

---------------------------------------------------------------------------
(* That the Machine implements the safety part of ForkJoin: a step of the  *)
(* Machine is one of ForkJoin, or changes nothing that ForkJoin shows.     *)

(* What ForkJoin sees of a state, and of a step.                           *)

\* What the state of a thread's job is, by where its tape is.
LEMMA JobForms ==
    ASSUME TypeOK, NEW t \in Threads
    PROVE  /\ t \notin unjoined => AbsJob(t) = FJ!Free
           /\ t \in unjoined /\ OTI[t].prognum \in Nat
                => AbsJob(t) = FJ!Job("queued", OTI[t].prognum, OTI[t].arg)
           /\ t \in unjoined /\ OTI[t].prognum \in {-1, -2} /\ opc[t] = "fetch"
                => AbsJob(t) = FJ!Job("queued", cur[t].tape, OTI[t].arg)
           /\ t \in unjoined /\ OTI[t].prognum \in {-1, -2} /\ opc[t] \in Busy \ {"fetch"}
                => AbsJob(t) = FJ!Job("running", cur[t].tape, cur[t].arg)
           /\ t \in unjoined /\ OTI[t].prognum \in {-1, -2} /\ opc[t] \notin Busy
                => AbsJob(t) = FJ!Over
BY DEF AbsJob, FJ!Free, FJ!Job, FJ!Over, Busy

\* The same after a step.
LEMMA JobFormsAfter ==
    ASSUME TypeOK', NEW t \in Threads
    PROVE  /\ t \notin unjoined' => AbsJob(t)' = FJ!Free
           /\ t \in unjoined' /\ OTI'[t].prognum \in Nat
                => AbsJob(t)' = FJ!Job("queued", OTI'[t].prognum, OTI'[t].arg)
           /\ t \in unjoined' /\ OTI'[t].prognum \in {-1, -2} /\ opc'[t] = "fetch"
                => AbsJob(t)' = FJ!Job("queued", cur'[t].tape, OTI'[t].arg)
           /\ t \in unjoined' /\ OTI'[t].prognum \in {-1, -2} /\ opc'[t] \in Busy \ {"fetch"}
                => AbsJob(t)' = FJ!Job("running", cur'[t].tape, cur'[t].arg)
           /\ t \in unjoined' /\ OTI'[t].prognum \in {-1, -2} /\ opc'[t] \notin Busy
                => AbsJob(t)' = FJ!Over
BY DEF AbsJob, FJ!Free, FJ!Job, FJ!Over, Busy

\* A job stays what it is when nothing it consists of changes.
LEMMA SameJob ==
    ASSUME NEW t \in Threads, t \in unjoined' <=> t \in unjoined,
           OTI'[t].prognum = OTI[t].prognum, OTI'[t].arg = OTI[t].arg,
           opc'[t] = opc[t], cur'[t] = cur[t]
    PROVE  AbsJob(t)' = AbsJob(t)
BY DEF AbsJob

\* A step that leaves every job and the mode as they are is a stutter.
LEMMA NoJobMoves ==
    ASSUME \A t \in Threads : AbsJob(t)' = AbsJob(t), AbsMode' = AbsMode
    PROVE  UNCHANGED FJ!vars
BY DEF FJ!vars

\* A step that changes one job sets it.
LEMMA OneJobMoves ==
    ASSUME NEW u \in Threads, \A t \in Threads \ {u} : AbsJob(t)' = AbsJob(t),
           AbsMode' = AbsMode
    PROVE  FJ!Set(u, AbsJob(u)')
BY DEF FJ!Set

\* As long as the control thread stays out of the shutdown, nothing is closed.
LEMMA SameMode ==
    ASSUME aborted' = aborted,
           cpc' \in {"stop", "bye", "destroy", "exit"}
              <=> cpc \in {"stop", "bye", "destroy", "exit"}
    PROVE  AbsMode' = AbsMode
BY DEF AbsMode

---------------------------------------------------------------------------
(* The steps of ForkJoin, as they look in the Machine.                     *)

\* An exception that leaves a thread aborts.
LEMMA AbortMoves ==
    ASSUME ~aborted, aborted', \A t \in Threads : AbsJob(t)' = AbsJob(t)
    PROVE  FJ!Next
<1>1. AbsMode # "aborted" /\ AbsMode' = "aborted"
  BY DEF AbsMode
<1>2. FJ!Abort
  BY <1>1 DEF FJ!Abort
<1> QED
  BY <1>2 DEF FJ!Next

\* run_tape on a thread that is free submits a tape to it.
LEMMA SubmitMoves ==
    ASSUME TypeOK, TypeOK', NEW u, NEW p \in Nat, NEW a \in Args,
           run_tape(u, p, a), u \notin unjoined, UNCHANGED <<opc, cur>>,
           AbsMode = "up", AbsMode' = "up"
    PROVE  FJ!Next
<1>0. u \in Threads /\ OTI \in [Threads -> OTIType]
  BY DEF run_tape, InRange, TypeOK
<1>1. OTI'[u].prognum = p /\ OTI'[u].arg = a /\ u \in unjoined'
  BY <1>0 DEF run_tape, OTIType
<1>2. ASSUME NEW t \in Threads \ {u} PROVE AbsJob(t)' = AbsJob(t)
  <2>1. OTI'[t] = OTI[t] /\ (t \in unjoined' <=> t \in unjoined)
    BY <1>0 DEF run_tape
  <2> QED
    BY <2>1, SameJob
<1>3. AbsJob(u) = FJ!Free
  BY <1>0, JobForms
<1>4. AbsJob(u)' = FJ!Job("queued", p, a)
  BY <1>0, <1>1, JobFormsAfter
<1>5. AbsJob(u)' \in FJ!Queued
  BY <1>4 DEF FJ!Job, FJ!Queued
<1>6. FJ!Set(u, AbsJob(u)')
  BY <1>0, <1>2, OneJobMoves
<1>7. FJ!Submit(u)
  BY <1>0, <1>3, <1>5, <1>6 DEF FJ!Submit
<1> QED
  BY <1>0, <1>7 DEF FJ!Next

\* Whoever finds a tape finished and takes its thread back joins it.
LEMMA JoinMoves ==
    ASSUME TypeOK, TypeOK', IInv, ~aborted,
           NEW u \in Threads, u \in unjoined, u \notin unjoined', OTI[u].finished,
           \A t \in Threads \ {u} : AbsJob(t)' = AbsJob(t), AbsMode' = AbsMode
    PROVE  FJ!Next
<1>1. opc[u] \notin Busy /\ OTI[u].prognum \in {-1, -2}
  BY NotHanded DEF Busy
<1>2. AbsJob(u) = FJ!Over
  BY <1>1, JobForms
<1>3. AbsJob(u)' = FJ!Free
  BY JobFormsAfter
<1>4. FJ!Set(u, FJ!Free)
  BY <1>3, OneJobMoves
<1>5. AbsMode # "aborted"
  BY DEF AbsMode
<1>6. FJ!Join(u)
  BY <1>2, <1>4, <1>5 DEF FJ!Join
<1> QED
  BY <1>6 DEF FJ!Next

---------------------------------------------------------------------------
(* The control thread.                                                     *)

\* A step of the control thread is one of ForkJoin or a stutter.
LEMMA ControlMoves ==
    ASSUME Disciplined, TypeOK, TypeOK', IInv, ~aborted, ControlStep
    PROVE  FJ!Next \/ UNCHANGED FJ!vars
<1> USE DEF control, schedule, counters
<1>0. /\ ci \in Threads /\ ci \in Nat /\ width \in Nat /\ width <= NThreads
      /\ NThreads \in Nat /\ OTI \in [Threads -> OTIType]
  BY ThreadNumbers, NThreadsAssumption DEF TypeOK, IInv, LoopsOK
<1>1. CASE \/ SyncWait \/ SyncWake \/ SyncUnlock \/ StartLine \/ Advance \/ JoinLineWait
           \/ DestroyThread
  <2>1. UNCHANGED <<OTI, opc, cur, unjoined, aborted>>
    BY <1>1 DEF SyncWait, SyncWake, SyncUnlock, StartLine, Advance, JoinLineWait,
                DestroyThread
  <2>2. cpc' \in {"stop", "bye", "destroy", "exit"}
          <=> cpc \in {"stop", "bye", "destroy", "exit"}
    BY <1>1 DEF SyncWait, SyncWake, SyncUnlock, StartLine, Advance, JoinLineWait,
                DestroyThread, NextIndex, ControlGoes
  <2>3. \A t \in Threads : AbsJob(t)' = AbsJob(t)
    BY <2>1, SameJob
  <2> QED
    BY <2>1, <2>2, <2>3, SameMode, NoJobMoves
<1>2. CASE EndOfSchedule
  <2>1. /\ unjoined = {} /\ UNCHANGED <<OTI, opc, cur, unjoined, aborted>>
        /\ cpc = "load" /\ cpc' = "stop"
    BY <1>2 DEF EndOfSchedule, ControlGoes, IInv, TapeInv, UnjoinedOK
  <2>2. AbsMode = "up" /\ AbsMode' = "closed"
    BY <2>1 DEF AbsMode
  <2>3. \A t \in Threads : AbsJob(t)' = AbsJob(t) /\ AbsJob(t) = FJ!Free
    BY <2>1, SameJob, JobForms
  <2>4. FJ!Close
    BY <2>2, <2>3 DEF FJ!Close
  <2> QED
    BY <2>4 DEF FJ!Next
<1>3. CASE DispatchTape
  <2> DEFINE e == sch.Sch[line + 1][ci + 1]
  <2>1. /\ cpc = "dispatch" /\ ci < width /\ line < Len(sch.Sch)
        /\ width = Len(sch.Sch[line + 1])
        /\ ci \notin unjoined /\ UNCHANGED <<opc, cur>>
    BY <1>0, <1>3 DEF DispatchTape, IInv, LoopsOK, TapeInv, UnjoinedOK, LineThreads
  <2>2. e.tape \in Nat /\ e.arg \in Args
    BY <1>0, <2>1, ScheduleEntry DEF TypeOK, Entry
  <2>3. CASE run_tape(ci, e.tape, e.arg) /\ NextIndex(width, "dispatch", "advance")
    <3>1. aborted' = aborted
      BY <2>3 DEF run_tape
    <3>2. cpc' \in {"dispatch", "advance"}
      BY <2>3 DEF NextIndex, ControlGoes
    <3>3. AbsMode = "up" /\ AbsMode' = "up"
      BY <2>1, <3>1, <3>2 DEF AbsMode
    <3> QED
      BY <2>1, <2>2, <2>3, <3>3, SubmitMoves
  <2>4. CASE run_tape_throws(ci, e.tape)
    <3>1. aborted' /\ UNCHANGED <<OTI, unjoined>>
      BY <2>4 DEF run_tape_throws
    <3>2. \A t \in Threads : AbsJob(t)' = AbsJob(t)
      BY <2>1, <3>1, SameJob
    <3> QED
      BY <3>1, <3>2, AbortMoves
  <2> QED
    BY <1>3, <2>3, <2>4 DEF DispatchTape
<1>4. CASE JoinLine \/ JoinLineWake
  <2>1. /\ cpc \in {"join", "joinwait"} /\ OTI[ci].finished
        /\ unjoined' = unjoined \ {ci} /\ UNCHANGED <<OTI, opc, cur, aborted>>
    BY <1>4 DEF JoinLine, JoinLineWake, IInv, TapeInv, JoinersOK
  <2>2. ci \in unjoined
    BY <1>0, <2>1 DEF IInv, LoopsOK, TapeInv, UnjoinedOK, LineThreads
  <2>3. cpc' \in {"join", "load"}
    BY <1>4 DEF JoinLine, JoinLineWake, NextIndex, ControlGoes
  <2>4. AbsMode' = AbsMode
    BY <2>1, <2>3, SameMode
  <2>5. \A t \in Threads \ {ci} : AbsJob(t)' = AbsJob(t)
    BY <2>1, SameJob
  <2> QED
    BY <1>0, <2>1, <2>2, <2>4, <2>5, JoinMoves
<1>5. CASE StopThread \/ ByeThread
  <2>1. unjoined = {} /\ unjoined' = {} /\ aborted' = aborted
    BY <1>5 DEF StopThread, ByeThread, IInv, TapeInv, UnjoinedOK
  <2>2. cpc' \in {"stop", "bye", "destroy"} /\ cpc \in {"stop", "bye"}
    BY <1>5 DEF StopThread, ByeThread, NextIndex, ControlGoes
  <2>3. \A t \in Threads : AbsJob(t)' = AbsJob(t)
    BY <2>1, JobForms, JobFormsAfter
  <2> QED
    BY <2>1, <2>2, <2>3, SameMode, NoJobMoves
<1> QED
  BY <1>1, <1>2, <1>3, <1>4, <1>5 DEF ControlStep

---------------------------------------------------------------------------
(* An online thread.                                                       *)

\* Taking a tape out of OTI leaves the job queued: its argument is yet to be
\* read.  A thread that takes nothing has no job, or one that is over.
LEMMA TakeMoves ==
    ASSUME Disciplined, TypeOK, TypeOK', IInv, NEW t \in Threads,
           opc[t] \in {"pause", "paused"}, TakeProgram(t), UNCHANGED unjoined
    PROVE  AbsJob(t)' = AbsJob(t)
<1> DEFINE program == OTI[t].prognum
<1>0. /\ OTI \in [Threads -> OTIType] /\ opc \in [Threads -> OnlinePoints]
      /\ cur \in [Threads -> Current] /\ program \in {-1, -2} \cup Nat
  BY DEF TypeOK, OTIType
<1>1. OTI'[t].prognum = -2 /\ OTI'[t].arg = OTI[t].arg
  BY <1>0 DEF TakeProgram, OTIType
<1>2. CASE t \notin unjoined
  BY <1>2, JobForms, JobFormsAfter
<1>3. CASE t \in unjoined /\ program \in Nat
  <2>1. opc'[t] = "fetch"
    BY <1>0, <1>3 DEF TakeProgram, OnlineGoes
  <2>2. cur'[t].tape = program
    BY <1>0, <1>3 DEF TakeProgram, Current
  <2>3. AbsJob(t) = FJ!Job("queued", program, OTI[t].arg)
    BY <1>3, JobForms
  <2>4. AbsJob(t)' = FJ!Job("queued", program, OTI[t].arg)
    BY <1>1, <1>3, <2>1, <2>2, JobFormsAfter
  <2> QED
    BY <2>3, <2>4
<1>4. CASE t \in unjoined /\ program \in {-1, -2}
  <2>1. opc'[t] \in {"last", "wild"}
    BY <1>0, <1>4 DEF TakeProgram, OnlineGoes
  <2>2. AbsJob(t) = FJ!Over
    BY <1>4, JobForms DEF Busy
  <2>3. AbsJob(t)' = FJ!Over
    BY <1>1, <1>4, <2>1, JobFormsAfter DEF Busy
  <2> QED
    BY <2>2, <2>3
<1> QED
  BY <1>0, <1>2, <1>3, <1>4

\* A thread that has a tape is in the middle of its job.
LEMMA BusyJob ==
    ASSUME TypeOK, IInv, NEW t \in Threads, opc[t] \in Busy
    PROVE  t \in unjoined /\ OTI[t].prognum \in {-1, -2}
<1>1. OTI[t].prognum \in {-1, -2} \cup Nat
  BY DEF TypeOK, OTIType
<1> QED
  BY <1>1 DEF IInv, TapeInv, TapesOK, Handed

\* A step of an online thread is one of ForkJoin or a stutter.
LEMMA OnlineMoves ==
    ASSUME Disciplined, TypeOK, TypeOK', IInv, ~aborted,
           NEW t \in Threads, OnlineStep(t)
    PROVE  FJ!Next \/ UNCHANGED FJ!vars
<1> USE DEF control, schedule, counters, OnlineGoes
<1>0. /\ OTI \in [Threads -> OTIType] /\ opc \in [Threads -> OnlinePoints]
      /\ cur \in [Threads -> Current] /\ AbsMode # "aborted"
  BY DEF TypeOK, AbsMode
<1>c. cpc' = cpc /\ \A u \in Threads \ {t} : opc'[u] = opc[u]
  BY OnlineFrame
<1>m. aborted' = aborted => AbsMode' = AbsMode
  BY <1>c, SameMode
<1>1. CASE SignalReady(t) \/ LastCheck(t) \/ LastWake(t) \/ Die(t)
  <2>1. UNCHANGED <<unjoined, cur, aborted>>
    BY <1>1 DEF SignalReady, LastCheck, LastWake, Die
  <2>2. opc[t] \notin Busy /\ opc'[t] \notin Busy
    BY <1>0, <1>1 DEF SignalReady, LastCheck, LastWake, Die, Busy
  <2>3. \A u \in Threads : OTI'[u].prognum = OTI[u].prognum /\ OTI'[u].arg = OTI[u].arg
    BY <1>0, <1>1 DEF SignalReady, LastCheck, LastWake, Die, OTIType
  <2>4. AbsJob(t)' = AbsJob(t)
    BY <2>1, <2>2, <2>3 DEF AbsJob, Busy
  <2>5. \A u \in Threads \ {t} : AbsJob(u)' = AbsJob(u)
    BY <1>c, <2>1, <2>3, SameJob
  <2> QED
    BY <1>m, <2>1, <2>4, <2>5, NoJobMoves
<1>2. CASE Pause(t) \/ PauseWake(t)
  <2>1. UNCHANGED <<unjoined, aborted>> /\ opc[t] \in {"pause", "paused"}
    BY <1>2 DEF Pause, PauseWake
  <2>2. CASE TakeProgram(t)
    <3>1. AbsJob(t)' = AbsJob(t)
      BY <2>1, <2>2, TakeMoves
    <3>2. \A u \in Threads \ {t} : OTI'[u] = OTI[u] /\ cur'[u] = cur[u]
      BY <1>0, <2>2 DEF TakeProgram
    <3>3. \A u \in Threads \ {t} : AbsJob(u)' = AbsJob(u)
      BY <1>c, <2>1, <3>2, SameJob
    <3> QED
      BY <1>m, <2>1, <3>1, <3>3, NoJobMoves
  <2>3. CASE opc' = [opc EXCEPT ![t] = "paused"] /\ UNCHANGED <<OTI, cur>>
    <3>1. AbsJob(t)' = AbsJob(t)
      BY <1>0, <2>1, <2>3 DEF AbsJob, Busy
    <3>2. \A u \in Threads \ {t} : AbsJob(u)' = AbsJob(u)
      BY <1>c, <2>1, <2>3, SameJob
    <3> QED
      BY <1>m, <2>1, <3>1, <3>2, NoJobMoves
  <2> QED
    BY <1>2, <2>2, <2>3 DEF Pause, PauseWake
<1>3. CASE FetchArg(t)
  <2>1. /\ UNCHANGED <<OTI, unjoined, aborted>>
        /\ opc[t] = "fetch" /\ opc'[t] = "exec"
        /\ cur' = [cur EXCEPT ![t].arg = OTI[t].arg]
    BY <1>0, <1>3 DEF FetchArg
  <2>2. t \in unjoined /\ OTI[t].prognum \in {-1, -2}
    BY <2>1, BusyJob DEF Busy
  <2>3. AbsJob(t) = FJ!Job("queued", cur[t].tape, OTI[t].arg)
    BY <2>1, <2>2, JobForms
  <2>4. cur'[t].tape = cur[t].tape /\ cur'[t].arg = OTI[t].arg
    BY <1>0, <2>1 DEF Current
  <2>5. AbsJob(t)' = FJ!Job("running", cur[t].tape, OTI[t].arg)
    BY <2>1, <2>2, <2>4, JobFormsAfter DEF Busy
  <2>6. \A u \in Threads \ {t} : AbsJob(u)' = AbsJob(u)
    BY <1>0, <1>c, <2>1, SameJob
  <2>7. FJ!Set(t, FJ!Job("running", cur[t].tape, OTI[t].arg))
    BY <1>m, <2>1, <2>5, <2>6, OneJobMoves
  <2>8. AbsJob(t).st = "queued" /\ AbsJob(t).tape = cur[t].tape
        /\ AbsJob(t).arg = OTI[t].arg
    BY <2>3 DEF FJ!Job
  <2>9. FJ!Start(t)
    BY <1>0, <2>7, <2>8 DEF FJ!Start
  <2> QED
    BY <2>9 DEF FJ!Next
<1>4. CASE RunTapeInstr(t)
  <2>1. PICK u \in width .. NThreads, p \in 0 .. progs, a \in Args :
            u \notin unjoined /\ (run_tape(u, p, a) \/ run_tape_throws(u, p))
    BY <1>4 DEF RunTapeInstr
  <2>2. p \in Nat
    BY DEF TypeOK
  <2>3. UNCHANGED <<opc, cur>>
    BY <1>4 DEF RunTapeInstr
  <2>4. CASE run_tape(u, p, a)
    <3>1. aborted' = aborted
      BY <2>4 DEF run_tape
    <3>2. t \in unjoined
      BY <1>4, BusyJob DEF RunTapeInstr, Busy
    <3>3. cpc \notin {"stop", "bye", "destroy", "exit"}
      BY <3>2 DEF IInv, TapeInv, UnjoinedOK
    <3>4. AbsMode = "up" /\ AbsMode' = "up"
      BY <1>c, <3>1, <3>3 DEF AbsMode
    <3> QED
      BY <2>1, <2>2, <2>3, <2>4, <3>4, SubmitMoves
  <2>5. CASE run_tape_throws(u, p)
    <3>1. aborted' /\ UNCHANGED <<OTI, unjoined>>
      BY <2>5 DEF run_tape_throws
    <3>2. \A v \in Threads : AbsJob(v)' = AbsJob(v)
      BY <2>3, <3>1, SameJob
    <3> QED
      BY <3>1, <3>2, AbortMoves
  <2> QED
    BY <2>1, <2>4, <2>5
<1>5. CASE JoinTapeInstr(t)
  <2>1. opc[t] = "exec" /\ t = 0 /\ UNCHANGED <<OTI, cur, aborted>>
    BY <1>5 DEF JoinTapeInstr
  <2>2. CASE UNCHANGED unjoined /\ opc' = [opc EXCEPT ![t] = "joining"]
    <3>1. AbsJob(t)' = AbsJob(t)
      BY <1>0, <2>1, <2>2 DEF AbsJob, Busy
    <3>2. \A u \in Threads \ {t} : AbsJob(u)' = AbsJob(u)
      BY <1>c, <2>1, <2>2, SameJob
    <3> QED
      BY <1>m, <2>1, <3>1, <3>2, NoJobMoves
  <2>3. ASSUME NEW u \in unjoined \ (0 .. width - 1), OTI[u].finished,
               unjoined' = unjoined \ {u}, UNCHANGED opc
        PROVE  FJ!Next
    <3>1. u \in Threads /\ AbsMode' = AbsMode
      BY <1>m, <2>1 DEF TypeOK
    <3>2. \A v \in Threads \ {u} : AbsJob(v)' = AbsJob(v)
      BY <2>1, <2>3, SameJob
    <3> QED
      BY <2>3, <3>1, <3>2, JoinMoves
  <2> QED
    BY <1>5, <2>2, <2>3 DEF JoinTapeInstr
<1>6. CASE JoinTapeWake(t)
  <2>1. opc[t] = "joining" /\ t = 0
    BY <1>6 DEF JoinTapeWake, IInv, TapeInv, TapesOK
  <2>2. target \in unjoined \ LineThreads /\ OTI[target].finished
    BY <1>6, <2>1 DEF JoinTapeWake, IInv, TapeInv, JoinersOK
  <2>3. /\ UNCHANGED <<OTI, cur, aborted>> /\ unjoined' = unjoined \ {target}
        /\ opc'[t] = "exec"
    BY <1>0, <1>6 DEF JoinTapeWake
  <2>4. target \in Threads /\ target # t
    BY <2>1, <2>2, NotHanded DEF TypeOK
  <2>5. AbsJob(t)' = AbsJob(t)
    BY <2>1, <2>3, <2>4 DEF AbsJob, Busy
  <2>6. \A u \in Threads \ {t, target} : AbsJob(u)' = AbsJob(u)
    BY <1>c, <2>3, SameJob
  <2> QED
    BY <1>m, <2>2, <2>3, <2>4, <2>5, <2>6, JoinMoves
<1>7. CASE Restart(t) \/ LoadSchedule(t)
  <2>1. UNCHANGED <<OTI, cur, unjoined>>
    BY <1>7 DEF Restart, LoadSchedule
  <2>2. opc[t] \in Busy \ {"fetch"} /\ opc'[t] \in Busy \ {"fetch"}
    BY <1>0, <1>7 DEF Restart, LoadSchedule, Busy
  <2>3. AbsJob(t)' = AbsJob(t)
    BY <2>1, <2>2 DEF AbsJob
  <2>4. \A u \in Threads : AbsJob(u)' = AbsJob(u)
    BY <1>c, <2>1, <2>3, SameJob
  <2>5. CASE aborted'
    BY <2>4, <2>5, AbortMoves
  <2>6. CASE ~aborted'
    <3>1. aborted' = aborted
      BY <2>6 DEF TypeOK
    <3> QED
      BY <1>m, <2>4, <3>1, NoJobMoves
  <2> QED
    BY <2>5, <2>6
<1>8. CASE FinishTape(t)
  <2>1. /\ opc[t] \in {"exec", "ending"} /\ opc'[t] = "pause"
        /\ OTI' = [OTI EXCEPT ![t].finished = TRUE]
        /\ UNCHANGED <<cur, unjoined, aborted>>
    BY <1>0, <1>8 DEF FinishTape
  <2>2. \A u \in Threads : OTI'[u].prognum = OTI[u].prognum /\ OTI'[u].arg = OTI[u].arg
    BY <1>0, <2>1 DEF OTIType
  <2>3. t \in unjoined /\ OTI[t].prognum \in {-1, -2}
    BY <2>1, BusyJob DEF Busy
  <2>4. AbsJob(t) = FJ!Job("running", cur[t].tape, cur[t].arg)
    BY <2>1, <2>3, JobForms DEF Busy
  <2>5. AbsJob(t)' = FJ!Over
    BY <2>1, <2>2, <2>3, JobFormsAfter DEF Busy
  <2>6. \A u \in Threads \ {t} : AbsJob(u)' = AbsJob(u)
    BY <1>c, <2>1, <2>2, SameJob
  <2>7. FJ!Set(t, FJ!Over)
    BY <1>m, <2>1, <2>5, <2>6, OneJobMoves
  <2>8. FJ!Finish(t)
    BY <1>0, <2>4, <2>7 DEF FJ!Finish, FJ!Job
  <2> QED
    BY <2>8 DEF FJ!Next
<1>9. ~WildProgram(t)
  BY DEF WildProgram, IInv, TapeInv, PausesOK
<1> QED
  BY <1>1, <1>2, <1>3, <1>4, <1>5, <1>6, <1>7, <1>8, <1>9 DEF OnlineStep

---------------------------------------------------------------------------
(* Together.                                                               *)

\* No thread has a job at the start.
LEMMA JobInit == Init => FJ!Init
<1> SUFFICES ASSUME Init PROVE FJ!Init
  OBVIOUS
<1>1. unjoined = {} /\ ~aborted /\ cpc = "sync"
  BY DEF Init
<1>2. \A t \in Threads : AbsJob(t) = FJ!Free
  BY <1>1 DEF AbsJob, FJ!Free, FJ!Job
<1>3. AbsMode = "up"
  BY <1>1 DEF AbsMode
<1> QED
  BY <1>2, <1>3 DEF FJ!Init

\* Every step of the Machine is one of ForkJoin or a stutter.
LEMMA JobStep ==
    ASSUME Disciplined
    PROVE  TypeOK /\ TypeOK' /\ IInv /\ [Next]_vars => [FJ!Next]_(FJ!vars)
<1> SUFFICES ASSUME TypeOK, TypeOK', IInv, [Next]_vars
             PROVE  FJ!Next \/ UNCHANGED FJ!vars
  OBVIOUS
<1>1. CASE ~aborted /\ ControlStep
  BY <1>1, ControlMoves
<1>2. ASSUME ~aborted, NEW t \in Threads, OnlineStep(t)
      PROVE  FJ!Next \/ UNCHANGED FJ!vars
  BY <1>2, OnlineMoves
<1>3. CASE SpuriousSync \/ UNCHANGED vars
  <2>1. UNCHANGED <<OTI, opc, cur, unjoined, aborted, cpc>>
    BY <1>3 DEF SpuriousSync, vars, control
  <2>2. \A t \in Threads : AbsJob(t)' = AbsJob(t)
    BY <2>1, SameJob
  <2> QED
    BY <2>1, <2>2, SameMode, NoJobMoves
<1>4. ~Spurious
  BY DEF Spurious, Disciplined
<1> QED
  BY <1>1, <1>2, <1>3, <1>4 DEF Next

(* What Machine promises a program that joins what it runs, run_tape and   *)
(* Lock_Until_Finished_Tape seen from outside: a tape handed to an idle    *)
(* thread is started there once, with the argument it was handed; it is    *)
(* joined when it is over; the machine closes when all are joined.         *)
THEOREM ForkJoinSafety == Disciplined => (Spec => FJ!Safety)
<1> SUFFICES ASSUME Disciplined PROVE Spec => FJ!Safety
  OBVIOUS
<1>1. Init => FJ!Init
  BY JobInit
<1>2. TypeOK /\ TypeOK' /\ IInv /\ [Next]_vars => [FJ!Next]_(FJ!vars)
  BY JobStep
<1> QED
  BY <1>1, <1>2, MachineInvariant, PTL DEF Spec, FJ!Safety
=============================================================================
