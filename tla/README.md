# SCALE-MAMBA in TLA+

Specifications of SCALE-MAMBA, with the TLC configurations that check them and
TLAPS proofs. SCALE-MAMBA runs a compiled program between *n* players by secret
sharing. Each player is one process of many threads; the threads with the same
number, one at each player, talk to each other over connections of their own.

Paths below are relative to the repository; `src/` is its C++ source directory
(`src/src/` in `PROJECT.json`).

## The system

| Part | State | Operations | What makes it correct | Modules |
|---|---|---|---|---|
| **Machine** (`src/Online/Machine.cpp`, `Online.cpp`) | `OTI[t]`: `prognum`, `finished`, `ready`, `arg`; a mutex and two conditions per online thread; the programs | `Init_OTI`, `Synchronize`, `Signal_Ready`, `Pause_While_Nothing_To_Do`, `run_tape`, `Signal_Finished_Tape`, `Lock_Until_Finished_Tape`, `Lock_Until_Ready`, `run` | a join waits for the tape it joins; no tape is lost or overwritten; the machine ends | `Machine`, `ForkJoin` |
| **Schedule, RESTART** (`src/Online/Schedule.cpp`, `Input_Output_Simple.cpp`) | lines of tapes, `line_number` | load, next line, replace | lines are barriers; nothing reads the programs while they are replaced | `Machine` |
| **Offline phases** (`src/Offline/offline_phases.cpp`) | per online thread: queues of unchecked and lists of checked data, the totals `tot*`, `finish_offline`, `finished_offline` | `mult_phase`, `square_phase`, `bit_phase`, `sacrifice_phase`, `propose_numbers_sacrifice`, `check_exit` | the players' lists are the same data in the same order; no thread waits for one that has left; queues are bounded | `Offline` |
| **Offline production** (`offline_Maurer.cpp`, `offline_Reduced.cpp`, `offline_FHE.cpp`, `offline_IO_production.cpp`, `sacrifice.cpp`) | seeds, shares and MACs being made | the protocol of each access structure, and the sacrifice | what is made is a triple, a square, a bit, an input; shares and MACs of one value; correct data pass | `Production` |
| **FHE factory** (`FHE_Factory.cpp`) | per factory thread: a list of batches of proven ciphertexts, the current batch, its number, its lock | `FHE_Factory`, `Do_ZKPoK`, `is_finished`, `Update_If_Empty`, `Next_Off_Production_Line` | all players use the same ciphertext, once; factories stay in step and close only when nobody needs them | `FHEIndustry` |
| **Player messaging** (`src/System/Player.cpp`) | TLS connections per thread number and channel; a hash of the broadcasts | send, receive, broadcast in rounds, `Check_Broadcast` | every round completes; a difference in what was broadcast is found | `Player`, `Opening` |
| **Opening** (`src/LSSS/Open_Protocol.cpp`) | opened values and MACs not yet checked, a counter | open, `RunOpenCheck` | every opened value is checked before the tape ends | `Opening` |
| **Instructions** (`src/Processor/`) | registers, memory, program counter | one per opcode | the tables about the opcodes agree with what is executed | `Instruction`, `Processor` |
| **RunTime, connections** (`src/System/RunTime.cpp`, `Networking.cpp`) | thread numbers and roles, sockets | `Run_Scale`, `Main_Func`, `Get_Connections`, the handshakes | every thread has one role and is connected to its counterparts | `Connect` |
| **SEDP server and clients** (`src/App/`) | clients, their requests, random tuples | connect, request, provide, import | a client's input reaches every player with the same tuple | `Sedp` |
| **Secret sharing** (`src/LSSS/`) | access structure, span program, matrices for opening and for products | set-up from what was entered; local operations on shares | the sets are those entered; everybody can open; products add up | `Linear`, `AccessStructure`, `SpanProgram`, `Sharing` |
| **OT thread, garbled circuits** (`src/OT/`, `src/GC/`) | authenticated bits and ANDs, garbled gates | base OTs, bits, ANDs, garble and evaluate | keys fit MACs; ANDs are ANDs; outputs are those of the circuit | `ABits`, `OTThread` |
| **FHE arithmetic, field arithmetic, tools, Setup dialogue** | algebraic data, files | pure computation | algebra | partly, on small fields |
| **Compiler** (`Compiler/`) | — | runs before the system | the discipline of `RUN_TAPE`/`JOIN_TAPE` | an assumption of `Machine` |

How the parts meet, inside one player:

- `Connect` ends where the threads start: each thread has its connections, and
  its number says which role it has;
- the control thread (`Machine::run`) hands tapes to online threads, and online
  thread 0 may hand tapes to others; both go through `OTI`; a thread runs a tape
  as `Processor` says, and opens values as `Opening` says;
- each online thread consumes the lists that "its" sacrifice thread fills; that
  thread consumes the queues that "its" triple, square and bit threads fill
  (`Offline`); what one step of those threads makes is `Production`, where
  `Offline` only counts it;
- the threads of a player with a Full access structure take ciphertexts from the
  factories (`FHEIndustry`), which `Production` uses as given;
- an online thread that ends sets `finish_offline[t]`, and its four offline
  threads end after it, at all players together;
- a program imports private data through `Sedp`; what it unmasks them with are
  random tuples that `Production` has made;
- between players, threads of one kind and one online thread are in lockstep
  through broadcasts; threads of different kinds are not, and neither are the
  threads inside a player. Most hard behaviours come from there.

The hazards, each at its line, are in `PROJECT.json` under `hazards`, with the
properties that are about them.

## Modules

| Module | What it is |
|---|---|
| `Machine` | the control thread and the online threads of one player |
| `ForkJoin` | the abstract machine: tapes handed out, run once, joined |
| `MachineProps` | the properties of `Machine`, its inductive invariant, and the refinement mapping to `ForkJoin` |
| `MachineProofs` | theorems about `Machine`; that it implements `ForkJoin` |
| `Offline`, `OfflineProps` | the offline and online threads of all players, as producers and consumers of counted data |
| `OfflineProofs`, `OfflineLockstep` | what each action of `Offline` does to its state, and theorems about one player; theorems about players compared |
| `FHEIndustry`, `FHEIndustryProps` | the factories and the threads that take ciphertexts, of all players |
| `FHEIndustryProofs` | theorems about `FHEIndustry` |
| `Player` | connections with small buffers, and the exchanges of all players over them |
| `Opening`, `OpeningProps` | `Open_Protocol`, private I/O and the other users of `Player` |
| `OpeningProofs`, `OpeningChecks` | theorems about `Opening`: the rounds all players go through; what the checks cover |
| `Instruction` | the tables over the opcodes: operands, register types, maxima, direct memory, listing |
| `Processor`, `ProcessorProps` | `execute` of every opcode modelled, the registers, memory and openings in two halves |
| `Connect`, `ConnectProps` | numbers and roles of the threads, connections, handshakes |
| `ConnectProofs` | theorems about `Connect` |
| `Sedp`, `SedpProps` | servers, clients and the program that drives a server |
| `SedpProofs` | theorems about `Sedp` |
| `Linear` | vectors and matrices modulo a prime |
| `AccessStructure` | `CAS`: maximal unqualified and minimal qualified sets |
| `SpanProgram` | `MSP` and `Schur_Matrices` |
| `Sharing` | `ShareData` and `Share`: what is set up for a structure, local operations |
| `Production`, `ProductionProps` | PRSS, PRZS, the offline protocols, the sacrifice, message by message |
| `ABits` | authenticated bits, circuits, and what garbling computes locally |
| `OTThread`, `OTThreadProps` | the OT thread of all players, message by message |
| `MC*` | instances for TLC |

### Machine

`Machine` keeps the names of the code. The control thread is at `cpc` with its
loop index `ci`; online thread `t` is at `opc[t]`. Each action is one critical
section or one step between two of them.

| Code | Actions |
|---|---|
| `Machine::Synchronize` (with the mutexes `Init_OTI` locked) | `SyncWait`, `SyncWake`, `SyncUnlock` |
| `Machine::run`, one line | `StartLine`, `DispatchTape`, `Advance`, `JoinLine`, `JoinLineWait`, `JoinLineWake`, `EndOfSchedule` |
| `Machine::run`, shutdown | `StopThread`, `ByeThread`, `DestroyThread` |
| `online_phase` start | `SignalReady` |
| `Pause_While_Nothing_To_Do` | `Pause`, `PauseWake` (`TakeProgram`) |
| `get_OTI_arg`, without the mutex | `FetchArg` |
| `RUN_TAPE`, `JOIN_TAPE`, `RESTART` | `RunTapeInstr`, `JoinTapeInstr`, `JoinTapeWake`, `Restart`, `LoadSchedule` |
| `Signal_Finished_Tape` | `FinishTape` |
| `Lock_Until_Ready`, the end of the thread | `LastCheck`, `LastWake`, `Die` |

A condition variable is the set of its sleepers. A signal removes one of them;
a sleeper that has been removed goes on when the mutex is free. The waits of
the code under `while` look again (`SyncWake`), those under `if` do not
(`JoinLineWake`, `PauseWake`, `LastWake`). The wait of `Synchronize` may return
without a signal in every instance; the others do when `SpuriousWakeups` says so.

Three constants are switches for what surrounds the code:

- `SpuriousWakeups`: POSIX lets `pthread_cond_wait` return without a signal.
- `JoinAll`: whether tape 0 joins what it has run. `Compiler/program.py` lets
  only the main tape run others, takes the thread from a list of free threads,
  and returns it there at the join; nothing makes a program join.
- `EagerTrigger`: whether the answer to RESTART can come before the control
  thread has incremented `line_number`. `Documentation/Restart.tex` asks that
  RESTART be the last instruction of thread 0 while the others wait, and the
  answer is a person's, so normally it cannot.

### Offline

Data are counted, not named: a player has, for each online thread, the sizes of
its queues of unchecked triples, squares and bits, the sizes of its lists of
checked data, their totals, and where each thread is. Since production and
sacrifice append to the end and users take from the front, equal totals at two
players mean equal data, and that is how the players' lists are compared. What
is lockstep between the players in the code (production between its broadcasts,
a sacrifice with its checks) is one action of all players; what is local is an
action of one: a look at the exit condition, a proposal, the reading of the
proposals, the end of a round, the use of data. `Kinds` selects which data an
instance has.

An online thread looks under the lock whether what it uses is there, gives the
lock up, and takes it under the lock again without another look:

| Code | Actions |
|---|---|
| `execute_using_sacrifice_data` | `WaitSacrificed`, `TakeSacrificed` |
| `IO_Data_Wait`, `private_input`, `private_output` | `IO_Data_Wait`, `TakeIO` |

What happens in between is up to all other threads, and a take from a list that is
too short makes a count negative, which `TypeOK` excludes.

### FHEIndustry

A batch (one `ZKPoK` with its `U` ciphertexts) is named by its number in its
factory, a ciphertext by its place in the batch; whether the proofs are right
is not modelled. A *taker* is any thread that calls `Next_Off_Production_Line`:
the triple, square and bit threads and the sacrifice thread, whose input data
need ciphertexts too.

| Code | Actions |
|---|---|
| `Broadcast_Receive` in `is_finished`, `Do_Step0_Step`, `Do_ZKPoK` | `Say`, then `Hear` when all have said |
| `FHE_Factory`, after `is_finished` and after a proof | `Decide`, `Push` |
| `Next_Off_Production_Line`, player 0 | `Try`, `Choose`, `Lock`, `Update`, `Take0` |
| the same, other players | `Receive`, `Check`, `Lock`, `Update`, `Take` |
| `Reshare`, `check_exit` at the end of a step | `Reshare`, `Exit` |

`Current_Factory_Lock` is a variable, because player 0 holds it over several
steps and the constructor holds it for factories 1, 2, ... until the MAC
ciphertexts are proven. `Factory_List_Lock` is never held over a step of the
model. The broadcasts of a round are a parameter: `FullRound` has them all,
`ShortRound` leaves out those in the middle, to make room for a second factory
or taker. The answer `W` of `is_finished` only makes players sleep and is left
out: sleeping is a delay, and any step may be delayed.

In the runs no list reaches `LimitSize`; a factory stops at `BatchBound`
batches instead, at which all players are at once.

### Player and Opening

`Player` is a network of connections `chan[c][p][q]` with buffers of `Cap`
values: a large message is written piece by piece, so that a writer may be stuck
until its peer reads. A player has a list `todo` of the writes and reads of its
round; `Send` and `Receive` do the first one, `PeerGone` and `WriteFails` are
what happens at the connections of a player that has thrown. The rounds of
`Broadcast_Receive`, `Send_Distinct_And_Receive`, `send_all` and the private
exchanges are such lists, in the order of the loops of the code.

`Opening` runs one program at all players: a call `[op, n, who]` becomes rounds
by `RoundsOf`, a round begins with `Begin`, and `End` has its `Effect`:
`Open_To_All_End`, `Open_To_One_End`, `RunOpenCheck` (commit, open, and the
comparison of tau or of the hashes), `Check_Broadcast`, `Update_Checker`. A value
is right or wrong at each player; `SendWrong` makes one message wrong, at most
`Faults` times. A MAC check finds a wrong value iff the taus do not sum to zero,
and a hash is the sequence it was made of.

### Instruction and Processor

Every opcode of `Opcodes` has its operands, its registers and its listing, and
what it computes if that stays in the registers, the memory, the stack or the
program counter; what is entered or taken from the offline phase is one of
`Inputs`; `RUN_TAPE`, `JOIN_TAPE`, outputs and prints leave them alone. Field elements are
residues modulo `Pr` with limbs of `LimbBits` bits where shifts show them; a
share is the value it shares, since `Opening` and `Production` are about the
rest. A read or write outside a vector ends the run with `wild`. `Instruction`
holds the tables over the opcodes that the parser has: `parse`, `get_reg_type`,
`get_max_reg`, `is_direct_memory_access`, the listing of `operator<<`. The
property `TablesAgree` compares them with what `execute` does.

### Connect

`Get_Connections` is translated loop by loop: `OpenConnection` puts a connection
into the backlog of the peer, and `Accept`, `Receive`, `Put` sort what comes in.
The handshakes are modelled for one thread chosen arbitrarily (`watched`), since
threads do not share TLS state: `SSL_connect` and `SSL_accept` in the order of
the players, and the comparison of the name.

### Sedp

`srv[p]` is a server with its accepting thread, its handling thread and the tasks
that serve clients in parallel, `mpc[p]` the calls of the program, `cl[c]` a
client with one thread for each server in every phase, which run one at a time
under a mutex. A tuple is a pair of the server and its place in the list of that
server, so a mask shows of which shares it consists.

### Linear, AccessStructure, SpanProgram, Sharing, Production

The first four are operators: `init_secret_sharing(d)` computes, from what was
entered (threshold, list of sets, span program), the access structure, the span
program, the matrices for opening, the factors of the products and the
assignment of products to players. They follow the code, Gaussian elimination
and search order included, because later steps depend on that order.

`Production` has one job: a structure and what is made for it. `pc[i]` is the
name of the message player `i` waits for. Messages carry a `kind` that the code
has not; a player never looks at it, and `RunsThrough` says that it is always the
one expected.

| Code | Actions |
|---|---|
| `AgreeRandom`, PRZS | `Commit`, `Open`, `Seeded` |
| `PRSS::next_share`, `batch_production` | `NextShares`, `batch_begin`, `batch_end` |
| `mult_inner_subroutine_one`, `_two` | `mult_inner_one`, `mult_inner_send`, `mult_inner_two` |
| `offline_Maurer_bits` | `bits_open`, `Maurer_bits` |
| `make_IO_data` | `collect_input`, `make_IO_data_non_Full`, `Open_To_One_End` |
| `fake_offline` | `fake_deal`, `fake_await`, `fake_dealt` |
| `offline_FHE.cpp`: `offline_FHE_*`, `DistDecrypt`, `Reshare` | `DistDecrypt`, `Reshare`, `Reshare_send`, `Reshare_await`, `Reshare_receive`, `offline_FHE` |
| `sacrifice_*` | `sacrifice_begin`, `sacrifice_po`, `sacrifice_tau`, `sacrifice_end`, `without_sacrifice` |

### ABits and OTThread

`pc[i]` is the routine player `i` is in and its exchange there: it sends
(`Send`), waits, and goes on with the code that follows. Strings of `K` bits are
numbers, a PRNG is the function `Draws` of its seed and a counter, hashes and the
PRF are functions of the same kind. The base transfers of a pair are one exchange.

## Runs

| Run | Instance | Question |
|---|---|---|
| `machine` | 3 threads, three schedules, 2 RUN_TAPEs, 1 RESTART | do joins, lines and restarts respect running tapes; is every wake-up for a reason; does the machine end, and implement `ForkJoin` with its liveness? |
| `offline` | 2 players, 1 online thread, triples and inputs, maxima set | are the data the same everywhere and there when they are taken; does an agreed round never wait for good; do queues stay bounded; are exits for a cause and together; does everything end? |
| `fhe` | 3 players, 1 factory, 2 takers, batches of 2 | do the players use the same ciphertexts, once, and does a factory close only when all are served? |
| `fhe_two_factories` | 2 players, 2 factories, 1 taker of 2 at a time, the full round | are the MAC ciphertexts there before they are used, and does everything end? |
| `opening` | 3 players, three programs, both kinds of sharing, one wrong message, buffers of 2 | is no message taken for another, does a check find whatever was wrong before it, is nobody left waiting? |
| `processor` | every opcode as scalar and vector of 2, and tapes that loop, open, follow one another | do the tables agree with `execute`, is a vector its elements, does an opening yield what it started with? |
| `connect` | 3 players, one online thread, with and without factories or OT | do the threads meet their counterparts, and does everything come up? |
| `sedp` | 2 servers, 2 clients with 1 and 2 data | do the servers, which never talk, give and read their tuples in one order? |
| `sharing` | 12 structures of 2 to 5 players, 36 jobs | is the set-up right for each; are triples, squares, bits and inputs right, and do they pass? |
| `ot` | 3 players, two circuits, one of them with one output | are bits authenticated, ANDs right; is every wire evaluated to its value under the mask of all; does no check fail? |
| `sharing_overwritten` | 4 players, one without a set of its own | violated: the product is not a sharing |
| `ot_one_output` | 3 players, the circuit with one output | violated: the owner of the output does not get what the circuit gives |

**Bounds.** `SpawnBound` and `RestartBound` bound RUN_TAPE and RESTART; three
threads let the first run tapes on two at once and join them in either order.
The schedules have a narrow line followed by a wide one, one declares too many
threads, one names a missing tape. In `Offline`, queue limits, batch sizes and
minima are scaled down from `src/config.h` with their order kept; the number of
uses by an online thread is bounded, which is what a program of finite length
does. The instance has triples and inputs, and the online thread uses two triples
at once, which are made one in a round. Squares and bits, which share the queue
of squares, have too many states to be beside triples: `MCOffline.cfg` with
`Kinds <- MCSquaresBits`, `Code <- MCCodeSquaresBits`, `max <- MCNone`,
`max_IO_sacrifice = 0`, `maxI = 0`, and without `AllEnd` and `NoneLeftBehind`,
is an instance for them (1.3 million states, no error), and the theorems are
about all kinds. In `FHEIndustry` two takers with batches of two make both the race for the
last ciphertext of a batch and the race for the next batch happen; the third
player is the one that can be left behind when the other two are served; two
factories are enough for player 0 to have a choice and for a lock of the
constructor. In `Opening` a buffer holds two values (`Cap`), so that a broadcast
of three fills it; `Gap` = 1 makes a check due in the second half of an opening;
with three players two can differ about what the third has sent. In
`Processor` the field is the integers modulo 7 in limbs of four bits, so shifts
leave a limb. `Connect` has a backlog of three: the code's is larger than the
number of connections. In `Sharing` and `Production` the field is modulo 7, two
items are made together (`Amortize`), a batch of the PRSS has three shares, so
that one ends in the middle of an item; `MaxCombinations` = 3 makes four players
with threshold one a structure too large to list. The structures have the cases
of the code: a player without a set of its own, players with several sets, a
span program with two rows for a player, one that has to be extended, sets given
as qualified ones. The randomness is one fixed function of seed and counter
(`MCDraws`). In `OTThread` keys have three bits, buckets three triples, and
the two circuits have all gates, an AND after an AND, an input and an output of two
wires. One has an output for each player; the other is as in `OT_Thread`, one output
for player two, and is garbled twice, which has the ANDs of the queue used up.

**Fairness.** Weak fairness for the control thread and for each online thread:
these are POSIX threads, scheduled by the system, and no critical section in the
model is held across a wait. A weakly fair thread may be overtaken at a mutex;
the exception is `SignalReady`, which is strongly fair: the control thread holds
the mutex of the thread except while it sleeps in `Synchronize`, and it may sleep
and wake for ever when waits return without a signal; a mutex that is free again
and again is assumed to let a waiter in. Weak fairness also for each thread of `Offline`, plus the
assumption that a tape ends, and for each factory thread and each taker of
`FHEIndustry`; the polling of `Update_If_Empty` and of the other players' wait
for a batch is a wait in the model. `ForkJoin`'s fairness is that of tapes handed
out, and is shown to follow. In `Opening`, `Sedp` and `Connect` the whole step
relation is weakly fair: behaviours there are finite, so this says only that the
system does not stop while something can be done. `Processor`, `Production` and
`OTThread` state no fairness; `Production`, `OTThread` and `Connect` are checked
for deadlock instead.

## Proofs

All theorems hold for every value of the constants that the assumptions of the
modules and the hypotheses named here allow. The invariants are in the
`Props` modules, as conjunctions of named parts; `MachineProofs`,
`OfflineProofs`, `FHEIndustryProofs`, `ConnectProofs` and `SedpProofs` each prove
that theirs is inductive, with one step per action and under it one per conjunct
that the action can disturb. To have TLC look at one on an instance, add
`INVARIANT IInv` to the configuration of the component; it holds in every run of
the five. `OpeningProofs` and `OpeningChecks` state their own, about a sequence
that goes on for ever, which TLC cannot evaluate.

### Machine

- Without any assumption on the switches: `TypeCorrect` (with `LoopsOK`: an
  index stays in its line, a line fits the threads, because a schedule with
  more threads is refused at RESTART), and `StartSynchronized`.
- Under `Disciplined` (signals end waits, tapes join, the answer to RESTART
  takes its time): `MachineInvariant`, that `IInv` holds, and from it
  `LinesAreBarriers`, `WokenForAReason`, `ReloadsAlone`, `JoinsAfterFinish`,
  `TapesNotOverwritten`, `LinesNotSkipped`.
- Under `Disciplined`, `ForkJoinSafety`: every step of `Machine` is a step of
  `ForkJoin` or leaves its variables alone.

`IInv` is needed because none of these is inductive: that a join returns only
after the end rests on a woken joiner having been woken by the end
(`JoinersOK`), which rests on nobody handing the thread another tape meanwhile,
that is on the handed threads being exactly the unjoined ones (`TapesOK`,
`UnjoinedOK`), which in turn rests on the joins. A paused thread that is awake
has something to take because every signal on `machine_ready` follows a change
of `prognum` that stays until taken, the second signal of the shutdown included
(`PausesOK`). The proof goes through the steps of the control thread and of an
online thread once each (`TapeControlStep`, `TapeOnlineStep`).

For the refinement, the tape of a thread (`AbsJob`) and the mode of the machine
(`AbsMode`) are computed from where the threads are; only five actions change
them, one for each action of `ForkJoin`, and lemmas show for every
other action that they stay. That a tape is started with the argument it was
handed, and handed only to an idle thread, is where the invariant is used. The
liveness part of `ForkJoin` is in the run `machine` only.

Each switch is needed, and TLC shows what happens with it the other way:
with `SpuriousWakeups` a join returns early and a thread runs program -2; with
`EagerTrigger` the first line of a new schedule is skipped; without `JoinAll` a
tape can be replaced before its thread takes it.

### Offline

`OfflineProofs` and `OfflineLockstep` assume what the module assumes: limits and
batches are natural numbers, player 0 is one of the players.

- `TypeCorrect`: no count goes below zero, so neither an online thread nor a
  sacrifice takes what is not there. For the online thread this is `TakeOK`: from
  the look to the take only the thread itself takes from its lists, others add to
  them. `AgreedReady`: what has been agreed on is in
  the queues of every player when the round begins. Only the sacrifice thread
  takes from its queues; what it has proposed, and the minimum of the proposals
  all the more, stays there until it takes it (`ReadyOK`).
- `ExitsForCause`: the exit signal is a number that a proposal could also reach
  by rounding; `CauseOK` follows it from the flag of an online thread through the
  proposals under way to the agreed numbers. `ExitForCause` is about sacrifice
  threads and producers: one that has ended serves an online thread that has ended
  too, or all kinds have passed their maxima (`Unneeded`), at some player, and for
  the producers, which follow player 0, at player 0. That
  `finish_offline` has been set for one of these reasons is `LeaveOK`.
- `Agreement`: the sacrifice threads of different players never look at each
  other's state, only at the proposals. `LockstepOK` says that there are, for each
  online thread, a count of collections `C[p]` and a list of proposals `X[p]` such
  that nobody is more than one collection ahead, the proposals under way are
  those the reader has not collected yet, and players with equal counts *will
  have* the same totals and *will have taken* as much, when each has done what is
  left of its round (`WillHave`, `Spent`); who is one ahead has the result of one
  more. It is what a history variable would hold, stated with an existential
  quantifier instead, so the module needs none.
- `QueuesFit`: player 0 stops when its queue is too big, so it outgrows its limit
  by one batch at most; the others have made the same batches, and have taken
  what 0 has but for one round (`BatchesOK` and `Spent`), so theirs outgrow it by a
  batch and what a round takes.
- `NoneLeft`: players decide alike to leave for good, hence nobody waits for the
  proposal of one that has gone (`SameEnd`). Its hypothesis is one online thread,
  or a kind of data without a maximum, which is the default. Otherwise the
  decision reads `totI`, which thread 0 writes at its own pace, and the code goes
  wrong: see below.

`LockstepOK` quantifies over functions on all numbers and cannot be given to TLC;
the properties that follow from it are checked by `offline`.

### FHEIndustry

`TypeCorrect`, `TakesRight`, `NeverPassed`, `ClosesRight` and `MacsFirst` from one
invariant. Its heart is `ChoicesOK`: each choice that player 0 has told and a
player has not followed is owed by one of its takers, once, and is used at player 0
and unused at that player. A batch that has an unused owed ciphertext cannot be
used up, so `Update_If_Empty` does not pass it, and a taker that gave the lock up
between looking at the batch and taking finds the same batch (`SeenStays`).
`CountsOK` relates what player 0 has taken to what a player has taken, holds and
will receive; with it, a word "all finished" said by one player is right for all
(`ServedOK`). `MacsOK` follows the lock of the constructor. The assumption on
`Takers` only says that they are not the names of two other holders of a lock.

### Opening

`TypeCorrect`, and `SameRoundAlways`: for every number of players, size of the
buffers, gap and number of wrong values, a read takes the message that its peer
wrote for that round of that call. The hypothesis `Proper` is on the programs:
calls with a number and a player, and between the halves of an opening only
private input and output, public input and the second half
(`Open_Protocol.cpp:66` and 138: `Open_To_All_Begin` and `_End` leave the
connection of the opening to the caller, and an opening or a check between them
would read the shares of the first); nobody sends its shares to itself; the
gap is a natural number.

Nothing in a message says what it is for, so that a message is read by the right
round is a matter of both players having come the same way. `Trace` is the one
sequence of rounds that a program makes all players go through, with the checks
that become due on the way; it does not depend on the order of the steps, nor on
wrong values, since these can only end a player. `Follows` says that each player
is at one of its rounds (`at[p]`), with a part of that round's writes and reads
left, and that what is on a connection from p to q is what the rounds between
where q has come as a reader and p as a writer write there, in that order
(`Wrote`, `Read`). Rounds with two halves are the difficulty: a `begin` is
read by an `end` that comes later, after other calls have used the other
connection, or by the same call. The trace is an existential quantifier over
functions on the numbers, as `LockstepOK` is for `Offline`, so there is no
history variable in the model.

The writes and reads of a round are `FlattenSeq` of a loop over the players; that
each player is written to and read from once in it, by whoever is to, is proved
by induction on the players (`FlattenSeq` has no closed form, but what it contains,
and where, does).

`NothingUncheckedAlways`, in `OpeningChecks`: what a player has taken as checked
is right at every player (for public inputs, the same as its own), and what it has
not is just what it says in the next check. The hypotheses are `Proper` and
`Faults <= 1`, at most one wrong value, as in the run. A value of the model is
right or wrong, so two wrong ones are equal; those of the code are not, and a check
takes a random combination or a hash of the values themselves.
Whose value is wrong, which round it is of and for whom it is meant are free.

The invariant `Sound` adds the contents to `Follows`. `Held` is what one player has
of another from round n of the trace, on the way or read and not yet used. `Keeps`:
the buffers of a player (`vals`, `macs`, `sha256`, the public inputs, the hash of
the broadcasts) are the last part, as long as the trace says, of all it has opened,
entered and heard. `Checked`: what is before that part is right at every player.
For the step of a check to keep this, it has to be known that a wrong value cannot
be compared with an equal one. So `Sound` says where the one wrong value is: either
nothing that is on its way in a round that compares differs from what its sender
has (`Exact`), and at some player everything is right (`RightAt`), so that one is
there to contradict the others; or only what is compared has been tampered with, and
what all have opened, heard and entered is right anyway. A player keeps a wrong
opening or broadcast and says it again in its next check, which is true of what it
has: so the first case asks of what is compared that it is true of its sender, and
not that it is right. From either case, when a check passes at a player, what it
covers is right at all (`Settles`). That what waits for a check is what `open_cnt`
counts, and no more than the gap, follows from `Keeps` and the trace.

### Connect

- `Paired`, `Complete`: a server puts a connection where the client says it is
  for, "even though we dont know i is correct", and counts. Each connection that a
  client has opened (`Opened`, from its loop) is under way, once, or in the place it
  was made for (`BacklogsOK`, `ClientsOK`, `ServersOK`). A player that starts its
  threads has counted `2 * tnthreads` connections for each player before it;
  `CountsOK` says that as many of its places are filled, and there are no more
  places (a pigeonhole argument, `PlacesCounted`): so all are filled.
- `RolesFit` and `Meet`, under `Numbered`: at most 2000 online threads and 10000
  factories, as the gaps between the numbers allow, and not factories and the OT
  thread both, for which the numbers are wrong in the code: see below.

### Sedp

`Agree`, that `TuplesAgree` holds, under two hypotheses: `Distinct`, clients have
distinct numbers, and `Enough`, the program makes a tuple for each datum. The
numbers of servers, clients and data are any.

A tuple has no name in the messages. A server lays the data of its clients one
after another in the order of its map, and gives a client the tuples at its place;
it collects the data in that order, and the program takes the k-th with its k-th
tuple. The lemmas are about this order: the place of a client is a bijection
between clients and `1 .. max_clients` (`RankOnto`, `MapOrder`); the sum that
`handle_clients` keeps is the number of data of the clients before (`StartIs`); the
places of all data are `1 .. Total`, each once (`SlotInjective`, `SlotOnto`); and
what is collected is at each place the datum of that place (`CollectedIs`). The
last two are about recursive functions over data; induction is by a least
counterexample, with the well-foundedness of `<` on the naturals.

The invariant says of each server and client what lies on the two sockets between
them, as a function of how far each has come (`DownOf`, `UpOf`), and nothing about
two servers or two clients: that servers agree follows from each keeping to the
same order, in whatever order it met the clients.

### What is not proved

Only model-checked: liveness (`Termination`, `AllEnd`, `AllClose`, `AllUp`,
the fairness of `ForkJoin`), which is out of the prover's
reach; and everything about `Processor`, `Production` and `OTThread`. `Processor` uses the bitwise operators, with which the prover cannot
work. `SpanProgram`, `Sharing` and the garbling compute by elimination and search,
and what these return is recursion over data, which the provers have no induction
for; of the recursive functions of `Sedp` a least counterexample is enough, but
that needs the result in closed form.

## Disagreements between code and documentation

Recorded under `findings`:

- `sharing_overwritten`. For a player that has no set of its own,
  `ShareData.cpp:516` overwrites the entry that says its share 0 comes from
  another player; `offline_Reduced.cpp:168` then says that `cc[j]` "holds a valid
  share for all players", and it does not.
- `ot_one_output`. `Garbled_Circuit::Evaluate` looks for the wires of the outputs
  by going back over the output wires of each player (`Garbled.cpp:435`), where
  `Garble` goes back over the outputs (182). With one output and three players, as
  in `OT_Thread.cpp:80-85`, it reads past the end of `numO` and starts at any wire;
  `Circuit.h:31` has the outputs at the last ones. The model lets the start be any
  (`OutputStarts`). The run `ot` has this circuit too, and `WiresRight` says that
  up to there everything is right.

Others, and the change to a configuration that lets TLC show each:

- *Program -2.* `MCMachine.cfg` with `SpuriousWakeups = TRUE`: `NeverRunsNothing`
  fails. `Pause_While_Nothing_To_Do` (`Machine.cpp:145`) does not look again after
  its wait; `Online.cpp:48` says what it waits for.
- *A mutex is destroyed in use.* `MCMachine.cfg` with
  `INVARIANT DestroyedAfterSignOut` (`Machine.cpp:255`, against the comment at 247).
- *Two online threads do not leave together.* `MCOffline.cfg` with `NOnline = 2`,
  `fake_sacrifice = TRUE`, `sz_IO_batch = 2`, `Code <- MCCodeNothing`:
  `NoneLeftBehind` fails. `totI` decides alone at each player
  (`offline_phases.cpp:697`, against 274 and `offline_data.h:107`).
- *Factories out of step.* `MCFHEIndustryTwo.cfg` with `NFactories = 1`,
  `Items <- MCOneItem`, `U = 1`, `LimitSize = 5`, `BatchBound = 7` and
  `INVARIANT Lockstep`: the size of a list decides alone at each player
  (`FHE_Factory.cpp:485`, against 224).
- *An exit during the first proof.* `MCFHEIndustryTwo.cfg` with `NFactories = 1`,
  `Items <- MCOneItem`, `Steps <- MCNoStep`, `U = 1` and `INVARIANT MacsProved`:
  MAC ciphertexts are read unproven (`FHE_Factory.cpp:451`, against 283 and 445).
- *Clients wait for each other.* `MCSedp.cfg` with `PROPERTY AllImported`: the
  threads of a client take one mutex, in any order, and wait with it for the
  server they were made for (`Client.cpp:141`; `Client.h`, `execute`: "wait for all
  calls to finish").

Met while reading, with no property of their own:

- with factories and the OT thread both, `RunTime.cpp:143` gives the last factory
  the number of the OT thread (`RolesRight` is checked, and proved, with either);
- `operator<<` lists the clear `SHRCI` as secret (`Instruction.cpp:782-791`);
- `to_signed_bigint` makes (p-1)/2 negative, and its mask keeps `len` bits where
  the comment has one more; `gfp::SHL` loses the bits that leave the limbs;
- `POpen_Start` and `POpen_Stop` share `Sh_PO`: openings in halves cannot nest;
- `PRSS::batch_production` starts with a batch of zeros, so the first shares of a
  large Shamir structure are 0 (`PRSS.cpp:181`);
- `check_macs` overwrites its value for each of several keys (`Share.cpp:339`);
- `Combinations(n, 0)` is n; a player in every unqualified set has no shares, and
  `mult_proc[i][0]` is then out of bounds;
- `init` is set before the other globals of `Init_Configure`
  (`offline_Reduced.cpp:17-19`), and threads test it without a lock;
- `Networking.cpp:52` loops while `recv` returns 0, which a closed peer makes it do
  for ever; `Signal_Ready(i, false)` overwrites `prognum` (`Machine.cpp:128`);
- with `fake_offline` and no `fake_sacrifice` in the Full case, `src/Player.cpp:408`
  starts no factory and the sacrifice waits for one;
- the DEBUG build does not compile.

## What is abstracted

- *Player, Opening*: messages of `Send_Distinct_And_Receive` fit the buffers, as
  those of the code do. Ciphers and TLS are left out.
- *Processor*: instructions of the other players' threads are not interleaved:
  threads share memory only by the will of a program.
- *Sedp*: clients have distinct numbers; `put_random_triple`, which nothing calls,
  `verify_triples`, which prints, and clients that stop half-way are left out.
- *Connect*: retries of DNS and of a refused connection are a delay.
- *Production*: a ciphertext is its plaintext, randomness inside encryption a
  PRNG; the bit job makes its bits and its squares one after the other on one
  connection, where the code has a thread for each; a message of fake dealing
  holds a whole batch; the sacrifice has `rep` = 1 and a fixed coin; local steps
  between two messages are one.
- *OTThread*: `OT_Amort` and multiples of eight are ignored; the encryption of the
  base transfers is external; the gates of a circuit are in topological order; no
  player's choice bits are all zero.

## Not modelled, and the plan

Not modelled: the arithmetic of rings, encryption and zero-knowledge proofs
(`src/FHE`, `ZKPoK.cpp`): pure algebra on data too large for TLC; the files of
memory, schedules, keys and certificates, and the dialogue of `Setup`; ciphers and
hash functions; option parsing; the compiler.

Left to do: the file of the memory between two runs of a program; proofs about
`Processor`, for which its operations on bits would have to be parameters.
