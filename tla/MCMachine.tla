----------------------------- MODULE MCMachine -----------------------------
(***************************************************************************)
(* Instances of Machine for TLC.  The schedules: one whose first line is   *)
(* one tape, which may run tapes on two other threads at once, and whose   *)
(* second is three; one that declares a thread more than there are; and    *)
(* one whose line names a tape that is not in it.                          *)
(***************************************************************************)
EXTENDS MachineProps

MCArgs == {1, 2}

E(p, a) == [tape |-> p, arg |-> a]
S(n, np, lines) == [nthreads |-> n, nprogs |-> np, Sch |-> lines]

Three   == S(3, 2, << <<E(0, 1)>>, <<E(0, 2), E(1, 1), E(1, 2)>> >>)
TooWide == S(4, 1, << <<E(0, 1)>> >>)
BadTape == S(3, 1, << <<E(1, 1)>> >>)

MCSchedules == {Three, TooWide, BadTape}
=============================================================================
