---------------------------- MODULE ProcessorProps ----------------------------
(***************************************************************************)
(* What the tables of Instruction.cpp and execute owe to one another.      *)
(***************************************************************************)
EXTENDS Processor, Functions

Current == s.prog[s.PC + 1]
Executes == halted = "no" /\ s.PC \in 0 .. Len(s.prog) - 1
Direct == (LoadOps \cup StoreOps) \ Indirect
Iterations(i) ==
  {[i EXCEPT !.r = <<i.r[1] + k, i.r[2] + k, i.r[3] + k, 0>>, !.n = IF i.op \in Direct THEN @ + k ELSE @, !.size = 1]
     : k \in 0 .. i.size - 1}

(* What an instruction writes, or reads after the tape wrote it, lies in   *)
(* the registers that were counted, though get_reg_type gives each opcode  *)
(* one type only; and what it uses directly lies in the memory.            *)
AccessesInRange ==
  Executes =>
    \A i \in IF Current.op \in Opens THEN {Current} ELSE Iterations(Current) :
      /\ InRange(Writes(i), s.reg)
      /\ InRange(Reads(i) \cap s.written, s.reg)
      /\ i.op \in Direct => i.n \in DOMAIN mem[MemoryBank(i.op)]

(* A vector instruction whose iterations do not use each other's results   *)
(* does the same as the instruction on each element.                       *)
VectorIsElementwise ==
  [][ (Executes /\ halted' = "no" /\ Current.op \in ArithmeticOps \cup Direct) =>
        LET its == Iterations(Current)
            old == [s EXCEPT !.PC = 0]
        IN  (\A i, j \in its : Writes(i) \cap Reads(j) = {}) =>
              \A i \in its :
                CASE i.op \in ArithmeticOps -> s'.reg[Arithmetic(i.op)[1]][i.r[1]] = Compute(i, old)
                  [] i.op \in LoadOps -> s'.reg[MemoryBank(i.op)][i.r[1]] = mem[MemoryBank(i.op)][i.n]
                  [] i.op \in StoreOps -> mem'[MemoryBank(i.op)][i.n] = s.reg[MemoryBank(i.op)][i.r[1]] ]_vars

(* STOPOPEN yields what the registers of STARTOPEN held at that time,      *)
(* whatever ran in between.                                                *)
OpensWhatStarted ==
  [][ (Executes /\ Current.op = "STOPOPEN" /\ halted' = "no") =>
        \E start \in {s.prog[k] : k \in {k \in 1 .. s.PC : s.prog[k].op = "STARTOPEN"}} :
          \A j \in DOMAIN start.start : \A k \in 0 .. start.size - 1 :
            s'.reg.c[Current.start[j] + k] = snap[start.start[j] + k] ]_vars

(* The verbose listing names the registers execute works on, in their      *)
(* banks.  SHRCI, which it calls secret, is left out.                      *)
ListingIsWhatRuns ==
  Executes /\ Current.op # "SHRCI" =>
    LET i == [Current EXCEPT !.size = 1] IN Listed(i) = Reads(i) \cup Writes(i)

(* The tables of Instruction.cpp, each a switch of its own over the        *)
(* opcodes, say of an instruction what execute does.                       *)
TablesAgree == AccessesInRange /\ ListingIsWhatRuns
=============================================================================
