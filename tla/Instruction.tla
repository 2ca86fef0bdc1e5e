----------------------------- MODULE Instruction ------------------------------
(***************************************************************************)
(* The tables of Processor/Instruction.cpp: what is read from the tape for *)
(* each opcode, what registers and memory it is counted for, which         *)
(* registers the verbose listing names, and which ones execute works on.   *)
(* These are four separate switches of the code over the same opcodes.     *)
(*                                                                         *)
(* A register is a pair <<bank, index>>; the banks are c (Cp), s (Sp) and  *)
(* r (Ri).  On a tape an instruction is [op, size, args].                  *)
(***************************************************************************)
EXTENDS Naturals, Integers, Sequences, FiniteSets

MaxOf(S) == CHOOSE x \in S : \A y \in S : y <= x

-----------------------------------------------------------------------------
(* parse_operands: the opcodes by the operands they have on the tape.      *)

ThreeRegs == {"ADDC", "ADDS", "ADDM", "SUBC", "SUBS", "SUBML", "SUBMR", "MULC", "MULM", "DIVC", "MODC", "TRIPLE", "ANDC",
              "XORC", "ORC", "SHLC", "SHRC", "LTINT", "GTINT", "EQINT", "ADDINT", "SUBINT", "MULINT", "DIVINT", "RUN_TAPE"}
TwoRegs == {"LDMCI", "LDMSI", "STMCI", "STMSI", "MOVC", "MOVS", "MOVINT", "LDMINTI", "STMINTI", "LEGENDREC", "SQUARE",
            "CONVINT", "LTZINT", "EQZINT", "RAND", "DIGESTC"}
OneReg == {"BIT", "PRINTREGPLAIN", "LDTN", "LDARG", "STARG", "JMPI", "PUSHINT", "POPINT", "PRINTCHRINT", "PRINTSTRINT", "PRINTINT"}
TwoRegsInt == {"ADDCI", "ADDSI", "SUBCI", "SUBSI", "SUBCFI", "SUBSFI", "MULCI", "MULSI", "DIVCI", "MODCI", "ANDCI", "XORCI",
               "ORCI", "SHLCI", "SHRCI", "NOTC", "CONVMODP"}
OneRegInt == {"LDI", "LDSI", "LDMC", "LDMS", "STMC", "STMS", "LDMINT", "STMINT", "JMPNZ", "JMPEQZ", "PRINTREG", "LDINT",
              "INPUT_CLEAR", "OUTPUT_CLEAR", "INPUT_INT", "OPEN_CHAN", "OUTPUT_INT"}
RegPlayerInt == {"PRIVATE_INPUT", "PRIVATE_OUTPUT"}
RegIntInt == {"PRINTFIXPLAIN"}
IntOnly == {"PRINTSTR", "PRINTCHR", "JMP", "START_TIMER", "STOP_TIMER", "CLOSE_CHAN", "PRINTMEM", "JOIN_TAPE", "REQBL"}
NoOperand == {"CLEAR_MEMORY", "CLEAR_REGISTERS", "RESTART", "CRASH"}
Opens == {"STARTOPEN", "STOPOPEN"}
Shares == {"OUTPUT_SHARE", "INPUT_SHARE"}

Opcodes == ThreeRegs \cup TwoRegs \cup OneReg \cup TwoRegsInt \cup OneRegInt \cup RegPlayerInt \cup RegIntInt
           \cup IntOnly \cup NoOperand \cup Opens \cup Shares \cup {"PRINTFLOATPLAIN"}

\* The number of registers and of integers read, for the fixed lengths.
Regs(op) == CASE op \in ThreeRegs -> 3 [] op \in TwoRegs \cup TwoRegsInt -> 2
              [] op \in OneReg \cup OneRegInt \cup RegPlayerInt \cup RegIntInt -> 1 [] OTHER -> 0

\* An instruction as it is after parsing.  What is not read is zero.
parse(w) ==
  LET k == Regs(w.op)
      int == IF k + 1 \in DOMAIN w.args THEN w.args[k + 1] ELSE 0
  IN  [op |-> w.op, size |-> IF w.size = 0 THEN 1 ELSE w.size,
       r |-> [j \in 1 .. 4 |-> IF j <= k THEN w.args[j] ELSE 0],
       n |-> IF w.op \in RegPlayerInt \cup Opens \cup Shares \cup {"PRINTFLOATPLAIN"} THEN 0 ELSE int,
       start |-> CASE w.op \in Opens \cup {"PRINTFLOATPLAIN"} -> w.args
                   [] w.op \in Shares -> Tail(w.args)
                   [] OTHER -> <<>>]

-----------------------------------------------------------------------------
(* What an instruction is counted for.                                     *)

IntWrites == {"LDMINT", "LDMINTI", "MOVINT", "POPINT", "LDTN", "LDARG", "INPUT_INT", "OPEN_CHAN", "RAND", "LDINT", "CONVMODP",
              "ADDINT", "SUBINT", "MULINT", "DIVINT", "LTZINT", "LTINT", "GTINT", "EQINT", "EQZINT", "STMINT"}

get_reg_type(i) == IF i.op \in IntWrites THEN "INT" ELSE "MODP"

\* The mutant of get_max_reg: the vector is not counted.
FaultyGet_max_reg(i, type) ==
  IF get_reg_type(i) # type THEN 0
  ELSE (IF i.start # <<>> THEN MaxOf({i.start[j] : j \in DOMAIN i.start}) ELSE MaxOf({i.r[j] : j \in 1 .. 3})) + 1

get_max_reg(i, type) ==
  IF get_reg_type(i) # type THEN 0
  ELSE (IF i.start # <<>> THEN MaxOf({i.start[j] : j \in DOMAIN i.start}) ELSE MaxOf({i.r[j] : j \in 1 .. 3})) + i.size

is_direct_memory_access(i, secret) ==
  i.op \in IF secret THEN {"LDMS", "STMS"} ELSE {"LDMC", "STMC", "LDMINT", "STMINT"}

get_mem(i, type, secret) ==
  IF get_reg_type(i) = type /\ is_direct_memory_access(i, secret) THEN i.n + i.size ELSE 0

\* Program::compute_constants.
num_reg(prog, type) == MaxOf({0} \cup {get_max_reg(prog[k], type) : k \in DOMAIN prog})
direct_mem(prog, type, secret) == MaxOf({0} \cup {get_mem(prog[k], type, secret) : k \in DOMAIN prog})

-----------------------------------------------------------------------------
(* The banks the verbose listing gives the operands r[0], r[1], r[2].      *)

ListsThree(op) ==
  CASE op \in {"ADDC", "SUBC", "MULC", "DIVC", "MODC", "ANDC", "XORC", "ORC", "SHLC", "SHRC"} -> <<"c", "c", "c">>
    [] op \in {"ADDS", "SUBS", "TRIPLE"} -> <<"s", "s", "s">>
    [] op \in {"ADDINT", "SUBINT", "MULINT", "DIVINT", "LTINT", "GTINT", "EQINT"} -> <<"r", "r", "r">>
    [] op \in {"ADDM", "SUBML", "MULM"} -> <<"s", "s", "c">>
    [] op = "SUBMR" -> <<"s", "c", "s">>
    [] op = "RUN_TAPE" -> <<>>

\* The mutant of ListsTwo: all that has an integer is taken to be clear.
FaultyListsTwo(op) == IF op \in TwoRegsInt THEN <<"c", "c">> ELSE IF op \in {"MOVS", "SQUARE"} THEN <<"s", "s">> ELSE <<"r", "r">>

ListsTwo(op) ==
  CASE op \in {"LDMCI", "CONVINT", "STMCI"} -> <<"c", "r">>
    [] op \in {"LDMSI", "STMSI"} -> <<"s", "r">>
    [] op \in {"MOVC", "LEGENDREC", "DIGESTC"} -> <<"c", "c">>
    [] op \in {"MOVS", "SQUARE"} -> <<"s", "s">>
    [] op \in {"MOVINT", "LDMINTI", "RAND", "STMINTI", "LTZINT", "EQZINT"} -> <<"r", "r">>
    [] op \in {"ADDCI", "SUBCI", "SUBCFI", "MULCI", "DIVCI", "MODCI", "ANDCI", "XORCI", "ORCI", "SHLCI", "NOTC"} -> <<"c", "c">>
    [] op \in {"ADDSI", "SUBSI", "SUBSFI", "MULSI", "SHRCI"} -> <<"s", "s">>
    [] op = "CONVMODP" -> <<"r", "c">>

ListsOne(op) ==
  CASE op = "PRINTREGPLAIN" -> <<"c">>
    [] op = "BIT" -> <<"s">>
    [] op \in {"PRINTINT", "PRINTCHRINT", "PRINTSTRINT", "JMPI", "PUSHINT", "POPINT", "STARG", "LDTN", "LDARG"} -> <<"r">>
    [] op \in {"LDINT", "LDMINT", "STMINT", "JMPNZ", "JMPEQZ", "INPUT_INT", "OPEN_CHAN", "OUTPUT_INT"} -> <<"r">>
    [] op \in {"LDSI", "LDMS", "STMS"} -> <<"s">>
    [] op \in {"LDI", "LDMC", "STMC", "PRINTREG", "INPUT_CLEAR", "OUTPUT_CLEAR"} -> <<"c">>
    [] op \in {"PRIVATE_INPUT", "PRIVATE_OUTPUT"} -> <<"s">>
    [] op = "PRINTFIXPLAIN" -> <<"c">>

\* The bank of the registers of start.
ListsVector(op) == IF op \in {"PRINTFLOATPLAIN", "STOPOPEN"} THEN "c" ELSE "s"

\* The registers the listing of i names.
Listed(i) ==
  LET banks == CASE Regs(i.op) = 3 -> ListsThree(i.op) [] Regs(i.op) = 2 -> ListsTwo(i.op)
                 [] Regs(i.op) = 1 -> ListsOne(i.op) [] OTHER -> <<>>
  IN  {<<banks[j], i.r[j]>> : j \in DOMAIN banks} \cup {<<ListsVector(i.op), i.start[j]>> : j \in DOMAIN i.start}
=============================================================================
