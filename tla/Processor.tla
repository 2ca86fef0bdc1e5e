------------------------------ MODULE Processor -------------------------------
(***************************************************************************)
(* Processor::execute and Instruction::execute: one online thread that     *)
(* runs the tapes it is given, one after another, on its own registers and *)
(* on the memory.  Field elements are residues modulo Pr and a share is    *)
(* the value it shares; an integer register is a C long, kept small by the *)
(* programs.  A read or write outside a vector is undefined: it ends the   *)
(* run with "wild".  Other exceptions end it with their name.              *)
(***************************************************************************)
EXTENDS Instruction

CONSTANTS Pr,         \* the prime
          LimbBits,   \* the bits of the limbs of a field element
          Threads,    \* the numbers the online thread may have
          Tapes,      \* the sequences of tapes it may be given
          Inputs,     \* what its user enters, and the offline data
          Digest(_),  \* the hash, as a field element
          Random      \* the next number of the PRNG, whose seed is fixed

LOCAL INSTANCE Bitwise

VARIABLES thread, tapes,  \* the number of the thread and the tapes it has left
          s,              \* its Processor
          mem,            \* mem[bank]: the memories Mc, Ms and Mr
          halted, snap    \* how it ended, and what the last STARTOPEN opened

vars == <<thread, tapes, s, mem, halted, snap>>

Banks == {"c", "s", "r"}
Z == 0 .. Pr - 1
Zeros(k) == [i \in 0 .. k - 1 |-> 0]
Power2(k) == 2 ^ k

Cut(f, k) == [i \in 0 .. k - 1 |-> IF i \in DOMAIN f THEN f[i] ELSE 0]

\* The registers as Processor::execute resizes them: what is left of the tape
\* before stays.
Resize(reg, prog) ==
  [c |-> Cut(reg.c, num_reg(prog, "MODP")), s |-> Cut(reg.s, num_reg(prog, "MODP")), r |-> Cut(reg.r, num_reg(prog, "INT"))]

\* Machine::Load_Schedule_Into_Memory: the memory covers what the tapes use directly.
Load(ts) ==
  LET need(t, x) == MaxOf({0} \cup {direct_mem(ts[k], t, x) : k \in DOMAIN ts})
  IN  [c |-> Zeros(need("MODP", FALSE)), s |-> Zeros(need("MODP", TRUE)), r |-> Zeros(need("INT", FALSE))]

Fresh(reg, prog) == [PC |-> 0, prog |-> prog, reg |-> Resize(reg, prog), stacki |-> <<>>, arg |-> 3, PO |-> <<>>, written |-> {}]

Init ==
  /\ thread \in Threads
  /\ \E ts \in Tapes :
       LET parsed == [k \in DOMAIN ts |-> [j \in DOMAIN ts[k] |-> parse(ts[k][j])]]
       IN  /\ s = Fresh([b \in Banks |-> Zeros(0)], Head(parsed))
           /\ tapes = Tail(parsed)
           /\ mem = Load(parsed)
  /\ halted = "no"
  /\ snap = Zeros(0)

-----------------------------------------------------------------------------
(* What the instructions compute.                                          *)

\* to_signed_bigint, cut to len bits.
to_signed_bigint(x, len) ==
  LET neg == ~(x < (Pr - 1) \div 2)
      low == (IF neg THEN Pr - x ELSE x) % Power2(len)
  IN  IF neg THEN 0 - low ELSE low

\* gfp::SHL works on the limbs of the element: what leaves them is lost.
SHL(x, n) == (IF n = 0 THEN x ELSE (x * Power2(n)) % Power2(LimbBits)) % Pr

SHR(x, n) == x \div Power2(n)

invert(x) == CHOOSE y \in Z : (x * y) % Pr = 1

legendre(x) == IF x = 0 THEN 0 ELSE IF \E y \in Z : (y * y) % Pr = x THEN 1 ELSE Pr - 1

Quotient(x, y) ==
  LET sign(a) == IF a < 0 THEN -1 ELSE 1
  IN  sign(x) * sign(y) * ((x * sign(x)) \div (y * sign(y)))

Truth(b) == IF b THEN 1 ELSE 0

Field(op, x, y, n) ==
  CASE op \in {"ADDC", "ADDS", "ADDM"} -> (x + y) % Pr
    [] op \in {"SUBC", "SUBS", "SUBML", "SUBMR"} -> (x - y) % Pr
    [] op \in {"MULC", "MULM"} -> (x * y) % Pr
    [] op = "DIVC" -> (invert(y) * x) % Pr
    [] op = "MODC" -> x % y
    [] op = "LEGENDREC" -> legendre(x)
    [] op = "DIGESTC" -> Digest(x)
    [] op \in {"ADDCI", "ADDSI"} -> (n + x) % Pr
    [] op \in {"SUBCI", "SUBSI"} -> (x - n) % Pr
    [] op \in {"SUBCFI", "SUBSFI"} -> (n - x) % Pr
    [] op \in {"MULCI", "MULSI"} -> (n * x) % Pr
    [] op = "DIVCI" -> (invert(n % Pr) * x) % Pr
    [] op = "MODCI" -> (x % n) % Pr
    [] op \in {"MOVC", "MOVS", "CONVINT"} -> x % Pr

Bits(op, x, y, n) ==
  CASE op = "ANDC" -> (x & y) % Pr
    [] op = "ORC"  -> (x | y) % Pr
    [] op = "XORC" -> (x ^^ y) % Pr
    [] op = "ANDCI" -> (x & n) % Pr
    [] op = "ORCI"  -> (x | n) % Pr
    [] op = "XORCI" -> (x ^^ n) % Pr
    [] op = "NOTC" -> (Power2(n) - x - 1) % Pr
    [] op = "SHLC" -> SHL(x, y)
    [] op = "SHRC" -> SHR(x, y)
    [] op = "SHLCI" -> SHL(x, n)
    [] op = "SHRCI" -> SHR(x, n)

Integer(op, x, y, n) ==
  CASE op = "MOVINT" -> x
    [] op = "LTZINT" -> Truth(x < 0)
    [] op = "EQZINT" -> Truth(x = 0)
    [] op = "LTINT" -> Truth(x < y)
    [] op = "GTINT" -> Truth(x > y)
    [] op = "EQINT" -> Truth(x = y)
    [] op = "ADDINT" -> x + y
    [] op = "SUBINT" -> x - y
    [] op = "MULINT" -> x * y
    [] op = "DIVINT" -> Quotient(x, y)
    [] op = "RAND" -> Random % Power2(x)
    [] op = "CONVMODP" -> to_signed_bigint(x, n)

\* What is written without a register being read.
Given(op, n, in) ==
  CASE op \in {"LDI", "LDSI"} -> n % Pr
    [] op = "LDINT" -> n
    [] op = "LDTN" -> thread
    [] op = "LDARG" -> s.arg
    [] op \in {"INPUT_CLEAR", "PRIVATE_INPUT"} -> in % Pr
    [] op \in {"INPUT_INT", "OPEN_CHAN"} -> in

BitOps == {"ANDC", "ORC", "XORC", "ANDCI", "ORCI", "XORCI", "NOTC", "SHLC", "SHRC", "SHLCI", "SHRCI"}
IntOps == {"MOVINT", "LTZINT", "EQZINT", "LTINT", "GTINT", "EQINT", "ADDINT", "SUBINT", "MULINT", "DIVINT", "RAND", "CONVMODP"}
GivenOps == {"LDI", "LDSI", "LDINT", "LDTN", "LDARG", "INPUT_CLEAR", "INPUT_INT", "OPEN_CHAN", "PRIVATE_INPUT"}

-----------------------------------------------------------------------------
(* What the instructions work on: the banks of r[0], r[1] and r[2].        *)

Arithmetic(op) ==
  CASE op \in {"ADDC", "SUBC", "MULC", "DIVC", "MODC", "ANDC", "XORC", "ORC", "SHLC", "SHRC"} -> <<"c", "c", "c">>
    [] op \in {"ADDS", "SUBS"} -> <<"s", "s", "s">>
    [] op \in {"ADDM", "SUBML", "MULM"} -> <<"s", "s", "c">>
    [] op = "SUBMR" -> <<"s", "c", "s">>
    [] op \in {"LEGENDREC", "DIGESTC", "DIVCI", "MODCI", "ADDCI", "SUBCI", "SUBCFI", "MULCI"} -> <<"c", "c">>
    [] op \in {"ANDCI", "XORCI", "ORCI", "NOTC", "SHLCI", "SHRCI", "MOVC"} -> <<"c", "c">>
    [] op \in {"ADDSI", "SUBSI", "SUBSFI", "MULSI", "MOVS"} -> <<"s", "s">>
    [] op \in {"EQZINT", "LTZINT", "MOVINT", "RAND"} -> <<"r", "r">>
    [] op \in {"LTINT", "GTINT", "EQINT", "ADDINT", "SUBINT", "MULINT", "DIVINT"} -> <<"r", "r", "r">>
    [] op = "CONVINT" -> <<"c", "r">>
    [] op = "CONVMODP" -> <<"r", "c">>

ArithmeticOps == {op \in Opcodes : op \in BitOps \cup IntOps} \cup
  {"ADDC", "ADDS", "ADDM", "SUBC", "SUBS", "SUBML", "SUBMR", "MULC", "MULM", "DIVC", "MODC", "LEGENDREC", "DIGESTC", "ADDCI",
   "ADDSI", "SUBCI", "SUBSI", "SUBCFI", "SUBSFI", "MULCI", "MULSI", "DIVCI", "MODCI", "MOVC", "MOVS", "CONVINT"}

\* Loads and stores: the bank and the memory, and the address.
LoadOps == {"LDMC", "LDMS", "LDMINT", "LDMCI", "LDMSI", "LDMINTI"}
StoreOps == {"STMC", "STMS", "STMINT", "STMCI", "STMSI", "STMINTI"}
MemoryBank(op) == CASE op \in {"LDMC", "LDMCI", "STMC", "STMCI"} -> "c" [] op \in {"LDMS", "LDMSI", "STMS", "STMSI"} -> "s"
                    [] op \in {"LDMINT", "LDMINTI", "STMINT", "STMINTI"} -> "r"
Indirect == {"LDMCI", "LDMSI", "LDMINTI", "STMCI", "STMSI", "STMINTI"}

\* The only register of the other instructions, and whether it is written.
SingleBank(op) ==
  CASE op \in {"LDINT", "LDTN", "LDARG", "INPUT_INT", "OPEN_CHAN", "POPINT"} -> "r"
    [] op \in {"PUSHINT", "STARG", "JMPI", "JMPNZ", "JMPEQZ", "PRINTINT", "PRINTCHRINT", "PRINTSTRINT", "OUTPUT_INT"} -> "r"
    [] op \in {"LDI", "INPUT_CLEAR", "PRINTREG", "PRINTREGPLAIN", "PRINTFIXPLAIN", "OUTPUT_CLEAR"} -> "c"
    [] op \in {"LDSI", "PRIVATE_INPUT", "PRIVATE_OUTPUT"} -> "s"

\* Instructions of which every player but 0 does nothing are read as by 0.
Writes(i) ==
  CASE i.op \in ArithmeticOps -> {<<Arithmetic(i.op)[1], i.r[1]>>}
    [] i.op \in LoadOps -> {<<MemoryBank(i.op), i.r[1]>>}
    [] i.op \in GivenOps \cup {"POPINT"} -> {<<SingleBank(i.op), i.r[1]>>}
    [] i.op = "TRIPLE" -> {<<"s", i.r[j]>> : j \in 1 .. 3}
    [] i.op = "SQUARE" -> {<<"s", i.r[j]>> : j \in 1 .. 2}
    [] i.op = "BIT" -> {<<"s", i.r[1]>>}
    [] i.op = "INPUT_SHARE" -> {<<"s", i.start[j]>> : j \in DOMAIN i.start}
    [] i.op = "STOPOPEN" -> {<<"c", i.start[j] + k>> : j \in DOMAIN i.start, k \in 0 .. i.size - 1}
    [] OTHER -> {}

Reads(i) ==
  CASE i.op \in ArithmeticOps -> {<<Arithmetic(i.op)[j], i.r[j]>> : j \in 2 .. Len(Arithmetic(i.op))}
    [] i.op \in LoadOps -> IF i.op \in Indirect THEN {<<"r", i.r[2]>>} ELSE {}
    [] i.op \in StoreOps -> {<<MemoryBank(i.op), i.r[1]>>} \cup (IF i.op \in Indirect THEN {<<"r", i.r[2]>>} ELSE {})
    [] i.op \in {"PUSHINT", "STARG", "JMPI", "JMPNZ", "JMPEQZ", "PRINTINT", "PRINTCHRINT", "PRINTSTRINT", "OUTPUT_INT",
                 "PRINTREG", "PRINTREGPLAIN", "PRINTFIXPLAIN", "OUTPUT_CLEAR", "PRIVATE_OUTPUT"} -> {<<SingleBank(i.op), i.r[1]>>}
    [] i.op = "PRINTFLOATPLAIN" -> {<<"c", i.start[j]>> : j \in DOMAIN i.start}
    [] i.op = "OUTPUT_SHARE" -> {<<"s", i.start[j]>> : j \in DOMAIN i.start}
    [] i.op = "STARTOPEN" -> {<<"s", i.start[j] + k>> : j \in DOMAIN i.start, k \in 0 .. i.size - 1}
    [] OTHER -> {}

-----------------------------------------------------------------------------
(* Execution.                                                              *)

Get(b, i) == s.reg[b][i]
InRange(accesses, reg) == \A a \in accesses : a[2] \in DOMAIN reg[a[1]]

\* The mutant of At: the third register stays.
FaultyAt(i, k) == [i EXCEPT !.r[1] = @ + k, !.r[2] = @ + k, !.n = IF i.op = "LDMC" THEN @ + k ELSE @]

\* The instruction as the k-th iteration of a vector sees it.
At(i, k) == [i EXCEPT !.r = [j \in 1 .. 4 |-> IF j <= 3 /\ i.size > 1 THEN i.r[j] + k ELSE i.r[j]],
                      !.n = IF i.op \in {"LDMC", "LDMS", "LDMINT", "STMC", "STMS", "STMINT"} THEN @ + k ELSE @]

IOOps == {"RESTART", "CRASH", "OUTPUT_SHARE", "INPUT_SHARE", "INPUT_CLEAR", "INPUT_INT", "OUTPUT_CLEAR", "OUTPUT_INT",
          "OPEN_CHAN", "CLOSE_CHAN", "PRIVATE_OUTPUT", "PRIVATE_INPUT"}

Address(i, reg) == IF i.op \in Indirect THEN reg.r[i.r[2]] ELSE i.n

\* What ends the run at the iteration i of an instruction.
Wild(i, c) == ~InRange(Reads(i), c.reg) \/ ~InRange(Writes(i), c.reg)

Failure(i, c) ==
  CASE i.op \in IOOps /\ thread # 0 -> "IO_thread"
    [] Wild(i, c) -> "wild"
    [] i.op \in LoadOps \cup StoreOps /\ Address(i, c.reg) \notin DOMAIN c.mem[MemoryBank(i.op)] -> "wild_memory"
    [] i.op = "PRINTMEM" /\ i.n \notin DOMAIN c.mem.c -> "wild_memory"
    [] i.op = "POPINT" /\ c.stacki = <<>> -> "wild_stack"
    [] i.op = "DIVC" /\ c.reg.c[i.r[3]] = 0 -> "Processor_Error"
    [] i.op = "DIVCI" /\ i.n = 0 -> "Processor_Error"
    [] i.op = "DIVCI" /\ i.n % Pr = 0 -> "division_by_zero"
    [] i.op \in {"SHLC", "SHRC"} /\ c.reg.c[i.r[3]] > 63 -> "not_implemented"
    [] i.op = "RAND" /\ c.reg.r[i.r[2]] \notin 0 .. 31 -> "undefined"
    [] i.op = "DIVINT" /\ c.reg.r[i.r[3]] = 0 -> "SIGFPE"
    [] i.op = "MODC" /\ c.reg.c[i.r[3]] = 0 -> "SIGFPE"
    [] i.op = "MODCI" /\ i.n = 0 -> "SIGFPE"
    [] OTHER -> "no"

Compute(i, c) ==
  LET banks == Arithmetic(i.op)
      x == c.reg[banks[2]][i.r[2]]
      y == IF Len(banks) = 3 THEN c.reg[banks[3]][i.r[3]] ELSE 0
  IN  IF i.op \in BitOps THEN Bits(i.op, x, y, i.n)
      ELSE IF i.op \in IntOps THEN Integer(i.op, x, y, i.n) ELSE Field(i.op, x, y, i.n)

Set(c, b, j, v) == [c EXCEPT !.reg[b][j] = v]

\* The offline data: TRIPLE, SQUARE and BIT take them in the order of the lists.
Offline(i, c, in) ==
  CASE i.op = "TRIPLE" -> Set(Set(Set(c, "s", i.r[1], in % Pr), "s", i.r[2], (in + 1) % Pr), "s", i.r[3], (in * (in + 1)) % Pr)
    [] i.op = "SQUARE" -> Set(Set(c, "s", i.r[1], in % Pr), "s", i.r[2], (in * in) % Pr)
    [] i.op = "BIT" -> Set(c, "s", i.r[1], in % 2)

Jump(i, c) ==
  CASE i.op = "JMP" -> i.n
    [] i.op = "JMPI" -> c.reg.r[i.r[1]]
    [] i.op = "JMPNZ" -> IF c.reg.r[i.r[1]] # 0 THEN i.n ELSE 0
    [] i.op = "JMPEQZ" -> IF c.reg.r[i.r[1]] = 0 THEN i.n ELSE 0

\* One iteration, on c = the Processor with the memory.
Once(i, c, in) ==
  CASE i.op \in ArithmeticOps -> Set(c, Arithmetic(i.op)[1], i.r[1], Compute(i, c))
    [] i.op \in GivenOps -> Set(c, SingleBank(i.op), i.r[1], Given(i.op, i.n, in))
    [] i.op \in LoadOps -> Set(c, MemoryBank(i.op), i.r[1], c.mem[MemoryBank(i.op)][Address(i, c.reg)])
    [] i.op \in StoreOps -> [c EXCEPT !.mem[MemoryBank(i.op)][Address(i, c.reg)] = c.reg[MemoryBank(i.op)][i.r[1]]]
    [] i.op = "PUSHINT" -> [c EXCEPT !.stacki = <<c.reg.r[i.r[1]]>> \o @]
    [] i.op = "POPINT" -> [Set(c, "r", i.r[1], Head(c.stacki)) EXCEPT !.stacki = Tail(@)]
    [] i.op = "STARG" -> [c EXCEPT !.arg = c.reg.r[i.r[1]]]
    [] i.op \in {"JMP", "JMPI", "JMPNZ", "JMPEQZ"} -> [c EXCEPT !.PC = @ + Jump(i, c)]
    [] i.op \in {"TRIPLE", "SQUARE", "BIT"} -> Offline(i, c, in)
    [] i.op = "INPUT_SHARE" -> [c EXCEPT !.reg.s = [j \in DOMAIN @ |-> IF j \in {i.start[k] : k \in DOMAIN i.start} THEN in % Pr ELSE @[j]]]
    [] i.op = "CLEAR_MEMORY" -> [c EXCEPT !.mem = [b \in Banks |-> Zeros(Cardinality(DOMAIN @[b]))]]
    [] i.op = "CLEAR_REGISTERS" -> [c EXCEPT !.reg = [b \in Banks |-> Zeros(Cardinality(DOMAIN @[b]))]]
    [] i.op \in {"RESTART", "CRASH"} -> [c EXCEPT !.PC = Len(c.prog)]
    [] OTHER -> c

\* The register of the k-th value of an opening.
Place(i, k) == i.start[((k - 1) \div i.size) + 1] + ((k - 1) % i.size)

\* POpen_Start copies the shares, register after register; POpen_Stop puts what
\* was opened where it is told.
POpen_Start(i, c) ==
  [c EXCEPT !.PO = [k \in 1 .. Len(i.start) * i.size |-> c.reg.s[Place(i, k)]]]

\* The mutant of POpen_Stop: the shares are read again.
FaultyPOpen_Stop(i, c) ==
  [c EXCEPT !.reg.c = [x \in DOMAIN @ |-> IF \E j \in DOMAIN i.start : x \in i.start[j] .. i.start[j] + i.size - 1
                                         THEN c.reg.s[x] ELSE @[x]]]

POpen_Stop(i, c) ==
  [c EXCEPT !.reg.c = [x \in DOMAIN @ |->
     LET hits == {k \in 1 .. Len(c.PO) : Place(i, k) = x}
     IN  IF hits = {} THEN @[x] ELSE c.PO[MaxOf(hits)]]]

\* The iterations of i up to its size, or to the first failure.
Vector(i, c, in) ==
  LET step[k \in 0 .. i.size] ==
        IF k = 0 THEN [c |-> c, fail |-> "no"]
        ELSE LET last == step[k - 1]
                 at == At(i, k - 1)
                 fail == IF last.fail = "no" THEN Failure(at, last.c) ELSE last.fail
             IN  [c |-> IF fail = "no" THEN Once(at, last.c, in) ELSE last.c, fail |-> fail]
  IN  step[i.size]

Open(i, c) ==
  IF Wild(i, c) THEN [c |-> c, fail |-> "wild"]
  ELSE [c |-> IF i.op = "STARTOPEN" THEN POpen_Start(i, c) ELSE POpen_Stop(i, c), fail |-> "no"]

Perform(i, c, in) == IF i.op \in Opens THEN Open(i, c) ELSE Vector(i, c, in)

Ran == s.PC >= Len(s.prog)

execute(in) ==
  /\ halted = "no" /\ ~Ran
  /\ LET i == s.prog[s.PC + 1]
         c == [PC |-> s.PC + 1, prog |-> s.prog, reg |-> s.reg, stacki |-> s.stacki, arg |-> s.arg, PO |-> s.PO, mem |-> mem]
         e == Perform(i, c, in)
         written == s.written \cup (IF i.op \in Opens THEN Writes(i) ELSE UNION {Writes(At(i, k)) : k \in 0 .. i.size - 1})
     IN  /\ s' = [PC |-> e.c.PC, prog |-> s.prog, reg |-> e.c.reg, stacki |-> e.c.stacki, arg |-> e.c.arg, PO |-> e.c.PO,
                  written |-> written]
         /\ mem' = e.c.mem
         /\ halted' = e.fail
         /\ snap' = IF i.op = "STARTOPEN" /\ e.fail = "no" THEN s.reg.s ELSE snap
  /\ UNCHANGED <<thread, tapes>>

\* The next tape of the thread: online_phase calls Processor::execute again.
NextTape ==
  /\ halted = "no" /\ Ran /\ tapes # <<>>
  /\ s' = [Fresh(s.reg, Head(tapes)) EXCEPT !.stacki = s.stacki]
  /\ tapes' = Tail(tapes)
  /\ UNCHANGED <<thread, mem, halted, snap>>

Next == NextTape \/ \E in \in Inputs : execute(in)

Spec == Init /\ [][Next]_vars
=============================================================================
