----------------------------- MODULE MCProcessor ------------------------------
(***************************************************************************)
(* Every opcode, scalar and as a vector of two, after a prologue that      *)
(* gives the registers and the memory values; and tapes that loop, that    *)
(* work between the halves of an opening, and that follow one another.     *)
(***************************************************************************)
EXTENDS ProcessorProps

I(op, size, args) == [op |-> op, size |-> size, args |-> args]

\* Registers 0 to 3 of each bank, and two cells of each memory.
Prologue(b) == <<
  I("LDI", 0, <<0, 1>>), I("LDI", 2, <<1, b>>), I("LDI", 0, <<3, 5>>), I("LDSI", 0, <<0, 4>>), I("LDSI", 3, <<1, b>>),
  I("LDINT", 0, <<0, 2>>), I("LDINT", 2, <<1, 1>>), I("LDINT", 0, <<3, 0 - 3>>),
  I("STMC", 2, <<2, 1>>), I("STMS", 2, <<0, 1>>), I("STMINT", 2, <<0, 1>>), I("PUSHINT", 2, <<0>>) >>

\* Operands that do and do not overlap, with a destination nothing else uses.
Args(op) ==
  CASE op \in ThreeRegs -> {<<4, 0, 2>>, <<1, 0, 2>>, <<4, 2, 0>>}
    [] op \in TwoRegs -> {<<4, 0>>, <<1, 2>>}
    [] op \in OneReg -> {<<0>>, <<4>>}
    [] op \in TwoRegsInt -> {<<4, 0, 3>>, <<4, 2, 7>>}
    [] op \in OneRegInt -> {<<0, 1>>, <<4, 2>>}
    [] op \in RegPlayerInt -> {<<0, 1, 0>>, <<4, 0, 1>>}
    [] op \in RegIntInt -> {<<0, 1, 2>>}
    [] op \in IntOnly -> {<<0>>, <<1>>}
    [] op \in NoOperand -> {<<>>}
    [] op \in Opens -> {<<0, 2>>, <<1>>}
    [] op \in Shares -> {<<0, 1>>, <<0, 0, 2>>}
    [] op = "PRINTFLOATPLAIN" -> {<<0, 1, 2, 3>>}

Each(op) == {I(op, size, a) : size \in {0, 2}, a \in Args(op)}

\* Count r0 down from 2, adding; open around a change; a second tape.
Loop == << I("LDINT", 0, <<0, 2>>), I("LDI", 0, <<0, 3>>), I("LDINT", 0, <<1, 1>>), I("ADDC", 0, <<0, 0, 0>>),
           I("SUBINT", 0, <<0, 0, 1>>), I("JMPNZ", 0, <<0, 0 - 3>>) >>
Between(size) == << I("LDSI", 4, <<0, 3>>), I("BIT", 0, <<1>>), I("STARTOPEN", size, <<2, 0>>), I("LDSI", 4, <<0, 6>>),
                    I("STOPOPEN", size, <<0, 2>>), I("CONVMODP", 0, <<0, 2, 3>>) >>
Second == << I("STMC", 0, <<0, 1>>), I("LDMC", 0, <<1, 2>>) >>

MCTapes ==
  {<<Append(Prologue(b), i)>> : b \in {0, 2, 6}, i \in UNION {Each(op) : op \in Opcodes \ {"STOPOPEN"}}}
  \cup {<<Loop, Second>>, <<Between(0), Second>>, <<Between(2), Loop>>}

MCDigest(x) == (3 * x + 1) % Pr
=============================================================================
