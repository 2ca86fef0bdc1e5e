----------------------------- MODULE MCOpening ------------------------------
(***************************************************************************)
(* Three players, a buffer of two values, a check after more than one      *)
(* opening, and one wrong value.                                           *)
(***************************************************************************)
EXTENDS OpeningProps

C(op, n, who) == [op |-> op, n |-> n, who |-> who]

\* Online: private input and output between the halves of an opening, whose
\* end is due for a check; an opening and a public input that private output
\* checks, the opening twice.  Offline: the exchanges, with messages larger
\* than the buffers where the code broadcasts.
MCPrograms == {
  <<C("START", 2, 0), C("PRIVATE_INPUT", 1, 1), C("PRIVATE_OUTPUT", 1, 2), C("STOP", 2, 0)>>,
  <<C("START", 1, 0), C("STOP", 1, 0), C("INPUT_CLEAR", 1, 0), C("PRIVATE_OUTPUT", 1, 0)>>,
  <<C("BROADCAST", 1, 0), C("CHECK_BROADCAST", 1, 0), C("BROADCAST", 3, 0), C("OPEN_TO_ONE", 1, 1),
    C("DISTINCT", 1, 0), C("CHECK", 1, 0)>> }

\* Each player needs the shares of one other.
MCOpenC == [p \in Players |-> {(p + 1) % N}]
=============================================================================
