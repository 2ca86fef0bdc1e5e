------------------------------- MODULE Player -------------------------------
(***************************************************************************)
(* The connections of one thread of every player: System/Player.cpp over   *)
(* System/Networking.cpp.                                                  *)
(*                                                                         *)
(* A call of Player is a fixed sequence of blocking writes and reads, here *)
(* a sequence of steps that depends on the caller's number.  A write puts  *)
(* its message in the socket and returns when what the peer has not read   *)
(* fits in the buffers of the system (Cap); a read takes the oldest        *)
(* message whatever it is, since nothing in it names the call it is for.   *)
(* The field tag, which the code does not have, says which call wrote it.  *)
(* The contents are sequences of entries [id, ok]: what the entry is, and  *)
(* whether it is the right value of it.  A player that throws loses its    *)
(* process, and its peers get errors from then on.                         *)
(***************************************************************************)
EXTENDS Naturals, Sequences, FiniteSets, SequencesExt

CONSTANTS N,      \* number of players
          Cap,    \* what the buffers of one connection hold
          Faults  \* how many entries may be sent with a wrong value

ASSUME PlayerAssumption == N \in Nat \ {0} /\ Cap \in Nat /\ Faults \in Nat

Players == 0 .. N - 1
Connections == {0, 1}   \* of normal communication, and of private input and output

VARIABLES chan,     \* chan[c][p][q]: what p wrote to q on c and q has not read
          todo,     \* todo[p]: the writes and reads left in the call of p
          got,      \* got[p][q]: what p read from q in this call
          halted,   \* halted[p]: the exception that ended p, or "no"
          faults    \* how many wrong values have been sent

wire == <<chan, todo, got, halted, faults>>

WireInit ==
  /\ chan = [c \in Connections |-> [p \in Players |-> [q \in Players |-> <<>>]]]
  /\ todo = [p \in Players |-> <<>>]
  /\ got = [p \in Players |-> [q \in Players |-> <<>>]]
  /\ halted = [p \in Players |-> "no"]
  /\ faults = 0

-----------------------------------------------------------------------------
(* The calls.  m is the message, [tag, val, size].                         *)

send_to_player(q, c, m) == <<[dir |-> "send", peer |-> q, c |-> c, m |-> m]>>
receive_from_player(q, c, tag) == <<[dir |-> "receive", peer |-> q, c |-> c, m |-> [tag |-> tag, val |-> <<>>, size |-> 0]]>>

ForPlayers(S, Do(_)) ==    \* the loop over the players of S, by number
  FlattenSeq([i \in 1 .. N |-> IF i - 1 \in S THEN Do(i - 1) ELSE <<>>])

send_all(p, c, m) == ForPlayers(Players \ {p}, LAMBDA q : send_to_player(q, c, m))

receive_all(p, c, tag) == ForPlayers(Players \ {p}, LAMBDA q : receive_from_player(q, c, tag))

\* The mutant of Broadcast_Receive: write to all, then read from all.
SendFirst(p, c, m) == send_all(p, c, m) \o receive_all(p, c, m.tag)

\* Write to those above and read from those below, and then the other way
\* round: of two players, one reads while the other writes.
Broadcast_Receive(p, c, m) ==
  LET Pass(W) == ForPlayers(Players \ {p}, LAMBDA q : IF q \in W THEN send_to_player(q, c, m)
                                                      ELSE receive_from_player(q, c, m.tag))
  IN  Pass({q \in Players : q > p}) \o Pass({q \in Players : q < p})

Send_Distinct_And_Receive(p, c, m) == send_all(p, c, m) \o receive_all(p, c, m.tag)

-----------------------------------------------------------------------------
(* The steps.                                                              *)

Running(p) == halted[p] = "no"

Load(c, p, q) ==
  LET box == chan[c][p][q]
      load[i \in 0 .. Len(box)] == IF i = 0 THEN 0 ELSE load[i - 1] + box[i].size
  IN  load[Len(box)]

\* The last write of p has returned: the rest of its data fits, or its peer
\* is gone.
Written(p) == \A c \in Connections, q \in Players : Load(c, p, q) <= Cap

Ready(p, dir) == /\ Running(p)
                 /\ todo[p] # <<>> /\ Head(todo[p]).dir = dir
                 /\ Written(p)

Put(p, m) ==
  LET s == Head(todo[p])
  IN  /\ chan' = [chan EXCEPT ![s.c][p][s.peer] = Append(@, m)]
      /\ todo' = [todo EXCEPT ![p] = Tail(@)]
      /\ UNCHANGED <<got, halted>>

Send(p) ==
  /\ Ready(p, "send")
  /\ Put(p, Head(todo[p]).m)
  /\ UNCHANGED faults

\* A player whose share, or whose word, is wrong in one entry for one peer.
SendWrong(p) ==
  /\ Ready(p, "send")
  /\ faults < Faults
  /\ LET m == Head(todo[p]).m
     IN  /\ m.val # <<>>
         /\ \E i \in DOMAIN m.val : Put(p, [m EXCEPT !.val[i].ok = ~@])
  /\ faults' = faults + 1

Receive(p) ==
  /\ Ready(p, "receive")
  /\ LET s == Head(todo[p])
     IN  /\ chan[s.c][s.peer][p] # <<>>
         /\ got' = [got EXCEPT ![p][s.peer] = Head(chan[s.c][s.peer][p]).val]
         /\ chan' = [chan EXCEPT ![s.c][s.peer][p] = Tail(@)]
  /\ todo' = [todo EXCEPT ![p] = Tail(@)]
  /\ UNCHANGED <<halted, faults>>

\* SSL_write and SSL_read fail once the peer is gone, the read after what was
\* left to read.
PeerGone(p) ==
  /\ Running(p) /\ todo[p] # <<>>
  /\ LET s == Head(todo[p])
     IN  /\ halted[s.peer] # "no"
         /\ s.dir = "receive" => chan[s.c][s.peer][p] = <<>>
         /\ halted' = [halted EXCEPT ![p] = IF s.dir = "send" THEN "sending_error" ELSE "receiving_error"]
  /\ UNCHANGED <<chan, todo, got, faults>>

\* A write that was waiting for the buffers fails.
WriteFails(p) ==
  /\ Running(p)
  /\ \E c \in Connections, q \in Players : Load(c, p, q) > Cap /\ halted[q] # "no"
  /\ halted' = [halted EXCEPT ![p] = "sending_error"]
  /\ UNCHANGED <<chan, todo, got, faults>>
=============================================================================
