---------------------------- MODULE OpeningProps ----------------------------
(***************************************************************************)
(* What the exchanges of Player and the checks of Open_Protocol promise.   *)
(***************************************************************************)
EXTENDS Opening

(* A player that reads gets the message its peer wrote for that round of   *)
(* that call: though nothing in a message says so, neither the two         *)
(* connections nor a check between the two halves of an opening mix them.  *)
SameRound ==
  \A p \in Players : todo[p] # <<>> /\ Head(todo[p]).dir = "receive" =>
    LET s == Head(todo[p])
        box == chan[s.c][s.peer][p]
    IN  box # <<>> => Head(box).tag = s.m.tag

(* After a check nothing that p opened before is wrong, at p or at anyone. *)
OpeningsChecked ==
  \A p, q \in Players : \A i \in 1 .. sure[p].opened :
    /\ i <= Len(hist[q].opened) /\ hist[q].opened[i] = hist[p].opened[i]
    /\ hist[q].opened[i].ok

(* After a check of the broadcasts all have received the same ones.        *)
BroadcastsChecked ==
  \A p, q \in Players : \A i \in 1 .. sure[p].cast :
    i <= Len(hist[q].cast) /\ hist[q].cast[i] = hist[p].cast[i]

(* After a check the public inputs were the same at all players.           *)
InputsChecked ==
  \A p, q \in Players : \A i \in 1 .. sure[p].pub :
    i <= Len(hist[q].pub) /\ hist[q].pub[i] = hist[p].pub[i]

(* Between two calls what no check has covered is what open_cnt counts, it *)
(* is what the next check will cover, and it is no more than the gap.      *)
UncheckedIsCounted ==
  \A p \in Players : st[p].rounds = <<>> =>
    /\ st[p].open_cnt <= Gap
    /\ st[p].open_cnt = Len(IF type = "Full" THEN st[p].vals ELSE st[p].sha256)

(* No check passes over anything, and no more than a gap waits for one.    *)
NothingUnchecked == OpeningsChecked /\ BroadcastsChecked /\ InputsChecked /\ UncheckedIsCounted

(* Every player ends its program or is ended by an exception: large        *)
(* messages, or a peer that threw, leave nobody waiting.                   *)
AllEnd == <>(\A p \in Players : ~Running(p) \/ (st[p].pc = Len(prog) /\ st[p].rounds = <<>>))
=============================================================================
