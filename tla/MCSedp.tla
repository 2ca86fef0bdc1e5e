------------------------------- MODULE MCSedp ---------------------------------
(***************************************************************************)
(* Two servers and two clients, with one and two data.                     *)
(***************************************************************************)
EXTENDS SedpProps

CONSTANTS a, b

MCId(c) == IF c = a THEN 5 ELSE 3
MCDataset(c) == IF c = a THEN 1 ELSE 2
=============================================================================
