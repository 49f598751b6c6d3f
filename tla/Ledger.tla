------------------------------- MODULE Ledger -------------------------------
(***************************************************************************)
(* What recording promises, whatever the concurrency of requests, the      *)
(* other processes at the database, failing writes and slow listeners:     *)
(* rows are only ever added, a row is announced at most once and only when *)
(* it is there to be read, and a listener hears only what was announced.   *)
(***************************************************************************)
EXTENDS Integers, Sequences

VARIABLES
    recorded,      \* the rows, in the order they were added
    announced,     \* the ids of the announced rows, by the place of the announcement
    heard          \* the ids a listener heard

Init == recorded = <<>> /\ DOMAIN announced = {} /\ heard = {}

(* One row more, whatever it holds.                                         *)
Record ==
    /\ Len(recorded') = Len(recorded) + 1
    /\ \A n \in DOMAIN recorded : recorded'[n] = recorded[n]
    /\ UNCHANGED << announced, heard >>

(* A later announcement, of a row that has not been announced.              *)
Announce ==
    /\ \E n \in DOMAIN recorded, place \in DOMAIN announced' :
          /\ \A p \in DOMAIN announced : p < place /\ announced[p] # n
          /\ announced' = [p \in DOMAIN announced \cup {place} |->
                             IF p = place THEN n ELSE announced[p]]
    /\ UNCHANGED << recorded, heard >>

Hear ==
    /\ \E p \in DOMAIN announced : heard' = heard \cup {announced[p]}
    /\ UNCHANGED << recorded, announced >>

Next == Record \/ Announce \/ Hear

Spec == Init /\ [][Next]_<< recorded, announced, heard >>
=============================================================================
