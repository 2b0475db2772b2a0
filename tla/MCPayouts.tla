------------------------------ MODULE MCPayouts ------------------------------
(* Parties and amounts for TLC: statements 1 and 2 are of one party. *)
EXTENDS Payouts

MCParty == [s \in Statements |-> IF s <= 2 THEN "p" ELSE "q"]

MCGross == [s \in Statements |-> 1 + (s % 2)]

=============================================================================
