------------------------------ MODULE CentSum ------------------------------
(***************************************************************************)
(* Sums of cent amounts over a finite index set.  The sum is the number of *)
(* individual cents the entries hold, so that facts about it follow from   *)
(* facts about the cardinality of finite sets.                             *)
(***************************************************************************)
EXTENDS Integers, FiniteSets

(* One element <<x, i>> for the i-th cent that f attributes to x. *)
Cents(f, S) == UNION {{x} \X (1 .. f[x]) : x \in S}

SumOver(f, S) == Cardinality(Cents(f, S))

=============================================================================
