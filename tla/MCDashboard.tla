---------------------------- MODULE MCDashboard ----------------------------
(* Model values for Dashboard: two receivers that share a tuning with two      *)
(* transmitters, and one or two receivers that also have a tuning where no PI  *)
(* is ever confirmed.                                                          *)
EXTENDS Dashboard, TLC

CONSTANTS a, b, t1, t2, p1, p2

MCTransmitters == [t \in {t1, t2} |-> IF t = t1 THEN {p1, p2} ELSE {}]

MCListings ==
    {[r \in {a, b} |-> {t1}],
     [r \in {a, b} |-> IF r = a THEN {t1, t2} ELSE {}],
     [r \in {a, b} |-> IF r = a THEN {t1, t2} ELSE {t2}]}

Symmetry == Permutations({p1, p2})

=============================================================================
