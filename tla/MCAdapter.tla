----------------------------- MODULE MCAdapter -----------------------------
EXTENDS AdapterProps, TLC

(* Bound: within a line a carriage return stands last, with or without the   *)
(* line feed; elsewhere it is a byte like any other.                         *)
LateReturns ==
  \A i \in 1..Len(raw) : raw[i] = "cr" =>
    \/ i = Len(raw)
    \/ i = Len(raw) - 1 /\ raw[Len(raw)] = "lf"
=============================================================================
