----------------------- MODULE MCCreditSubscriptions -----------------------
(***************************************************************************)
(* Instances of CreditSubscriptions: an hour is one tick and a month three,*)
(* so that a day's retry falls between a due date and the next boundary.   *)
(***************************************************************************)
EXTENDS CreditSubscriptions

AnyAnswer == Modes \cup {"gone", "unreachable"}

AdvanceOrOutage == {"advance", "unreachable"}

(* No other sweep bills the row, and no user starts it anew, while a sweep  *)
(* is about to put it off by an hour or to end it.  Everything else that    *)
(* sweeps do may overlap.                                                   *)
Undisturbed == \A s \in Sweeps : Exists =>
    /\ Phase(s) = "defer" => row.next \in {Seen(s).next, now + HourLen}
    /\ Phase(s) = "cancel" => row.next = Seen(s).next

UndisturbedSpec    == Init /\ [][Next /\ Undisturbed']_vars
UndisturbedOutages == UndisturbedSpec /\ Fairness
=============================================================================
