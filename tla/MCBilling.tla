----------------------------- MODULE MCBilling -----------------------------
(***************************************************************************)
(* Billing for TLC: the charges, moves and refunds of Credits, or the      *)
(* recurring charges of CreditSubscriptions, in one behaviour.  They share *)
(* no state; a property of one is checked where it moves.                  *)
(***************************************************************************)
EXTENDS MCCredits

CONSTANTS Sweeps, NoSweep, Quantities, Answers, Per, Price,
          HourLen, DayLen, MonthLen, MaxTime, MaxLives, MaxCrashes

VARIABLES part, now, payer, row, sweep, periods, crashes

subVars == <<now, payer, row, sweep, periods, crashes>>

Sub == INSTANCE MCCreditSubscriptions

ASSUME SubscriptionsAssumption == Sub!SubscriptionAssumption

AnyAnswer == {"advance", "arrears", "gone", "unreachable"}

PartsNext ==
    /\ UNCHANGED part
    /\ \/ part = "wallets" /\ Next /\ UNCHANGED subVars
       \/ part = "subscription" /\ Sub!Next /\ Sub!Undisturbed' /\ UNCHANGED vars

PartsInit == Init /\ Sub!Init /\ part \in {"wallets", "subscription"}
Parts == PartsInit /\ [][PartsNext]_<<part, vars, subVars>> /\ Sub!Fairness

MonthsBilled  == Sub!ChargedOncePerPeriod /\ Sub!MonthsBilled
RowsAreServed == Sub!DueIsServed /\ Sub!EndsOnlyUnused
=============================================================================
