------------------------ MODULE CreditSubscriptions ------------------------
(***************************************************************************)
(* Recurring billing (src/features/credits/subscriptions.ts): one          *)
(* credit_subscriptions row, the usage reports that write it and the cron  *)
(* sweeps that bill it, interleaved at every await.                        *)
(*                                                                         *)
(* A sweep handles its rows one by one and a row only ever meets others    *)
(* through the wallet (module Credits), so one row is enough: what a sweep *)
(* does to other rows first is time passing between its SELECT and its     *)
(* claim.  Time is a clock in hours; a scheduled handler lives for minutes,*)
(* so the clock stands still while a sweep runs.                           *)
(***************************************************************************)
EXTENDS Integers, Sequences, SequencesExt, FiniteSetsExt

CONSTANTS
    Sweeps,      \* sweeps that may run at once
    NoSweep,     \* not a sweep
    Quantities,  \* usage a plugin may report
    Answers,     \* what a sweep may find of the plugin's cost
    Per, Price,  \* the cost: Price credits per started block of Per units
    HourLen, DayLen, MonthLen,
    MaxTime,     \* bound on the clock
    MaxLives,    \* bound on reactivations
    MaxCrashes   \* bound on sweeps that die

Modes == {"advance", "arrears"}

SubscriptionAssumption ==
    /\ NoSweep \notin Sweeps
    /\ Quantities \subseteq Nat
    /\ Answers \subseteq Modes \cup {"gone", "unreachable"}
    /\ {Per, HourLen, DayLen, MonthLen, MaxLives} \subseteq Nat \ {0}
    /\ {Price, MaxTime, MaxCrashes} \subseteq Nat

VARIABLES
    now,      \* the clock
    payer,    \* whether the user row exists
    row,      \* the subscription; NoRow before the first report or after a cascade
    sweep,    \* each sweep: where it stands, the row its SELECT returned, the mode
    periods,  \* the periods claimed in the row's present life, in order: when, until
              \* when, in which mode, whether the elapsed month was billed, and by
              \* which sweep as long as that sweep may roll it back
    crashes

vars == <<now, payer, row, sweep, periods, crashes>>

NoRow == [status |-> "none"]
Row   == [status: {"active", "past_due", "canceled"}, quantity: Nat, peak: Nat,
          next: Nat, lastMode: Modes \cup {"null"}, life: Nat]
Idle  == [phase |-> "idle"]
Call  == [phase: {"read", "defer", "cancel", "claim", "spend", "rollback", "settle"},
          seen: Row, mode: Modes]
Period == [by: Sweeps \cup {NoSweep}, at: Nat, until: Nat, mode: Modes, elapsed: BOOLEAN]

Init ==
    /\ now = 0
    /\ payer = TRUE
    /\ row = NoRow
    /\ sweep = [s \in Sweeps |-> Idle]
    /\ periods = << >>
    /\ crashes = 0

Exists == row # NoRow
Live   == Exists /\ row.status # "canceled"

(* blockCost: credits per started block.                                   *)
BlockCost(units) == ((units + Per - 1) \div Per) * Price

-----------------------------------------------------------------------------
(* reportSubscriptionUsage.  A zero report never creates or revives a row.   *)
ReportZero ==
    /\ 0 \in Quantities
    /\ Live
    /\ row' = [row EXCEPT !.quantity = 0]
    /\ UNCHANGED <<now, payer, sweep, periods, crashes>>

Fresh(q, billing, life) ==
    [status |-> "active", quantity |-> q, peak |-> q, lastMode |-> "null", life |-> life,
     next |-> IF billing = "arrears" THEN now + MonthLen ELSE now]

(* The upsert: a missing or canceled row starts anew, a live one takes the   *)
(* quantity and ratchets the peak.                                           *)
Report(q, billing) ==
    /\ q > 0
    /\ payer
    /\ \/ /\ ~Live
          /\ (Exists => row.life < MaxLives)
          /\ row' = Fresh(q, billing, IF Exists THEN row.life + 1 ELSE 1)
          /\ periods' = << >>
       \/ /\ Live
          /\ row' = [row EXCEPT !.quantity = q, !.peak = Max({@, q})]
          /\ UNCHANGED periods
    /\ UNCHANGED <<now, payer, sweep, crashes>>

(* The user is deleted and the row cascades.                                 *)
DeleteUser ==
    /\ payer
    /\ payer' = FALSE
    /\ row' = NoRow
    /\ periods' = << >>
    /\ UNCHANGED <<now, sweep, crashes>>

-----------------------------------------------------------------------------
Phase(s) == sweep[s].phase
Seen(s)  == sweep[s].seen
Mode(s)  == sweep[s].mode

Goto(s, p) == sweep' = [sweep EXCEPT ![s].phase = p]
End(s)     == sweep' = [sweep EXCEPT ![s] = Idle]

(* UPDATE ... WHERE id: writes nothing when the row is gone.                 *)
Write(changed) == row' = IF Exists THEN changed ELSE row

DueActiveOnly(t) == Live /\ row.status = "active" /\ row.next <= t  \* mutant
Due(t) == Live /\ row.next <= t

(* The SELECT of due rows.                                                   *)
Begin(s) ==
    /\ Phase(s) = "idle"
    /\ Due(now)
    /\ sweep' = [sweep EXCEPT ![s] = [phase |-> "read", seen |-> row, mode |-> "advance"]]
    /\ UNCHANGED <<now, payer, row, periods, crashes>>

(* creditContributors and effectiveCreditsFor: the plugin may be unreachable *)
(* or disabled, and its manifest may have dropped the cost or changed mode.  *)
Resolve(s) ==
    /\ Phase(s) = "read"
    /\ \E answer \in Answers :
         \/ answer = "unreachable" /\ Goto(s, "defer")
         \/ answer = "gone" /\ Goto(s, "cancel")
         \/ /\ answer \in Modes
            /\ sweep' = [sweep EXCEPT ![s].phase = "claim", ![s].mode = answer]
    /\ UNCHANGED <<now, payer, row, periods, crashes>>

Defer(s) ==
    /\ Phase(s) = "defer"
    /\ Write([row EXCEPT !.next = now + HourLen])
    /\ End(s)
    /\ UNCHANGED <<now, payer, periods, crashes>>

CancelGone(s) ==
    /\ Phase(s) = "cancel"
    /\ Write([row EXCEPT !.status = "canceled"])
    /\ End(s)
    /\ UNCHANGED <<now, payer, periods, crashes>>

(* What the boundary owes, from the row as it was read.                      *)
BillsElapsed(s) ==
    IF Mode(s) = "advance" THEN Seen(s).lastMode = "arrears"
    ELSE Seen(s).lastMode # "advance"

Amount(s) ==
    (IF Mode(s) = "advance" THEN BlockCost(Seen(s).quantity) ELSE 0)
    + (IF BillsElapsed(s) THEN BlockCost(Seen(s).peak) ELSE 0)

(* One month after the stored due date, or after now if that is still past.  *)
NextAt(s) ==
    IF Seen(s).next + MonthLen <= now THEN now + MonthLen ELSE Seen(s).next + MonthLen

(* Mutant: the claim is not guarded on the due date that was read.           *)
UnclaimedAny(s) == Exists

Unclaimed(s) == Exists /\ row.next = Seen(s).next

Claim(s) ==
    /\ Phase(s) = "claim"
    /\ IF Unclaimed(s)
       THEN /\ row' = [row EXCEPT !.next = NextAt(s), !.lastMode = Mode(s), !.status = "active"]
            /\ periods' = Append(periods,
                 [by |-> IF Amount(s) > 0 THEN s ELSE NoSweep, at |-> now,
                  until |-> NextAt(s), mode |-> Mode(s), elapsed |-> BillsElapsed(s)])
            /\ Goto(s, IF Amount(s) > 0 THEN "spend" ELSE "settle")
       ELSE /\ End(s)
            /\ UNCHANGED <<row, periods>>
    /\ UNCHANGED <<now, payer, crashes>>

(* The period claimed by s is no longer its to roll back.                    *)
LetGo(s) ==
    periods' = [i \in DOMAIN periods |->
                  IF periods[i].by = s THEN [periods[i] EXCEPT !.by = NoSweep] ELSE periods[i]]

(* spendCredits (module Credits): paid, or refused for lack of credits or of *)
(* the user.                                                                 *)
Spend(s) ==
    /\ Phase(s) = "spend"
    /\ \/ /\ payer
          /\ LetGo(s)
          /\ Goto(s, "settle")
       \/ /\ Goto(s, "rollback")
          /\ UNCHANGED periods
    /\ UNCHANGED <<now, payer, row, crashes>>

(* A user found missing has lost the row with the user, so the cancellation  *)
(* of that case finds nothing to write.                                      *)
RolledBack(s) ==
    [row EXCEPT !.status = "past_due", !.next = now + DayLen, !.lastMode = Seen(s).lastMode]

(* The claim is undone so that the daily retry bills the same period, which  *)
(* is the last one claimed.                                                  *)
Undone(s) == IF periods # << >> /\ Last(periods).by = s THEN Front(periods) ELSE periods

Rollback(s) ==
    /\ Phase(s) = "rollback"
    /\ Write(RolledBack(s))
    /\ periods' = Undone(s)
    /\ End(s)
    /\ UNCHANGED <<now, payer, crashes>>

(* Mutant: the peak restarts from the quantity that was read.                *)
SettledFromRead(s) ==
    [row EXCEPT !.peak = Seen(s).quantity,
                !.status = IF row.quantity = 0 THEN "canceled" ELSE @]

Settled(s) ==
    [row EXCEPT !.peak = row.quantity,
                !.status = IF row.quantity = 0 THEN "canceled" ELSE @]

Settle(s) ==
    /\ Phase(s) = "settle"
    /\ Write(Settled(s))
    /\ End(s)
    /\ UNCHANGED <<now, payer, periods, crashes>>

-----------------------------------------------------------------------------
(* The sweep dies, or spendCredits throws, which ends the sweep too.         *)
Crash(s) ==
    /\ Phase(s) # "idle"
    /\ crashes < MaxCrashes
    /\ crashes' = crashes + 1
    /\ LetGo(s)
    /\ End(s)
    /\ UNCHANGED <<now, payer, row>>

Tick ==
    /\ now < MaxTime
    /\ \A s \in Sweeps : Phase(s) = "idle"
    /\ now' = now + 1
    /\ UNCHANGED <<payer, row, sweep, periods, crashes>>

SweepStep(s) ==
    \/ Resolve(s) \/ Defer(s) \/ CancelGone(s) \/ Claim(s)
    \/ Spend(s) \/ Rollback(s) \/ Settle(s)

Next ==
    \/ ReportZero
    \/ \E q \in Quantities : \E billing \in Answers \cap Modes : Report(q, billing)
    \/ DeleteUser
    \/ \E s \in Sweeps : Begin(s) \/ SweepStep(s) \/ Crash(s)
    \/ Tick

Spec == Init /\ [][Next]_vars

(* The cron fires every five minutes and a sweep that is not killed goes on. *)
Fairness == \A s \in Sweeps : WF_vars(Begin(s)) /\ WF_vars(SweepStep(s))

FairSpec == Spec /\ Fairness

-----------------------------------------------------------------------------
TypeOK ==
    /\ now \in Nat
    /\ payer \in BOOLEAN
    /\ row \in Row \cup {NoRow}
    /\ sweep \in [Sweeps -> Call \cup {Idle}]
    /\ periods \in Seq(Period)
    /\ crashes \in Nat

(* "concurrent sweeps can't double-claim" and a crash "misses a charge       *)
(* instead of double-charging": in one life of a subscription a period is    *)
(* claimed only once the period claimed before it is over, whatever refusals *)
(* were retried in between.                                                  *)
ChargedOncePerPeriod ==
    \A i \in 1..Len(periods) - 1 : periods[i + 1].at >= periods[i].until

(* Mode switches: a month paid in advance is never billed again in arrears,  *)
(* and a month used under arrears is billed at the next boundary whatever    *)
(* the mode is by then, also when that boundary had to be retried.           *)
ElapsedMonthBilledByItsMode ==
    \A i \in 1..Len(periods) - 1 :
        periods[i + 1].elapsed <=> periods[i].mode = "arrears"

(* "a usage report racing this sweep can't be lost": the peak the next       *)
(* boundary bills covers the usage in force.                                 *)
PeakCoversUsage == Live => row.peak >= row.quantity

MonthsBilled == TypeOK /\ ElapsedMonthBilledByItsMode /\ PeakCoversUsage

(* A sweep ends a subscription only if no usage is in force at that moment,  *)
(* or its cost is gone.                                                      *)
EndsOnlyUnused ==
    [][Live /\ Exists' /\ ~Live'
         => row.quantity = 0 \/ \E s \in Sweeps : Phase(s) = "cancel"]_vars

(* Every due subscription is eventually billed, retried later or ended, one  *)
(* that was refused credits before included.                                 *)
DueIsServed == (Live /\ row.next <= now) ~> ~(Live /\ row.next <= now)
=============================================================================
