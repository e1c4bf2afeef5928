------------------------------ MODULE Credits ------------------------------
(***************************************************************************)
(* The credit wallets, the shared pool and their ledgers                   *)
(* (src/features/credits): the reservation of a page create               *)
(* (spendCurrencies / refundCurrencies), the two-batch transfers of        *)
(* service.ts, the one-batch administration of admin-mutation.ts and the   *)
(* deletion of a user, interleaved at every await.                         *)
(*                                                                         *)
(* One DB.batch is one D1 transaction, so it is one step.  Between two     *)
(* batches any other request may run and the worker may die.               *)
(***************************************************************************)
EXTENDS Integers, Sequences, SequencesExt

CONSTANTS
    Users,        \* user ids
    Currencies,   \* CREDIT_CURRENCIES
    Pool,         \* owner of the shared_credits rows
    Outside,      \* the other side of an administrator's grant or removal
    Ops,          \* requests in flight
    NoOp,         \* tag of the entry that opened an account
    Requests,     \* what a request may ask
    Opening       \* the balances before the first request

Owners   == Users \cup {Pool}
Accounts == Owners \X Currencies

Part         == [currency: Currencies, amount: Nat \ {0}]
SpendRequest == [kind: {"spend"}, user: Users, parts: Seq(Part), rows: Nat \ {0}]
MoveRequest  == [kind: {"move", "admin"}, from: Owners \cup {Outside},
                 to: Owners \cup {Outside}, currency: Currencies, amount: Nat \ {0}]

\* currencyAmounts: the non-zero totals, each currency once
OnePartPerCurrency(parts) ==
    \A i, j \in DOMAIN parts : parts[i].currency = parts[j].currency => i = j

ASSUME RequestAssumption ==
    /\ Pool \notin Users
    /\ Outside \notin Owners
    /\ NoOp \notin Ops
    /\ Requests \subseteq SpendRequest \cup MoveRequest
    /\ \A r \in Requests : r.kind = "spend" => r.parts # << >> /\ OnePartPerCurrency(r.parts)
    /\ \A r \in Requests : r.kind \in {"move", "admin"} => r.from # r.to
    /\ \A r \in Requests : r.kind = "move" => {r.from, r.to} \subseteq Owners
    /\ Opening \in [Accounts -> Nat]

VARIABLES
    users,    \* rows of the users table
    balance,  \* credit_wallets / shared_credits; a missing row is 0
    ledger,   \* credit_ledger / shared_credit_ledger, per account
    phase,    \* where each request stands
    req,      \* what each request asks
    spent,    \* spendCurrencies' `spent`, and what is left to refund
    verdict,  \* what the request will answer once it has refunded
    snap      \* mutateCreditAdministration's snapshots

vars == <<users, balance, ledger, phase, req, spent, verdict, snap>>

Entry == [op: Ops \cup {NoOp}, delta: Int, after: Int]
Paid  == [account: Accounts, amount: Nat]

Final  == {"done", "refused", "failed", "threw", "unavailable", "crashed"}
Phases == Final \cup {"idle", "charge", "classify", "pool", "reserved", "refund",
                      "lookup", "debit", "credit", "prepare", "prepared"}

Init ==
    /\ users = Users
    /\ balance = Opening
    /\ ledger = [a \in Accounts |->
                   IF Opening[a] = 0 THEN << >>
                   ELSE <<[op |-> NoOp, delta |-> Opening[a], after |-> Opening[a]]>>]
    /\ phase = [o \in Ops |-> "idle"]
    /\ req = [o \in Ops |-> NoOp]
    /\ spent = [o \in Ops |-> << >>]
    /\ verdict = [o \in Ops |-> "refused"]
    /\ snap = [o \in Ops |-> NoOp]

Goto(o, p) == phase' = [phase EXCEPT ![o] = p]

-----------------------------------------------------------------------------
(* One batch: the ledger INSERT and the wallet UPDATE of every account in    *)
(* the domain of `legs`, computed from the balances `base`.                  *)
Post(o, base, legs) ==
    /\ balance' = [a \in Accounts |->
                     IF a \in DOMAIN legs THEN base[a] + legs[a] ELSE balance[a]]
    /\ ledger'  = [a \in Accounts |->
                     IF a \in DOMAIN legs
                     THEN Append(ledger[a], [op |-> o, delta |-> legs[a],
                                             after |-> base[a] + legs[a]])
                     ELSE ledger[a]]

Leg(a, delta) == [x \in {a} |-> delta]

Untouched == UNCHANGED <<balance, ledger>>

(* A wallet row needs its user; a pool ledger row names the beneficiary, a   *)
(* foreign key: either way the batch writes only for a user who exists.      *)
Covers(a, amount) == balance[a] >= amount

-----------------------------------------------------------------------------
Start(o, r) ==
    /\ phase[o] = "idle"
    /\ req' = [req EXCEPT ![o] = r]
    /\ \/ r.kind = "spend" /\ Goto(o, "charge")
       \/ r.kind = "move"  /\ Goto(o, IF r.from = Pool THEN "lookup" ELSE "debit")
       \/ r.kind = "admin" /\ Goto(o, "prepare")
    /\ UNCHANGED <<users, balance, ledger, spent, verdict, snap>>

(* spendCurrencies: the part being spent follows those already spent.        *)
ThisPart(o)  == req[o].parts[Len(spent[o]) + 1]
Wallet(o)    == <<req[o].user, ThisPart(o).currency>>
PoolOf(o)    == <<Pool, ThisPart(o).currency>>

Take(o, a) ==
    /\ Post(o, balance, Leg(a, -ThisPart(o).amount))
    /\ spent' = [spent EXCEPT ![o] = Append(@, [account |-> a, amount |-> ThisPart(o).amount])]
    /\ Goto(o, IF Len(spent[o]) + 1 = Len(req[o].parts) THEN "reserved" ELSE "charge")

Refuse(o) ==
    /\ Goto(o, "refund")
    /\ verdict' = [verdict EXCEPT ![o] = "refused"]

(* chargeCredits: both statements share the guard balance >= amount.         *)
ChargeUser(o) ==
    /\ phase[o] = "charge"
    /\ IF req[o].user \in users /\ Covers(Wallet(o), ThisPart(o).amount)
       THEN Take(o, Wallet(o))
       ELSE Goto(o, "classify") /\ Untouched /\ UNCHANGED spent
    /\ UNCHANGED <<users, req, verdict, snap>>

(* The read that tells unknown_user, which never falls back to the pool,     *)
(* from insufficient_credits.                                                *)
Classify(o) ==
    /\ phase[o] = "classify"
    /\ \/ /\ req[o].user \in users
          /\ Goto(o, "pool")
          /\ UNCHANGED verdict
       \/ /\ req[o].user \notin users
          /\ Refuse(o)
    /\ UNCHANGED <<users, balance, ledger, req, spent, snap>>

(* chargeSharedCredits: with the pool able to pay, a beneficiary deleted     *)
(* since the read aborts the batch and the exception leaves spendCurrencies. *)
ChargePool(o) ==
    /\ phase[o] = "pool"
    /\ \/ /\ Covers(PoolOf(o), ThisPart(o).amount)
          /\ req[o].user \in users
          /\ Take(o, PoolOf(o))
          /\ UNCHANGED verdict
       \/ /\ Covers(PoolOf(o), ThisPart(o).amount)
          /\ req[o].user \notin users
          /\ Goto(o, "threw")
          /\ Untouched /\ UNCHANGED <<spent, verdict>>
       \/ /\ ~Covers(PoolOf(o), ThisPart(o).amount)
          /\ Refuse(o)
          /\ Untouched /\ UNCHANGED spent
    /\ UNCHANGED <<users, req, snap>>

(* Math.round(amount * failed / rows), half up.                              *)
RefundShare(amount, failed, rows) == (2 * amount * failed + rows) \div (2 * rows)

Portion(paid, failed, rows) ==
    [i \in DOMAIN paid |->
       [account |-> paid[i].account, amount |-> RefundShare(paid[i].amount, failed, rows)]]

(* The caller's page writes: all rows stand, or `failed` of them did not and *)
(* the reservation's refund closure returns that portion.                    *)
WriteRows(o) ==
    /\ phase[o] = "reserved"
    /\ \/ /\ Goto(o, "done")
          /\ UNCHANGED <<spent, verdict>>
       \/ \E failed \in 1..req[o].rows :
            /\ spent' = [spent EXCEPT ![o] = Portion(spent[o], failed, req[o].rows)]
            /\ verdict' = [verdict EXCEPT ![o] = "failed"]
            /\ Goto(o, "refund")
    /\ UNCHANGED <<users, balance, ledger, req, snap>>

(* The user a posting of this request names: the wallet's, or for the pool   *)
(* the beneficiary.                                                          *)
Person(o, a) ==
    IF a[1] # Pool THEN a[1]
    ELSE IF req[o].kind = "spend" THEN req[o].user
    ELSE IF req[o].from = Pool THEN req[o].to ELSE req[o].from

(* Mutant: the refund ignores who paid.                                      *)
RefundToWallet(o) ==
    /\ phase[o] = "refund"
    /\ spent[o] # << >>
    /\ LET p == Head(spent[o])
           a == <<Person(o, p.account), p.account[2]>> IN
         IF p.amount > 0 /\ a[1] \in users THEN Post(o, balance, Leg(a, p.amount)) ELSE Untouched
    /\ spent' = [spent EXCEPT ![o] = Tail(@)]
    /\ UNCHANGED <<users, phase, req, verdict, snap>>

(* refundCurrencies, one refundCredits per step: nothing of a portion that   *)
(* rounds to 0; for a user gone meanwhile the wallet write finds no row and  *)
(* the pool write aborts on the foreign key, and both are swallowed.         *)
Refund(o) ==
    /\ phase[o] = "refund"
    /\ spent[o] # << >>
    /\ LET p == Head(spent[o]) IN
         IF p.amount > 0 /\ Person(o, p.account) \in users
         THEN Post(o, balance, Leg(p.account, p.amount))
         ELSE Untouched
    /\ spent' = [spent EXCEPT ![o] = Tail(@)]
    /\ UNCHANGED <<users, phase, req, verdict, snap>>

Answer(o) ==
    /\ phase[o] = "refund"
    /\ spent[o] = << >>
    /\ Goto(o, verdict[o])
    /\ UNCHANGED <<users, balance, ledger, req, spent, verdict, snap>>

-----------------------------------------------------------------------------
(* transferCredits (user to user), donateSharedCredits (user to pool) and    *)
(* transferSharedCredits (pool to user): a debit batch, then a credit batch. *)
Source(o) == <<req[o].from, req[o].currency>>
Target(o) == <<req[o].to, req[o].currency>>

(* transferSharedCredits looks the recipient up before it debits the pool.   *)
Lookup(o) ==
    /\ phase[o] = "lookup"
    /\ Goto(o, IF req[o].to \in users THEN "debit" ELSE "refused")
    /\ UNCHANGED <<users, balance, ledger, req, spent, verdict, snap>>

Debit(o) ==
    /\ phase[o] = "debit"
    /\ IF Covers(Source(o), req[o].amount) /\ Person(o, Source(o)) \in users
       THEN /\ Post(o, balance, Leg(Source(o), -req[o].amount))
            /\ spent' = [spent EXCEPT ![o] =
                           <<[account |-> Source(o), amount |-> req[o].amount]>>]
            /\ Goto(o, "credit")
       ELSE /\ Goto(o, IF req[o].from = Pool /\ Covers(Source(o), req[o].amount)
                       THEN "threw" ELSE "refused")
            /\ Untouched /\ UNCHANGED spent
    /\ UNCHANGED <<users, req, verdict, snap>>

Credit(o) ==
    /\ phase[o] = "credit"
    /\ IF Person(o, Target(o)) \in users
       THEN /\ Post(o, balance, Leg(Target(o), req[o].amount))
            /\ Goto(o, "done")
            /\ UNCHANGED verdict
       ELSE Refuse(o) /\ Untouched
    /\ UNCHANGED <<users, req, spent, snap>>

-----------------------------------------------------------------------------
(* mutateCreditAdministration: snapshot, then one batch whose guards abort   *)
(* it unless the snapshot is still what is stored.                           *)
Legs(r) ==
    [a \in {<<r.from, r.currency>>, <<r.to, r.currency>>} \cap Accounts |->
       IF a = <<r.from, r.currency>> THEN -r.amount ELSE r.amount]

People(r) == {r.from, r.to} \cap Users

Snapshot(o) ==
    [users   |-> users \cap People(req[o]),
     balance |-> [a \in DOMAIN Legs(req[o]) |-> balance[a]],
     ledger  |-> [a \in DOMAIN Legs(req[o]) |-> ledger[a]]]

Prepare(o) ==
    /\ phase[o] = "prepare"
    /\ snap' = [snap EXCEPT ![o] = Snapshot(o)]
    /\ Goto(o, "prepared")
    /\ UNCHANGED <<users, balance, ledger, req, spent, verdict>>

(* Mutant: the batch does not assert that the snapshot still holds.          *)
CommitBlind(o) ==
    /\ phase[o] = "prepared"
    /\ snap[o].users = People(req[o])
    /\ \A a \in DOMAIN Legs(req[o]) : snap[o].balance[a] + Legs(req[o])[a] >= 0
    /\ Post(o, snap[o].balance, Legs(req[o])) /\ Goto(o, "done")
    /\ UNCHANGED <<users, req, spent, verdict, snap>>

Commit(o) ==
    /\ phase[o] = "prepared"
    /\ snap[o].users = People(req[o])
    /\ \A a \in DOMAIN Legs(req[o]) : snap[o].balance[a] + Legs(req[o])[a] >= 0
    /\ IF snap[o] = Snapshot(o)
       THEN Post(o, snap[o].balance, Legs(req[o])) /\ Goto(o, "done")
       ELSE Untouched /\ Goto(o, "unavailable")
    /\ UNCHANGED <<users, req, spent, verdict, snap>>

(* An unknown user or an insufficient balance in the snapshot is refused; a  *)
(* changed authority or classification policy aborts the batch.             *)
Decline(o) ==
    /\ phase[o] = "prepared"
    /\ \/ /\ \/ snap[o].users # People(req[o])
             \/ \E a \in DOMAIN Legs(req[o]) : snap[o].balance[a] + Legs(req[o])[a] < 0
          /\ Goto(o, "refused")
       \/ Goto(o, "unavailable")
    /\ UNCHANGED <<users, balance, ledger, req, spent, verdict, snap>>

-----------------------------------------------------------------------------
(* DELETE FROM users: the wallets and ledger of the user cascade.            *)
DeleteUser(u) ==
    /\ u \in users
    /\ users' = users \ {u}
    /\ balance' = [a \in Accounts |-> IF a[1] = u THEN 0 ELSE balance[a]]
    /\ ledger'  = [a \in Accounts |-> IF a[1] = u THEN << >> ELSE ledger[a]]
    /\ UNCHANGED <<phase, req, spent, verdict, snap>>

(* The isolate is evicted between two batches.                               *)
Crash(o) ==
    /\ phase[o] \notin Final \cup {"idle"}
    /\ Goto(o, "crashed")
    /\ UNCHANGED <<users, balance, ledger, req, spent, verdict, snap>>

Step(o) ==
    \/ ChargeUser(o) \/ Classify(o) \/ ChargePool(o) \/ WriteRows(o)
    \/ Refund(o) \/ Answer(o)
    \/ Lookup(o) \/ Debit(o) \/ Credit(o)
    \/ Prepare(o) \/ Commit(o) \/ Decline(o)

Next ==
    \/ \E o \in Ops : \E r \in Requests : Start(o, r)
    \/ \E o \in Ops : Step(o)
    \/ \E o \in Ops : Crash(o)
    \/ \E u \in Users : DeleteUser(u)

Spec == Init /\ [][Next]_vars

-----------------------------------------------------------------------------
TypeOK ==
    /\ users \subseteq Users
    /\ balance \in [Accounts -> Int]
    /\ ledger \in [Accounts -> Seq(Entry)]
    /\ phase \in [Ops -> Phases]
    /\ req \in [Ops -> Requests \cup {NoOp}]
    /\ spent \in [Ops -> Seq(Paid)]
    /\ verdict \in [Ops -> {"refused", "failed"}]

(* "the ledger can never disagree with the balance" (service.ts): every entry *)
(* continues from the one before it, and the balance is where the last one    *)
(* ended, whatever charges, refunds and administration ran in between.        *)
Continues(s) ==
    \A i \in 1..Len(s) :
        s[i].after = s[i].delta + (IF i = 1 THEN 0 ELSE s[i - 1].after)

LedgerExplainsBalance ==
    \A a \in Accounts :
        /\ Continues(ledger[a])
        /\ balance[a] = IF ledger[a] = << >> THEN 0 ELSE ledger[a][Len(ledger[a])].after

(* "concurrent spends can never take a balance below zero", now or in any     *)
(* entry of the history.                                                      *)
NeverOverdrawn ==
    \A a \in Accounts :
        /\ balance[a] >= 0
        /\ \A i \in 1..Len(ledger[a]) : ledger[a][i].after >= 0

BooksSound == TypeOK /\ LedgerExplainsBalance /\ NeverOverdrawn

Total(amounts) == FoldLeft(LAMBDA sum, n : sum + n, 0, amounts)

(* What a request has moved on an account, by the ledger.                     *)
Moved(o, a) ==
    Total([i \in DOMAIN ledger[a] |-> IF ledger[a][i].op = o THEN ledger[a][i].delta ELSE 0])

(* spendCurrencies is all-or-nothing across wallets: a spend refused for one  *)
(* currency has given back every part it had taken, the pool's too, unless    *)
(* the payer was deleted meanwhile.                                           *)
RefusedSpendIsUnwound ==
    \A o \in Ops :
        (phase[o] = "refused" /\ req[o].kind = "spend" /\ req[o].user \in users)
        => \A a \in Accounts : Moved(o, a) = 0

(* A spend that stands has taken each currency's price once, in full, from    *)
(* the payer's wallet or from the pool: never split, never twice.             *)
PriceOf(r, c) ==
    Total([i \in DOMAIN r.parts |-> IF r.parts[i].currency = c THEN r.parts[i].amount ELSE 0])

SpendTakesThePriceOnce ==
    \A o \in Ops :
        (phase[o] \in {"reserved", "done"} /\ req[o].kind = "spend" /\ req[o].user \in users)
        => \A c \in Currencies :
             {Moved(o, <<req[o].user, c>>), Moved(o, <<Pool, c>>)} = {0, -PriceOf(req[o], c)}

(* A partly failed batch keeps, of each price, the part of the rows that were *)
(* written, to the nearest whole credit and half a credit in the payer's      *)
(* favour, and returns the rest to the account that paid.                     *)
FairlyKept(kept, price, written, rows) ==
    /\ 2 * price * written - rows <= 2 * rows * kept
    /\ 2 * rows * kept < 2 * price * written + rows

FailedSpendKeepsWrittenRows ==
    \A o \in Ops :
        (phase[o] = "failed" /\ req[o].user \in users)
        => \E written \in 0..(req[o].rows - 1) : \A c \in Currencies :
             \E kept \in 0..PriceOf(req[o], c) :
               /\ {Moved(o, <<req[o].user, c>>), Moved(o, <<Pool, c>>)} = {0, -kept}
               /\ FairlyKept(kept, PriceOf(req[o], c), written, req[o].rows)

(* A transfer, donation or share creates and destroys nothing: accepted, both *)
(* legs are booked; refused, the source has its credits back, unless the user *)
(* its ledger names was deleted meanwhile.                                    *)
MoveConserves ==
    \A o \in Ops :
        (req[o] # NoOp /\ req[o].kind \in {"move", "admin"} /\ Outside \notin {req[o].from, req[o].to})
        => /\ (phase[o] = "done" /\ {req[o].from, req[o].to} \subseteq users \cup {Pool})
                => Moved(o, Source(o)) = -req[o].amount /\ Moved(o, Target(o)) = req[o].amount
           /\ (phase[o] \in {"refused", "unavailable"} /\ Person(o, Source(o)) \in users)
                => Moved(o, Source(o)) = 0 /\ Moved(o, Target(o)) = 0

(* Whatever answer a request gave is what the books say of it.                *)
RequestsSettle ==
    /\ RefusedSpendIsUnwound /\ SpendTakesThePriceOnce
    /\ FailedSpendKeepsWrittenRows /\ MoveConserves

(* What the comments promise with no condition on the payer: a refused        *)
(* request has returned what it debited from the pool.                        *)
RefusedPoolDebitReturned ==
    \A o \in Ops : phase[o] = "refused" => \A c \in Currencies : Moved(o, <<Pool, c>>) = 0
=============================================================================
