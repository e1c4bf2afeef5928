--------------------------- MODULE CreditsProofs ---------------------------
(***************************************************************************)
(* Billing.  The books of Credits are sound for every set of users,        *)
(* currencies and requests and for every opening: typed, never overdrawn,  *)
(* and every balance explained by its ledger; and what a request answered  *)
(* is what the ledgers say of it.  The recurring charges of                *)
(* CreditSubscriptions bill each month once, by the mode it was used under,*)
(* for every number of sweeps, usage, cost and calendar.                   *)
(***************************************************************************)
EXTENDS MCBilling, SequenceTheorems, NaturalsInduction, WellFoundedInduction, TLAPS

(* What a batch changes, and what must hold of it.                          *)
BookTypes == balance \in [Accounts -> Int] /\ ledger \in [Accounts -> Seq(Entry)]
Books     == BookTypes /\ LedgerExplainsBalance /\ NeverOverdrawn

(* The request of each phase is of the kind whose handler that phase is in, *)
(* and a spend in progress still has a part to spend.                       *)
Fits(o) ==
        /\ phase[o] = "idle" => spent[o] = << >>
        /\ phase[o] \in {"charge", "classify", "pool"} =>
             /\ req[o] \in SpendRequest
             /\ Len(spent[o]) < Len(req[o].parts)
        /\ phase[o] = "reserved" => req[o] \in SpendRequest
        /\ phase[o] \in {"lookup", "debit", "credit"} =>
             req[o] \in MoveRequest /\ {req[o].from, req[o].to} \subseteq Owners
        /\ phase[o] \in {"prepare", "prepared"} => req[o] \in MoveRequest

RequestFitsPhase == \A o \in Ops : Fits(o)

IInv == TypeOK /\ Books /\ RequestFitsPhase

-----------------------------------------------------------------------------
(* Appending an entry that continues from the balance, and leaves it at or   *)
(* above zero, keeps an account explained and never overdrawn.               *)
LEMMA AppendContinues ==
    ASSUME NEW s \in Seq(Entry), NEW b \in Int, NEW o \in Ops, NEW d \in Int,
           Continues(s), b = IF s = << >> THEN 0 ELSE s[Len(s)].after,
           \A i \in 1..Len(s) : s[i].after >= 0, b + d >= 0
    PROVE  LET t == Append(s, [op |-> o, delta |-> d, after |-> b + d]) IN
             /\ t \in Seq(Entry)
             /\ Continues(t)
             /\ t # << >> /\ t[Len(t)].after = b + d
             /\ \A i \in 1..Len(t) : t[i].after >= 0
<1> DEFINE e == [op |-> o, delta |-> d, after |-> b + d]
           t == Append(s, e)
<1>1. e \in Entry  BY DEF Entry
<1>2. t \in Seq(Entry) /\ Len(t) = Len(s) + 1 /\ t[Len(t)] = e  BY <1>1
<1>3. \A i \in 1..Len(s) : t[i] = s[i]  BY <1>1
<1>4. Len(s) \in Nat  OBVIOUS
<1>5. Continues(t)
  <2> SUFFICES ASSUME NEW i \in 1..Len(t)
               PROVE  t[i].after = t[i].delta + (IF i = 1 THEN 0 ELSE t[i - 1].after)
    BY DEF Continues
  <2>1. CASE i \in 1..Len(s)
    <3>1. t[i] = s[i]  BY <2>1, <1>3
    <3>2. i # 1 => t[i - 1] = s[i - 1]  BY <2>1, <1>3, <1>4
    <3> QED  BY <2>1, <3>1, <3>2 DEF Continues
  <2>2. CASE i = Len(t)
    <3>1. CASE s = << >>
      BY <3>1, <2>2, <1>2
    <3>2. CASE s # << >>
      <4>1. Len(s) >= 1 /\ i - 1 = Len(s) /\ i # 1  BY <3>2, <2>2, <1>2, <1>4
      <4>2. t[i - 1] = s[Len(s)]  BY <4>1, <1>3
      <4> QED  BY <3>2, <4>1, <4>2, <2>2, <1>2
    <3> QED  BY <3>1, <3>2
  <2> QED  BY <2>1, <2>2, <1>2, <1>4
<1>6. \A i \in 1..Len(t) : t[i].after >= 0
  BY <1>2, <1>3, <1>4
<1>7. t # << >> /\ t[Len(t)].after = b + d
  <2>1. Len(t) # 0 /\ t[Len(t)].after = e.after  BY <1>2, <1>4
  <2> QED  BY <2>1
<1> QED  BY <1>2, <1>5, <1>6, <1>7

(* A batch computed from the stored balances, none of which it takes below   *)
(* zero, keeps the books.                                                    *)
LEMMA PostKeepsBooks ==
    ASSUME Books, NEW o \in Ops, NEW base, NEW legs,
           DOMAIN legs \subseteq Accounts,
           \A a \in DOMAIN legs : legs[a] \in Int /\ base[a] = balance[a] /\ base[a] + legs[a] >= 0,
           Post(o, base, legs)
    PROVE  Books'
<1> DEFINE e(a) == [op |-> o, delta |-> legs[a], after |-> base[a] + legs[a]]
<1>1. \A a \in DOMAIN legs :
         /\ a \in Accounts
         /\ balance'[a] = base[a] + legs[a]
         /\ ledger'[a] = Append(ledger[a], e(a))
  BY DEF Post
<1>2. \A a \in Accounts \ DOMAIN legs : balance'[a] = balance[a] /\ ledger'[a] = ledger[a]
  BY DEF Post
<1>3. \A a \in Accounts : balance[a] \in Int /\ ledger[a] \in Seq(Entry)
  BY DEF Books, BookTypes
<1>4. \A a \in DOMAIN legs :
         /\ ledger'[a] \in Seq(Entry)
         /\ Continues(ledger'[a])
         /\ ledger'[a] # << >> /\ ledger'[a][Len(ledger'[a])].after = balance'[a]
         /\ balance'[a] \in Int /\ balance'[a] >= 0
         /\ \A i \in 1..Len(ledger'[a]) : ledger'[a][i].after >= 0
  <2> SUFFICES ASSUME NEW a \in DOMAIN legs
               PROVE  /\ ledger'[a] \in Seq(Entry)
                      /\ Continues(ledger'[a])
                      /\ ledger'[a] # << >> /\ ledger'[a][Len(ledger'[a])].after = balance'[a]
                      /\ balance'[a] \in Int /\ balance'[a] >= 0
                      /\ \A i \in 1..Len(ledger'[a]) : ledger'[a][i].after >= 0
    OBVIOUS
  <2>1. a \in Accounts /\ legs[a] \in Int /\ base[a] = balance[a] /\ balance[a] + legs[a] >= 0
    BY <1>1
  <2>2. /\ Continues(ledger[a])
        /\ balance[a] = IF ledger[a] = << >> THEN 0 ELSE ledger[a][Len(ledger[a])].after
        /\ \A i \in 1..Len(ledger[a]) : ledger[a][i].after >= 0
    BY <2>1 DEF Books, LedgerExplainsBalance, NeverOverdrawn
  <2>3. ledger'[a] = Append(ledger[a], [op |-> o, delta |-> legs[a], after |-> balance[a] + legs[a]])
    BY <1>1, <2>1
  <2>4. balance'[a] = balance[a] + legs[a]  BY <1>1, <2>1
  <2>5. balance[a] \in Int /\ ledger[a] \in Seq(Entry)  BY <1>3, <2>1
  <2>6. balance'[a] \in Int /\ balance'[a] >= 0  BY <2>1, <2>4, <2>5
  <2> DEFINE t == Append(ledger[a], [op |-> o, delta |-> legs[a], after |-> balance[a] + legs[a]])
  <2>7. /\ t \in Seq(Entry)
        /\ Continues(t)
        /\ t # << >> /\ t[Len(t)].after = balance[a] + legs[a]
        /\ \A i \in 1..Len(t) : t[i].after >= 0
    BY <2>1, <2>2, <2>5, AppendContinues
  <2> HIDE DEF t
  <2>8. ledger'[a] = t  BY <2>3 DEF t
  <2> QED  BY <2>4, <2>6, <2>7, <2>8
<1>5. BookTypes'
  BY <1>2, <1>3, <1>4 DEF BookTypes, Post
<1>6. LedgerExplainsBalance'
  BY <1>2, <1>4 DEF LedgerExplainsBalance, Books, Continues
<1>7. NeverOverdrawn'
  BY <1>2, <1>4 DEF NeverOverdrawn, Books
<1> QED  BY <1>5, <1>6, <1>7 DEF Books

LEMMA BooksStutter ==
    ASSUME Books, Untouched  PROVE Books'
BY DEF Books, BookTypes, LedgerExplainsBalance, NeverOverdrawn, Continues, Untouched

(* One account, moved by an amount it can bear.                              *)
LEMMA SinglePost ==
    ASSUME Books, NEW o \in Ops, NEW a \in Accounts, NEW d \in Int,
           balance[a] + d >= 0, Post(o, balance, Leg(a, d))
    PROVE  Books'
<1>1. DOMAIN Leg(a, d) = {a} /\ Leg(a, d)[a] = d  BY DEF Leg
<1>2. DOMAIN Leg(a, d) \subseteq Accounts  BY <1>1
<1>3. \A x \in DOMAIN Leg(a, d) :
         /\ Leg(a, d)[x] \in Int
         /\ balance[x] = balance[x] /\ balance[x] + Leg(a, d)[x] >= 0
  BY <1>1
<1> HIDE DEF Leg
<1> QED  BY <1>2, <1>3, PostKeepsBooks

-----------------------------------------------------------------------------
LEMMA InitIInv == Init => IInv
<1> SUFFICES ASSUME Init PROVE IInv  OBVIOUS
<1>1. \A a \in Accounts :
         /\ balance[a] \in Int /\ balance[a] >= 0
         /\ ledger[a] = IF balance[a] = 0 THEN << >>
                        ELSE <<[op |-> NoOp, delta |-> balance[a], after |-> balance[a]]>>
  BY RequestAssumption DEF Init
<1>2. \A a \in Accounts :
         /\ ledger[a] \in Seq(Entry)
         /\ Continues(ledger[a])
         /\ balance[a] = IF ledger[a] = << >> THEN 0 ELSE ledger[a][Len(ledger[a])].after
         /\ \A i \in 1..Len(ledger[a]) : ledger[a][i].after >= 0
  <2> SUFFICES ASSUME NEW a \in Accounts
               PROVE  /\ ledger[a] \in Seq(Entry)
                      /\ Continues(ledger[a])
                      /\ balance[a] = IF ledger[a] = << >> THEN 0 ELSE ledger[a][Len(ledger[a])].after
                      /\ \A i \in 1..Len(ledger[a]) : ledger[a][i].after >= 0
    OBVIOUS
  <2>1. CASE balance[a] = 0
    <3>1. ledger[a] = << >>  BY <1>1, <2>1
    <3> QED  BY <2>1, <3>1 DEF Continues
  <2>2. CASE balance[a] # 0
    <3> DEFINE e == [op |-> NoOp, delta |-> balance[a], after |-> balance[a]]
    <3>1. e \in Entry /\ e.after = balance[a] /\ e.delta = balance[a]  BY <1>1 DEF Entry
    <3>2. ledger[a] = <<e>>  BY <1>1, <2>2
    <3> HIDE DEF e
    <3>3. ledger[a] \in Seq(Entry) /\ Len(ledger[a]) = 1 /\ ledger[a][1] = e /\ ledger[a] # << >>
      BY <3>1, <3>2
    <3>6. balance[a] \in Int /\ balance[a] >= 0  BY <1>1
    <3>7. \A i \in 1..Len(ledger[a]) : i = 1 /\ ledger[a][i] = e  BY <3>3
    <3>4. Continues(ledger[a])  BY <3>1, <3>6, <3>7 DEF Continues
    <3>5. \A i \in 1..Len(ledger[a]) : ledger[a][i].after >= 0  BY <3>1, <3>6, <3>7
    <3> QED  BY <3>1, <3>3, <3>4, <3>5
  <2> QED  BY <2>1, <2>2
<1>3. BookTypes  BY <1>2, RequestAssumption DEF Init, BookTypes
<1>4. LedgerExplainsBalance /\ NeverOverdrawn
  BY <1>1, <1>2 DEF LedgerExplainsBalance, NeverOverdrawn
<1>5. TypeOK
  BY <1>3 DEF Init, TypeOK, BookTypes, Phases, Paid
<1>6. RequestFitsPhase
  BY DEF Init, RequestFitsPhase, Fits
<1> QED  BY <1>3, <1>4, <1>5, <1>6 DEF IInv, Books

LEMMA StartStep ==
    ASSUME IInv, NEW o \in Ops, NEW r \in Requests, Start(o, r)  PROVE IInv'
<1>1. Books'  BY BooksStutter DEF Start, IInv, Untouched
<1>2. TypeOK'  BY <1>1 DEF Start, IInv, TypeOK, Books, BookTypes, Goto, Phases
<1>3. r \in SpendRequest \cup MoveRequest  BY RequestAssumption
<1>4. r.kind = "spend" => r \in SpendRequest /\ Len(r.parts) > 0
  BY <1>3, RequestAssumption DEF SpendRequest, MoveRequest
<1>5. r.kind \in {"move", "admin"} => r \in MoveRequest
  BY <1>3 DEF SpendRequest, MoveRequest
<1>6. r.kind = "move" => {r.from, r.to} \subseteq Owners
  BY RequestAssumption
<1>7. /\ \A x \in Ops : req'[x] = IF x = o THEN r ELSE req[x]
      /\ \A x \in Ops \ {o} : phase'[x] = phase[x]
      /\ phase'[o] \in {"charge", "lookup", "debit", "prepare"}
      /\ phase'[o] = "charge" => r.kind = "spend"
      /\ phase'[o] \in {"lookup", "debit"} => r.kind = "move"
      /\ phase'[o] = "prepare" => r.kind = "admin"
      /\ spent' = spent /\ spent[o] = << >>
  BY DEF Start, Goto, IInv, TypeOK, RequestFitsPhase, Fits
<1>8. RequestFitsPhase'
  BY <1>4, <1>5, <1>6, <1>7 DEF IInv, RequestFitsPhase, Fits
<1> QED  BY <1>1, <1>2, <1>8 DEF IInv

(* A step of one request leaves the fit of the others alone.                 *)
LEMMA FitsFrame ==
    ASSUME RequestFitsPhase, NEW o \in Ops, req' = req, Fits(o)',
           \A x \in Ops \ {o} : phase'[x] = phase[x] /\ spent'[x] = spent[x]
    PROVE  RequestFitsPhase'
BY DEF RequestFitsPhase, Fits

LEMMA ThisPartType ==
    ASSUME IInv, NEW o \in Ops, phase[o] \in {"charge", "classify", "pool"}
    PROVE  /\ req[o] \in SpendRequest
           /\ ThisPart(o) \in Part
           /\ Wallet(o) \in Accounts /\ PoolOf(o) \in Accounts
<1>1. req[o] \in SpendRequest /\ Len(spent[o]) < Len(req[o].parts)
  BY DEF IInv, RequestFitsPhase, Fits
<1>2. spent[o] \in Seq(Paid) /\ req[o].parts \in Seq(Part) /\ req[o].user \in Users
  BY <1>1 DEF IInv, TypeOK, SpendRequest
<1>3. ThisPart(o) \in Part
  BY <1>1, <1>2 DEF ThisPart
<1> QED  BY <1>1, <1>2, <1>3 DEF Wallet, PoolOf, Accounts, Owners, Part

(* Take: a wallet or the pool pays the part in full.                         *)
LEMMA TakeKeeps ==
    ASSUME IInv, NEW o \in Ops, phase[o] \in {"charge", "classify", "pool"},
           NEW a \in Accounts, Covers(a, ThisPart(o).amount), Take(o, a),
           UNCHANGED <<users, req, verdict, snap>>
    PROVE  IInv'
<1>1. ThisPart(o) \in Part /\ req[o] \in SpendRequest  BY ThisPartType
<1>2. ThisPart(o).amount \in Int /\ ThisPart(o).amount >= 0 /\ ThisPart(o).amount \in Nat
  BY <1>1 DEF Part
<1>3. balance[a] \in Int /\ balance[a] + (-ThisPart(o).amount) >= 0
  BY <1>2 DEF Covers, IInv, Books, BookTypes
<1>4. Post(o, balance, Leg(a, -ThisPart(o).amount))  BY DEF Take
<1>5. Books'
  BY <1>2, <1>3, <1>4, SinglePost DEF IInv
<1>6. [account |-> a, amount |-> ThisPart(o).amount] \in Paid  BY <1>2 DEF Paid
<1>7. /\ spent' \in [Ops -> Seq(Paid)]
      /\ Len(spent'[o]) = Len(spent[o]) + 1
      /\ \A x \in Ops \ {o} : spent'[x] = spent[x]
  BY <1>6 DEF Take, IInv, TypeOK
<1>8. /\ phase' \in [Ops -> Phases]
      /\ \A x \in Ops \ {o} : phase'[x] = phase[x]
      /\ phase'[o] = IF Len(spent[o]) + 1 = Len(req[o].parts) THEN "reserved" ELSE "charge"
  BY DEF Take, Goto, IInv, TypeOK, Phases
<1>9. TypeOK'  BY <1>5, <1>7, <1>8 DEF IInv, TypeOK, Books, BookTypes
<1>10. Len(spent[o]) < Len(req[o].parts) /\ Len(spent[o]) \in Nat /\ Len(req[o].parts) \in Nat
  BY <1>1 DEF IInv, RequestFitsPhase, Fits, TypeOK, SpendRequest
<1>11. Fits(o)'  BY <1>1, <1>7, <1>8, <1>10 DEF Fits
<1>12. RequestFitsPhase'  BY <1>7, <1>8, <1>11, FitsFrame DEF IInv
<1> QED  BY <1>5, <1>9, <1>12 DEF IInv

(* A step that writes nothing and sends its request to a phase with no       *)
(* demand on it, or to one whose demand it already meets.                    *)
LEMMA QuietStep ==
    ASSUME IInv, NEW o \in Ops, NEW p \in Phases, Goto(o, p), Untouched,
           UNCHANGED <<users, req, spent>>, verdict' \in [Ops -> {"refused", "failed"}],
           \/ p \in Final \cup {"refund"}
           \/ p \in {"classify", "pool"} /\ phase[o] \in {"charge", "classify"}
           \/ p = "debit" /\ phase[o] = "lookup"
           \/ p = "prepared" /\ phase[o] = "prepare"
    PROVE  IInv'
<1>1. Books'  BY BooksStutter DEF IInv
<1>2. /\ phase' \in [Ops -> Phases] /\ phase'[o] = p
      /\ \A x \in Ops \ {o} : phase'[x] = phase[x]
  BY DEF Goto, IInv, TypeOK
<1>3. TypeOK'  BY <1>1, <1>2 DEF IInv, TypeOK, Books, BookTypes
<1>4. Fits(o)'  BY <1>2 DEF Fits, IInv, RequestFitsPhase, Final
<1>5. RequestFitsPhase'  BY <1>2, <1>4, FitsFrame DEF IInv
<1> QED  BY <1>1, <1>3, <1>5 DEF IInv

-----------------------------------------------------------------------------
LEMMA ChargeUserStep ==
    ASSUME IInv, NEW o \in Ops, ChargeUser(o)  PROVE IInv'
<1>1. phase[o] = "charge"  BY DEF ChargeUser
<1>2. CASE req[o].user \in users /\ Covers(Wallet(o), ThisPart(o).amount)
  <2>1. Take(o, Wallet(o)) /\ UNCHANGED <<users, req, verdict, snap>>
    BY <1>2 DEF ChargeUser
  <2>2. Wallet(o) \in Accounts  BY <1>1, ThisPartType
  <2> QED  BY <1>1, <1>2, <2>1, <2>2, TakeKeeps
<1>3. CASE ~(req[o].user \in users /\ Covers(Wallet(o), ThisPart(o).amount))
  <2>1. Goto(o, "classify") /\ Untouched /\ UNCHANGED <<users, req, spent, verdict>>
    BY <1>3 DEF ChargeUser
  <2>2. verdict' \in [Ops -> {"refused", "failed"}] /\ "classify" \in Phases
    BY <2>1 DEF IInv, TypeOK, Phases
  <2> QED  BY <1>1, <2>1, <2>2, QuietStep
<1> QED  BY <1>2, <1>3

LEMMA RefuseKeeps ==
    ASSUME IInv, NEW o \in Ops, Refuse(o), Untouched, UNCHANGED <<users, req, spent>>
    PROVE  IInv'
<1>1. Goto(o, "refund") /\ verdict' \in [Ops -> {"refused", "failed"}] /\ "refund" \in Phases
  BY DEF Refuse, IInv, TypeOK, Phases
<1> QED  BY <1>1, QuietStep

LEMMA ClassifyStep ==
    ASSUME IInv, NEW o \in Ops, Classify(o)  PROVE IInv'
<1>1. phase[o] = "classify" /\ Untouched /\ UNCHANGED <<users, req, spent>>
  BY DEF Classify, Untouched
<1>2. CASE Goto(o, "pool") /\ UNCHANGED verdict
  <2>1. verdict' \in [Ops -> {"refused", "failed"}] /\ "pool" \in Phases
    BY <1>2 DEF IInv, TypeOK, Phases
  <2> QED  BY <1>1, <1>2, <2>1, QuietStep
<1>3. CASE Refuse(o)
  BY <1>1, <1>3, RefuseKeeps
<1> QED  BY <1>2, <1>3 DEF Classify

LEMMA ChargePoolStep ==
    ASSUME IInv, NEW o \in Ops, ChargePool(o)  PROVE IInv'
<1>1. phase[o] = "pool" /\ UNCHANGED <<users, req, snap>>  BY DEF ChargePool
<1>2. PoolOf(o) \in Accounts  BY <1>1, ThisPartType
<1>3. CASE Covers(PoolOf(o), ThisPart(o).amount) /\ Take(o, PoolOf(o)) /\ UNCHANGED verdict
  BY <1>1, <1>2, <1>3, TakeKeeps
<1>4. CASE Goto(o, "threw") /\ Untouched /\ UNCHANGED <<spent, verdict>>
  <2>1. verdict' \in [Ops -> {"refused", "failed"}] /\ "threw" \in Phases /\ "threw" \in Final
    BY <1>4 DEF IInv, TypeOK, Phases, Final
  <2> QED  BY <1>1, <1>4, <2>1, QuietStep
<1>5. CASE Refuse(o) /\ Untouched /\ UNCHANGED spent
  BY <1>1, <1>5, RefuseKeeps
<1> QED  BY <1>3, <1>4, <1>5 DEF ChargePool

(* Math.round of a portion of a non-negative amount is non-negative.         *)
LEMMA RefundShareType ==
    ASSUME NEW n \in Nat, NEW f \in Nat, NEW rows \in Nat \ {0}
    PROVE  RefundShare(n, f, rows) \in Nat
<1>1. 2 * n * f \in Nat  OBVIOUS
<1>2. 2 * n * f + rows \in Nat /\ 2 * rows \in Nat \ {0}  BY <1>1
<1>3. ASSUME NEW x \in Nat, NEW y \in Nat \ {0} PROVE x \div y \in Nat
  OBVIOUS
<1> QED  BY <1>2, <1>3 DEF RefundShare

LEMMA WriteRowsStep ==
    ASSUME IInv, NEW o \in Ops, WriteRows(o)  PROVE IInv'
<1>1. phase[o] = "reserved" /\ Untouched /\ UNCHANGED <<users, req>>
  BY DEF WriteRows, Untouched
<1>2. CASE Goto(o, "done") /\ UNCHANGED <<spent, verdict>>
  <2>1. verdict' \in [Ops -> {"refused", "failed"}] /\ "done" \in Phases /\ "done" \in Final
    BY <1>2 DEF IInv, TypeOK, Phases, Final
  <2> QED  BY <1>1, <1>2, <2>1, QuietStep
<1>3. ASSUME NEW failed \in 1..req[o].rows,
             spent' = [spent EXCEPT ![o] = Portion(spent[o], failed, req[o].rows)],
             verdict' = [verdict EXCEPT ![o] = "failed"],
             Goto(o, "refund")
      PROVE  IInv'
  <2>1. req[o] \in SpendRequest  BY <1>1 DEF IInv, RequestFitsPhase, Fits
  <2>2. req[o].rows \in Nat \ {0} /\ failed \in Nat  BY <2>1 DEF SpendRequest
  <2>3. spent[o] \in Seq(Paid)  BY DEF IInv, TypeOK
  <2>4. Portion(spent[o], failed, req[o].rows) \in Seq(Paid)
    <3>a. \A i \in 1..Len(spent[o]) : spent[o][i] \in Paid  BY <2>3
    <3>b. \A i \in 1..Len(spent[o]) : spent[o][i].amount \in Nat  BY <3>a DEF Paid
    <3>1. \A i \in 1..Len(spent[o]) :
             RefundShare(spent[o][i].amount, failed, req[o].rows) \in Nat
      BY <2>2, <3>b, RefundShareType
    <3>2. DOMAIN spent[o] = 1..Len(spent[o]) /\ Len(spent[o]) \in Nat  BY <2>3
    <3>3. \A i \in 1..Len(spent[o]) : spent[o][i].account \in Accounts  BY <3>a DEF Paid
    <3>4. Portion(spent[o], failed, req[o].rows) \in [1..Len(spent[o]) -> Paid]
      BY <3>1, <3>2, <3>3 DEF Portion, Paid
    <3> QED  BY <3>2, <3>4
  <2>5. Books'  BY <1>1, BooksStutter DEF IInv
  <2>6. /\ phase' \in [Ops -> Phases] /\ phase'[o] = "refund"
        /\ \A x \in Ops \ {o} : phase'[x] = phase[x] /\ spent'[x] = spent[x]
    BY <1>3 DEF Goto, IInv, TypeOK, Phases
  <2>7. TypeOK'  BY <1>1, <1>3, <2>4, <2>5, <2>6 DEF IInv, TypeOK, Books, BookTypes
  <2>8. Fits(o)'  BY <2>6 DEF Fits
  <2>9. RequestFitsPhase'  BY <1>1, <2>6, <2>8, FitsFrame DEF IInv
  <2> QED  BY <2>5, <2>7, <2>9 DEF IInv
<1> QED  BY <1>2, <1>3 DEF WriteRows

LEMMA RefundStep ==
    ASSUME IInv, NEW o \in Ops, Refund(o)  PROVE IInv'
<1> DEFINE p == Head(spent[o])
<1>1. phase[o] = "refund" /\ spent[o] # << >> /\ UNCHANGED <<users, phase, req, verdict>>
  BY DEF Refund
<1>2. spent[o] \in Seq(Paid)  BY DEF IInv, TypeOK
<1>3. p \in Paid /\ Tail(spent[o]) \in Seq(Paid)  BY <1>1, <1>2
<1>4. Books'
  <2>1. CASE p.amount > 0 /\ Person(o, p.account) \in users
    <3>1. Post(o, balance, Leg(p.account, p.amount))  BY <2>1 DEF Refund
    <3>2. p.account \in Accounts /\ p.amount \in Int /\ p.amount >= 0  BY <1>3 DEF Paid
    <3>3. balance[p.account] \in Int /\ balance[p.account] >= 0
      BY <3>2 DEF IInv, Books, BookTypes, NeverOverdrawn
    <3>4. balance[p.account] + p.amount >= 0  BY <3>2, <3>3
    <3> HIDE DEF p
    <3> QED  BY <3>1, <3>2, <3>4, SinglePost DEF IInv
  <2>2. CASE ~(p.amount > 0 /\ Person(o, p.account) \in users)
    BY <2>2, BooksStutter DEF Refund, IInv
  <2> QED  BY <2>1, <2>2
<1>5. /\ spent' \in [Ops -> Seq(Paid)]
      /\ \A x \in Ops \ {o} : phase'[x] = phase[x] /\ spent'[x] = spent[x]
  BY <1>1, <1>3 DEF Refund, IInv, TypeOK
<1>6. TypeOK'  BY <1>1, <1>4, <1>5 DEF IInv, TypeOK, Books, BookTypes
<1>7. Fits(o)'  BY <1>1 DEF Fits
<1>8. RequestFitsPhase'  BY <1>1, <1>5, <1>7, FitsFrame DEF IInv
<1> QED  BY <1>4, <1>6, <1>8 DEF IInv

LEMMA AnswerStep ==
    ASSUME IInv, NEW o \in Ops, Answer(o)  PROVE IInv'
<1>1. verdict[o] \in Phases /\ verdict[o] \in Final  BY DEF IInv, TypeOK, Phases, Final
<1>2. Goto(o, verdict[o]) /\ Untouched /\ UNCHANGED <<users, req, spent>>
      /\ verdict' \in [Ops -> {"refused", "failed"}]
  BY DEF Answer, Untouched, IInv, TypeOK
<1> QED  BY <1>1, <1>2, QuietStep

LEMMA LookupStep ==
    ASSUME IInv, NEW o \in Ops, Lookup(o)  PROVE IInv'
<1> DEFINE p == IF req[o].to \in users THEN "debit" ELSE "refused"
<1>1. p \in Phases /\ (p \in Final \/ p = "debit")  BY DEF Phases, Final
<1>2. Goto(o, p) /\ Untouched /\ UNCHANGED <<users, req, spent>> /\ phase[o] = "lookup"
      /\ verdict' \in [Ops -> {"refused", "failed"}]
  BY DEF Lookup, Untouched, IInv, TypeOK
<1> HIDE DEF p
<1> QED  BY <1>1, <1>2, QuietStep

LEMMA MoveAccounts ==
    ASSUME IInv, NEW o \in Ops, phase[o] \in {"lookup", "debit", "credit"}
    PROVE  /\ Source(o) \in Accounts /\ Target(o) \in Accounts
           /\ req[o].amount \in Nat \ {0} /\ req[o] \in MoveRequest
           /\ {req[o].from, req[o].to} \subseteq Owners
BY DEF IInv, RequestFitsPhase, Fits, MoveRequest, Source, Target, Accounts

LEMMA DebitStep ==
    ASSUME IInv, NEW o \in Ops, Debit(o)  PROVE IInv'
<1>1. phase[o] = "debit" /\ UNCHANGED <<users, req, verdict>>  BY DEF Debit
<1>2. /\ Source(o) \in Accounts /\ req[o].amount \in Nat \ {0} /\ req[o] \in MoveRequest
      /\ {req[o].from, req[o].to} \subseteq Owners
  BY <1>1, MoveAccounts
<1>3. CASE Covers(Source(o), req[o].amount) /\ Person(o, Source(o)) \in users
  <2>1. /\ Post(o, balance, Leg(Source(o), -req[o].amount))
        /\ spent' = [spent EXCEPT ![o] = <<[account |-> Source(o), amount |-> req[o].amount]>>]
        /\ Goto(o, "credit")
    BY <1>3 DEF Debit
  <2>2. balance[Source(o)] \in Int /\ balance[Source(o)] + (-req[o].amount) >= 0
        /\ -req[o].amount \in Int
    BY <1>2, <1>3 DEF Covers, IInv, Books, BookTypes
  <2>3. Books'  BY <1>2, <2>1, <2>2, SinglePost DEF IInv
  <2>4. [account |-> Source(o), amount |-> req[o].amount] \in Paid  BY <1>2 DEF Paid
  <2>5. /\ spent' \in [Ops -> Seq(Paid)]
        /\ phase' \in [Ops -> Phases] /\ phase'[o] = "credit"
        /\ \A x \in Ops \ {o} : phase'[x] = phase[x] /\ spent'[x] = spent[x]
    BY <2>1, <2>4 DEF Goto, IInv, TypeOK, Phases
  <2>6. TypeOK'  BY <1>1, <2>3, <2>5 DEF IInv, TypeOK, Books, BookTypes
  <2>7. Fits(o)'  BY <1>1, <1>2, <2>5 DEF Fits
  <2>8. RequestFitsPhase'  BY <1>1, <2>5, <2>7, FitsFrame DEF IInv
  <2> QED  BY <2>3, <2>6, <2>8 DEF IInv
<1>4. CASE ~(Covers(Source(o), req[o].amount) /\ Person(o, Source(o)) \in users)
  <2> DEFINE p == IF req[o].from = Pool /\ Covers(Source(o), req[o].amount)
                  THEN "threw" ELSE "refused"
  <2>1. p \in Phases /\ p \in Final  BY DEF Phases, Final
  <2>2. Goto(o, p) /\ Untouched /\ UNCHANGED spent  BY <1>4 DEF Debit
  <2>3. verdict' \in [Ops -> {"refused", "failed"}]  BY <1>1 DEF IInv, TypeOK
  <2> HIDE DEF p
  <2> QED  BY <1>1, <2>1, <2>2, <2>3, QuietStep
<1> QED  BY <1>3, <1>4

LEMMA CreditStep ==
    ASSUME IInv, NEW o \in Ops, Credit(o)  PROVE IInv'
<1>1. phase[o] = "credit" /\ UNCHANGED <<users, req, spent>>  BY DEF Credit
<1>2. Target(o) \in Accounts /\ req[o].amount \in Nat \ {0}  BY <1>1, MoveAccounts
<1>3. CASE Person(o, Target(o)) \in users
  <2>1. Post(o, balance, Leg(Target(o), req[o].amount)) /\ Goto(o, "done") /\ UNCHANGED verdict
    BY <1>3 DEF Credit
  <2>2. balance[Target(o)] \in Int /\ balance[Target(o)] >= 0 /\ req[o].amount \in Int
    BY <1>2 DEF IInv, Books, BookTypes, NeverOverdrawn
  <2>3. balance[Target(o)] + req[o].amount >= 0  BY <1>2, <2>2
  <2>4. Books'  BY <1>2, <2>1, <2>2, <2>3, SinglePost DEF IInv
  <2>5. /\ phase' \in [Ops -> Phases] /\ phase'[o] = "done"
        /\ \A x \in Ops \ {o} : phase'[x] = phase[x] /\ spent'[x] = spent[x]
    BY <1>1, <2>1 DEF Goto, IInv, TypeOK, Phases, Final
  <2>6. TypeOK'  BY <1>1, <2>1, <2>4, <2>5 DEF IInv, TypeOK, Books, BookTypes
  <2>7. Fits(o)'  BY <2>5 DEF Fits
  <2>8. RequestFitsPhase'  BY <1>1, <2>5, <2>7, FitsFrame DEF IInv
  <2> QED  BY <2>4, <2>6, <2>8 DEF IInv
<1>4. CASE Person(o, Target(o)) \notin users
  BY <1>1, <1>4, RefuseKeeps DEF Credit
<1> QED  BY <1>3, <1>4

LEMMA PrepareStep ==
    ASSUME IInv, NEW o \in Ops, Prepare(o)  PROVE IInv'
<1>1. Goto(o, "prepared") /\ Untouched /\ UNCHANGED <<users, req, spent>> /\ phase[o] = "prepare"
      /\ verdict' \in [Ops -> {"refused", "failed"}] /\ "prepared" \in Phases
  BY DEF Prepare, Untouched, IInv, TypeOK, Phases
<1> QED  BY <1>1, QuietStep

(* The batch writes what it computed from its snapshot, and only when the    *)
(* snapshot is what is stored.                                               *)
LEMMA CommitStep ==
    ASSUME IInv, NEW o \in Ops, Commit(o)  PROVE IInv'
<1> DEFINE legs == Legs(req[o])
<1>1. phase[o] = "prepared" /\ UNCHANGED <<users, req, spent, verdict>>  BY DEF Commit
<1>2. req[o] \in MoveRequest  BY <1>1 DEF IInv, RequestFitsPhase, Fits
<1>3. DOMAIN legs \subseteq Accounts /\ \A a \in DOMAIN legs : legs[a] \in Int
  BY <1>2 DEF Legs, MoveRequest
<1>4. CASE snap[o] = Snapshot(o)
  <2>1. \A a \in DOMAIN legs : snap[o].balance[a] = balance[a]
    BY <1>4 DEF Snapshot
  <2>2. \A a \in DOMAIN legs : snap[o].balance[a] + legs[a] >= 0
    BY DEF Commit
  <2>3. Post(o, snap[o].balance, legs) /\ Goto(o, "done")
    BY <1>4 DEF Commit
  <2> HIDE DEF legs
  <2>4. Books'  BY <1>3, <2>1, <2>2, <2>3, PostKeepsBooks DEF IInv
  <2>5. /\ phase' \in [Ops -> Phases] /\ phase'[o] = "done"
        /\ \A x \in Ops \ {o} : phase'[x] = phase[x] /\ spent'[x] = spent[x]
    BY <1>1, <2>3 DEF Goto, IInv, TypeOK, Phases, Final
  <2>6. TypeOK'  BY <1>1, <2>4, <2>5 DEF IInv, TypeOK, Books, BookTypes
  <2>7. Fits(o)'  BY <2>5 DEF Fits
  <2>8. RequestFitsPhase'  BY <1>1, <2>5, <2>7, FitsFrame DEF IInv
  <2> QED  BY <2>4, <2>6, <2>8 DEF IInv
<1>5. CASE snap[o] # Snapshot(o)
  <2>1. Goto(o, "unavailable") /\ Untouched  BY <1>5 DEF Commit
  <2>2. verdict' \in [Ops -> {"refused", "failed"}] /\ "unavailable" \in Phases /\ "unavailable" \in Final
    BY <1>1 DEF IInv, TypeOK, Phases, Final
  <2> QED  BY <1>1, <2>1, <2>2, QuietStep
<1> QED  BY <1>4, <1>5

LEMMA DeclineStep ==
    ASSUME IInv, NEW o \in Ops, Decline(o)  PROVE IInv'
<1>1. Untouched /\ UNCHANGED <<users, req, spent>> /\ verdict' \in [Ops -> {"refused", "failed"}]
  BY DEF Decline, Untouched, IInv, TypeOK
<1>2. PICK p \in {"refused", "unavailable"} : Goto(o, p)  BY DEF Decline
<1>3. p \in Phases /\ p \in Final  BY <1>2 DEF Phases, Final
<1> QED  BY <1>1, <1>2, <1>3, QuietStep

LEMMA CrashStep ==
    ASSUME IInv, NEW o \in Ops, Crash(o)  PROVE IInv'
<1>1. Goto(o, "crashed") /\ Untouched /\ UNCHANGED <<users, req, spent>>
      /\ verdict' \in [Ops -> {"refused", "failed"}] /\ "crashed" \in Phases /\ "crashed" \in Final
  BY DEF Crash, Untouched, IInv, TypeOK, Phases, Final
<1> QED  BY <1>1, QuietStep

LEMMA DeleteUserStep ==
    ASSUME IInv, NEW u \in Users, DeleteUser(u)  PROVE IInv'
<1>1. \A a \in Accounts :
         /\ balance'[a] = IF a[1] = u THEN 0 ELSE balance[a]
         /\ ledger'[a] = IF a[1] = u THEN << >> ELSE ledger[a]
  BY DEF DeleteUser
<1>2. BookTypes'
  <2>1. \A a \in Accounts : balance'[a] \in Int /\ ledger'[a] \in Seq(Entry)
    <3>1. \A a \in Accounts : balance[a] \in Int /\ ledger[a] \in Seq(Entry)
      BY DEF IInv, Books, BookTypes
    <3>2. << >> \in Seq(Entry)  OBVIOUS
    <3>3. SUFFICES ASSUME NEW a \in Accounts PROVE balance'[a] \in Int /\ ledger'[a] \in Seq(Entry)
      OBVIOUS
    <3>4. CASE a[1] = u
      <4>1. balance'[a] = 0 /\ ledger'[a] = << >>  BY <1>1, <3>4
      <4> QED  BY <3>2, <4>1
    <3>5. CASE a[1] # u
      <4>1. balance'[a] = balance[a] /\ ledger'[a] = ledger[a]  BY <1>1, <3>5
      <4> QED  BY <3>1, <4>1
    <3> QED  BY <3>4, <3>5
  <2> QED  BY <2>1 DEF BookTypes, DeleteUser
<1>3. LedgerExplainsBalance'
  <2> SUFFICES ASSUME NEW a \in Accounts
               PROVE  /\ Continues(ledger'[a])
                      /\ balance'[a] = IF ledger'[a] = << >> THEN 0 ELSE ledger'[a][Len(ledger'[a])].after
    BY DEF LedgerExplainsBalance, Continues
  <2>1. CASE a[1] = u
    <3>1. balance'[a] = 0 /\ ledger'[a] = << >>  BY <1>1, <2>1
    <3> QED  BY <3>1 DEF Continues
  <2>2. CASE a[1] # u
    <3>1. balance'[a] = balance[a] /\ ledger'[a] = ledger[a]  BY <1>1, <2>2
    <3> QED  BY <3>1 DEF IInv, Books, LedgerExplainsBalance
  <2> QED  BY <2>1, <2>2
<1>4. NeverOverdrawn'
  <2> SUFFICES ASSUME NEW a \in Accounts
               PROVE  balance'[a] >= 0 /\ \A i \in 1..Len(ledger'[a]) : ledger'[a][i].after >= 0
    BY DEF NeverOverdrawn
  <2>1. CASE a[1] = u
    <3>1. balance'[a] = 0 /\ ledger'[a] = << >>  BY <1>1, <2>1
    <3> QED  BY <3>1
  <2>2. CASE a[1] # u
    <3>1. balance'[a] = balance[a] /\ ledger'[a] = ledger[a]  BY <1>1, <2>2
    <3> QED  BY <3>1 DEF IInv, Books, NeverOverdrawn
  <2> QED  BY <2>1, <2>2
<1>5. TypeOK'  BY <1>2 DEF DeleteUser, IInv, TypeOK, BookTypes
<1>6. RequestFitsPhase'  BY DEF DeleteUser, IInv, RequestFitsPhase, Fits
<1> QED  BY <1>2, <1>3, <1>4, <1>5, <1>6 DEF IInv, Books

LEMMA StutterStep ==
    ASSUME IInv, UNCHANGED vars  PROVE IInv'
<1>1. Books'  BY BooksStutter DEF IInv, vars, Untouched
<1> QED  BY <1>1 DEF vars, IInv, TypeOK, RequestFitsPhase, Fits

LEMMA NextKeepsIInv == IInv /\ [Next]_vars => IInv'
<1> SUFFICES ASSUME IInv, [Next]_vars PROVE IInv'  OBVIOUS
<1>1. ASSUME NEW o \in Ops, NEW r \in Requests, Start(o, r) PROVE IInv'
  BY <1>1, StartStep
<1>2. ASSUME NEW o \in Ops, Step(o) PROVE IInv'
  BY <1>2, ChargeUserStep, ClassifyStep, ChargePoolStep, WriteRowsStep, RefundStep, AnswerStep,
     LookupStep, DebitStep, CreditStep, PrepareStep, CommitStep, DeclineStep DEF Step
<1>3. ASSUME NEW o \in Ops, Crash(o) PROVE IInv'
  BY <1>3, CrashStep
<1>4. ASSUME NEW u \in Users, DeleteUser(u) PROVE IInv'
  BY <1>4, DeleteUserStep
<1>5. CASE UNCHANGED vars
  BY <1>5, StutterStep
<1> QED  BY <1>1, <1>2, <1>3, <1>4, <1>5 DEF Next

-----------------------------------------------------------------------------
(* For any users, currencies, requests and opening: "the ledger can never     *)
(* disagree with the balance", every balance is where its ledger ends and     *)
(* every entry continues the one before; and "concurrent spends can never     *)
(* take a balance below zero", in the wallets, the pool or any entry, however *)
(* charges, refunds, moves, administration and crashes interleave             *)
(* (service.ts).                                                              *)
THEOREM BooksHold == Spec => []BooksSound
<1>1. IInv => BooksSound  BY DEF IInv, Books, BooksSound
<1> QED  BY <1>1, InitIInv, NextKeepsIInv, PTL DEF Spec

-----------------------------------------------------------------------------
(* Totals.  FoldLeft adds a sequence from its first element to its last.     *)
LEMMA LeastOf == ASSUME NEW S, S \subseteq Nat, S # {} PROVE \E n \in S : \A m \in S : n <= m
<1> DEFINE R == OpToRel(<, Nat)
<1>1. IsWellFoundedOn(R, Nat)  BY NatLessThanWellFounded
<1>2. PICK n \in S : \A m \in S : ~ (<<m, n>> \in R)
  <2> HIDE DEF R
  <2> QED BY <1>1, WFMin
<1>3. \A a, b \in Nat : a < b => <<a, b>> \in R  BY DEF OpToRel
<1>4. \A m \in S : m \in Nat /\ n \in Nat /\ ~(m < n)  BY <1>2, <1>3
<1> HIDE DEF R
<1> QED BY <1>4

(* The function that a fold defines on the places of a sequence.            *)
FoldsTo(g, s, m) == /\ g \in [SUBSET (1..m) -> Int]
                  /\ \A S \in SUBSET (1..m) : g[S] = IF S = {} THEN 0 ELSE g[S \ {Max(S)}] + s[Max(S)]

LEMMA MaxIs == ASSUME NEW S, NEW m \in S, \A k \in S : k \in Nat /\ k <= m PROVE Max(S) = m
<1>1. \A k \in S : m >= k OBVIOUS
<1>2. \A x \in S : (\A y \in S : x >= y) => x = m BY <1>1
<1> QED BY <1>1, <1>2 DEF Max

LEMMA FoldExists ==
    ASSUME NEW s \in Seq(Int), NEW n \in Nat, n <= Len(s)
    PROVE  \E g : FoldsTo(g, s, n)
<1> DEFINE T == {m \in 0..Len(s) : ~ \E g : FoldsTo(g, s, m)}
<1> SUFFICES ASSUME T # {} PROVE FALSE  OBVIOUS
<1>1. PICK m \in T : \A k \in T : m <= k
  <2>1. T \subseteq Nat  OBVIOUS
  <2> HIDE DEF T
  <2> QED BY <2>1, LeastOf
<1>2. CASE m = 0
  <2> DEFINE g == [S \in SUBSET (1..0) |-> 0]
  <2>1. \A S \in SUBSET (1..0) : S = {}  OBVIOUS
  <2>2. FoldsTo(g, s, 0)  BY <2>1 DEF FoldsTo
  <2> QED BY <1>1, <1>2, <2>2
<1>3. CASE m # 0
  <2>1. m - 1 \in 0..Len(s) /\ m \in 1..Len(s) /\ ~(m <= m - 1)  BY <1>3
  <2>2. m - 1 \notin T  BY <1>1, <2>1
  <2>3. PICK g : FoldsTo(g, s, m - 1)  BY <2>1, <2>2
  <2> DEFINE h == [S \in SUBSET (1..m) |-> IF m \in S THEN g[S \ {m}] + s[m] ELSE g[S]]
  <2>4. \A S \in SUBSET (1..m) : S \ {m} \in SUBSET (1..(m - 1)) /\ (m \notin S => S \in SUBSET (1..(m - 1)))
      BY <2>1
  <2>5. s[m] \in Int /\ \A S \in SUBSET (1..(m - 1)) : g[S] \in Int  BY <2>1, <2>3 DEF FoldsTo
  <2>6. h \in [SUBSET (1..m) -> Int]  BY <2>4, <2>5
  <2>7. ASSUME NEW S \in SUBSET (1..m), S # {} PROVE h[S] = h[S \ {Max(S)}] + s[Max(S)]
    <3>1. CASE m \in S
      <4>1. Max(S) = m
        <5>1. \A k \in S : k \in Nat /\ k <= m  OBVIOUS
        <5> QED BY <3>1, <5>1, MaxIs
      <4>2. h[S] = g[S \ {m}] + s[m]  BY <3>1
      <4>3. h[S \ {m}] = g[S \ {m}]  BY <2>4
      <4> QED BY <4>1, <4>2, <4>3
    <3>2. CASE m \notin S
      <4>1. S \in SUBSET (1..(m - 1))  BY <2>4, <3>2
      <4>2. g[S] = g[S \ {Max(S)}] + s[Max(S)]  BY <2>3, <2>7, <4>1 DEF FoldsTo
      <4>3. h[S] = g[S] /\ h[S \ {Max(S)}] = g[S \ {Max(S)}]  BY <3>2
      <4> QED BY <4>2, <4>3
    <3> QED BY <3>1, <3>2
  <2>8. h[{}] = 0  BY <2>3 DEF FoldsTo
  <2> HIDE DEF h
  <2>9. FoldsTo(h, s, m)  BY <2>6, <2>7, <2>8 DEF FoldsTo
  <2> QED BY <1>1, <2>9
<1> QED BY <1>2, <1>3

(* The partial sums of a sequence, the last of which is its total.           *)
Sums(f, s) == /\ f \in [0..Len(s) -> Int] /\ f[0] = 0
              /\ \A i \in 1..Len(s) : f[i] = f[i - 1] + s[i]

LEMMA TotalSums ==
    ASSUME NEW s \in Seq(Int)
    PROVE  \E f : Sums(f, s) /\ Total(s) = f[Len(s)]
<1> DEFINE eq(g) == g = [S \in SUBSET (DOMAIN s) |-> IF S = {} THEN 0 ELSE g[S \ {Max(S)}] + s[Max(S)]]
           n == Len(s)
<1>0. DOMAIN s = 1..n /\ n \in Nat  OBVIOUS
<1>1. \E g : eq(g)
  <2>1. PICK g : FoldsTo(g, s, n)  BY <1>0, FoldExists
  <2>2. eq(g)  BY <1>0, <2>1 DEF FoldsTo
  <2> QED BY <2>2
<1> DEFINE c == CHOOSE g : eq(g)
<1>2. eq(c)  BY <1>1
<1>3. Total(s) = c[DOMAIN s]  BY DEF Total, FoldLeft, MapThenFoldSet
<1> HIDE DEF c
<1> DEFINE f == [i \in 0..n |-> c[1..i]]
<1>4. ASSUME NEW i \in 1..n PROVE f[i] = f[i - 1] + s[i]
  <2>a. i \in Nat /\ i >= 1 /\ i \in 1..i /\ 1..i \subseteq 1..n  BY <1>0
  <2>b. \A k \in 1..i : k \in Nat /\ k <= i  BY <2>a
  <2>1. Max(1..i) = i  BY <2>a, <2>b, MaxIs
  <2>2. (1..i) \ {i} = 1..(i - 1)  OBVIOUS
  <2>3. (1..i) # {} /\ (1..i) \in SUBSET (DOMAIN s)  BY <1>0, <2>a
  <2>4. c[1..i] = c[(1..i) \ {Max(1..i)}] + s[Max(1..i)]
    <3> HIDE DEF f
    <3> QED BY <1>2, <2>3
  <2>5. i - 1 \in 0..n /\ i \in 0..n  BY <1>0, <2>a
  <2> QED BY <2>1, <2>2, <2>4, <2>5
<1>5. f[0] = 0  
  <2>1. 1..0 = {}  OBVIOUS
  <2> QED BY <1>2, <2>1, <1>0
<1>6. f \in [0..n -> Int]
  <2> DEFINE B == {i \in 0..n : f[i] \notin Int}
  <2> SUFFICES ASSUME B # {} PROVE FALSE  OBVIOUS
  <2>1. PICK i \in B : \A k \in B : i <= k
    <3>1. B \subseteq Nat  OBVIOUS
    <3> HIDE DEF B
    <3> QED BY <3>1, LeastOf
  <2> HIDE DEF f
  <2>2. i # 0  BY <1>5, <2>1
  <2>3. i \in 1..n /\ i - 1 \in 0..n /\ ~(i <= i - 1)  BY <1>0, <2>2
  <2>4. f[i - 1] \in Int  BY <2>1, <2>3
  <2>5. f[i] = f[i - 1] + s[i] /\ s[i] \in Int  BY <1>4, <2>3
  <2> QED BY <2>1, <2>4, <2>5
<1>7. Total(s) = f[n]  BY <1>0, <1>3
<1> HIDE DEF f
<1> QED BY <1>4, <1>5, <1>6, <1>7 DEF Sums

LEMMA SumsAgree ==
    ASSUME NEW s \in Seq(Int), NEW t \in Seq(Int), NEW f, NEW g, Sums(f, s), Sums(g, t),
           NEW n \in Nat, n <= Len(s), n <= Len(t), \A i \in 1..n : s[i] = t[i]
    PROVE  f[n] = g[n]
<1> DEFINE B == {i \in 0..n : f[i] # g[i]}
<1> SUFFICES ASSUME B # {} PROVE FALSE  OBVIOUS
<1>1. PICK i \in B : \A k \in B : i <= k
  <2>1. B \subseteq Nat  OBVIOUS
  <2> HIDE DEF B
  <2> QED BY <2>1, LeastOf
<1>2. i # 0  BY <1>1 DEF Sums
<1>3. i \in 1..n /\ i - 1 \in 0..n /\ ~(i <= i - 1)  BY <1>2
<1>4. f[i - 1] = g[i - 1]  BY <1>1, <1>3
<1>5. f[i] = f[i - 1] + s[i] /\ g[i] = g[i - 1] + t[i]  BY <1>3 DEF Sums
<1> QED BY <1>1, <1>3, <1>4, <1>5

LEMMA TotalAppend ==
    ASSUME NEW s \in Seq(Int), NEW d \in Int
    PROVE  Total(s) \in Int /\ Total(Append(s, d)) = Total(s) + d
<1> DEFINE t == Append(s, d)
<1>1. t \in Seq(Int) /\ Len(t) = Len(s) + 1 /\ t[Len(t)] = d /\ \A i \in 1..Len(s) : t[i] = s[i]  OBVIOUS
<1> HIDE DEF t
<1>2. PICK f : Sums(f, s) /\ Total(s) = f[Len(s)]  BY TotalSums
<1>3. PICK g : Sums(g, t) /\ Total(t) = g[Len(t)]  BY <1>1, TotalSums
<1>4. f[Len(s)] = g[Len(s)]
  <2> DEFINE m == Len(s)
  <2>1. m \in Nat /\ m <= Len(s) /\ m <= Len(t) /\ \A i \in 1..m : s[i] = t[i]  BY <1>1
  <2> HIDE DEF m
  <2>2. f[m] = g[m]  BY <1>1, <1>2, <1>3, <2>1, SumsAgree
  <2> QED BY <2>2 DEF m
<1>5. g[Len(t)] = g[Len(s)] + d  BY <1>1, <1>3 DEF Sums
<1>6. f[Len(s)] \in Int  BY <1>2 DEF Sums
<1> QED BY <1>2, <1>3, <1>4, <1>5, <1>6 DEF t

LEMMA TotalOfNothing == ASSUME NEW s \in Seq(Int), \A i \in 1..Len(s) : s[i] = 0 PROVE Total(s) = 0
<1>1. PICK f : Sums(f, s) /\ Total(s) = f[Len(s)]  BY TotalSums
<1> DEFINE z == [i \in 0..Len(s) |-> 0]
<1>2. Sums(z, s)  BY DEF Sums
<1>3. z[Len(s)] = 0  OBVIOUS
<1> HIDE DEF z
<1> QED BY <1>1, <1>2, <1>3, SumsAgree

LEMMA TotalOfOne ==
    ASSUME NEW s \in Seq(Int), NEW k \in 1..Len(s), \A i \in 1..Len(s) : i # k => s[i] = 0
    PROVE  Total(s) = s[k]
<1>1. PICK f : Sums(f, s) /\ Total(s) = f[Len(s)]  BY TotalSums
<1> DEFINE z == [i \in 0..Len(s) |-> IF i < k THEN 0 ELSE s[k]]
<1>2. Sums(z, s)
  <2>1. s[k] \in Int OBVIOUS
  <2>2. ASSUME NEW i \in 1..Len(s) PROVE z[i] = z[i - 1] + s[i]  BY <2>1
  <2> QED BY <2>1, <2>2 DEF Sums
<1>3. z[Len(s)] = s[k]  OBVIOUS
<1> HIDE DEF z
<1> QED BY <1>1, <1>2, <1>3, SumsAgree

-----------------------------------------------------------------------------
(* What the books say of each request.  SInv strengthens RequestsSettle to   *)
(* the requests still under way: what the ledgers show of one, with what it  *)
(* still holds to be given back, comes to what its answer will promise.      *)

(* What a request has moved on an account comes to k, once what it still     *)
(* has to give back there is counted as returned.                            *)
Comes(o, a, k) ==
    /\ (\A i \in DOMAIN spent[o] : spent[o][i].account # a) => Moved(o, a) = k
    /\ \A i \in DOMAIN spent[o] : spent[o][i].account = a => Moved(o, a) + spent[o][i].amount = k

Nothing(o) == \A a \in Accounts : Moved(o, a) = 0
Payers(o)  == {req[o].user, Pool}
Taking     == {"charge", "classify", "pool", "reserved", "done"}

(* The parts taken so far, in their order, each in full from one account.    *)
PaidParts(o) ==
    /\ Len(spent[o]) <= Len(req[o].parts)
    /\ \A i \in DOMAIN spent[o] : /\ spent[o][i].account[2] = req[o].parts[i].currency
                                  /\ spent[o][i].amount = req[o].parts[i].amount

(* What is left of a partly failed batch: of each part, on the account that  *)
(* paid it, the price of the rows that were written; elsewhere nothing.      *)
PartAccount(o, who, i) == <<who[i], req[o].parts[i].currency>>
Kept(o, failed, i) ==
    RefundShare(req[o].parts[i].amount, failed, req[o].rows) - req[o].parts[i].amount
Partly(o, failed, who) ==
    /\ \A i \in DOMAIN req[o].parts : Comes(o, PartAccount(o, who, i), Kept(o, failed, i))
    /\ \A a \in Accounts : (\A i \in DOMAIN req[o].parts : a # PartAccount(o, who, i)) => Comes(o, a, 0)

SpendSettled(o) ==
    /\ \A i \in DOMAIN spent[o] : spent[o][i].account[1] \in Payers(o)
    /\ \A i, j \in DOMAIN spent[o] : spent[o][i].account = spent[o][j].account => i = j
    /\ phase[o] \in Taking => PaidParts(o)
    /\ phase[o] \in {"reserved", "done"} => Len(spent[o]) = Len(req[o].parts)
    /\ phase[o] \in {"refused", "failed"} => spent[o] = << >> /\ verdict[o] = phase[o]
    /\ verdict[o] = "failed" => phase[o] \in {"refund", "failed", "crashed"}
    /\ phase[o] \in Taking \cup {"refund", "refused", "failed", "threw", "crashed"}
    /\ req[o].user \in users =>
         /\ verdict[o] = "refused" /\ phase[o] \in Taking \cup {"refund", "refused"} =>
              \A a \in Accounts : Comes(o, a, 0)
         /\ verdict[o] = "failed" /\ phase[o] \in {"refund", "failed"} =>
              \E failed \in 1..req[o].rows, who \in [DOMAIN req[o].parts -> Payers(o)] : Partly(o, failed, who)

Before == {"lookup", "debit", "prepare", "prepared", "unavailable"}
MoveSettled(o) ==
    /\ phase[o] \in Before \cup {"credit", "refund", "refused", "done", "threw", "crashed"}
    /\ verdict[o] = "refused"
    /\ phase[o] \in Before => Nothing(o)
    /\ phase[o] \in Before \cup {"refused"} => spent[o] = << >>
    /\ phase[o] = "credit" => spent[o] # << >>
    /\ phase[o] \in {"credit", "refund"} => {req[o].from, req[o].to} \subseteq Owners
    /\ spent[o] # << >> => spent[o] = <<[account |-> Source(o), amount |-> req[o].amount]>>
    /\ {req[o].from, req[o].to} \subseteq Owners =>
         /\ phase[o] \in {"credit", "refund", "refused"} =>
              /\ Moved(o, Target(o)) = 0
              /\ Person(o, Source(o)) \in users => Comes(o, Source(o), 0)
         /\ phase[o] = "done" /\ {req[o].from, req[o].to} \subseteq users \cup {Pool} =>
              Moved(o, Source(o)) = -req[o].amount /\ Moved(o, Target(o)) = req[o].amount

Settled(o) ==
    /\ phase[o] = "idle" => spent[o] = << >> /\ verdict[o] = "refused" /\ Nothing(o)
    /\ phase[o] # "idle" => /\ req[o] \in Requests
                            /\ req[o].kind = "spend" => SpendSettled(o)
                            /\ req[o].kind \in {"move", "admin"} => MoveSettled(o)

SInv == \A o \in Ops : Settled(o)

-----------------------------------------------------------------------------
(* What a request moved on an account, through one batch.                    *)
Of(x, s) == [i \in DOMAIN s |-> IF s[i].op = x THEN s[i].delta ELSE 0]

LEMMA OfAppend ==
    ASSUME NEW s \in Seq(Entry), NEW e \in Entry, NEW x \in Ops
    PROVE  /\ Of(x, s) \in Seq(Int)
           /\ Total(Of(x, Append(s, e))) = Total(Of(x, s)) + (IF e.op = x THEN e.delta ELSE 0)
<1> DEFINE t == Append(s, e)
           d == IF e.op = x THEN e.delta ELSE 0
<1>a. \A i \in 1..Len(s) : s[i] \in Entry  OBVIOUS
<1>1. \A i \in 1..Len(s) : s[i].delta \in Int  BY <1>a DEF Entry
<1>2. DOMAIN s = 1..Len(s) /\ Len(s) \in Nat  OBVIOUS
<1>3. Of(x, s) \in Seq(Int) /\ Len(Of(x, s)) = Len(s)
  <2>1. Of(x, s) \in [1..Len(s) -> Int]  BY <1>1, <1>2 DEF Of
  <2> QED BY <1>2, <2>1
<1>4. d \in Int  BY DEF Entry
<1>5. Of(x, t) = Append(Of(x, s), d)
  <2>1. t \in Seq(Entry) /\ Len(t) = Len(s) + 1 /\ t[Len(t)] = e /\ \A i \in 1..Len(s) : t[i] = s[i]  OBVIOUS
  <2> HIDE DEF t
  <2>a. \A i \in 1..Len(t) : t[i] \in Entry  BY <2>1
  <2>2. \A i \in 1..Len(t) : t[i].delta \in Int  BY <2>a DEF Entry
  <2>3. DOMAIN t = 1..Len(t) /\ Len(t) \in Nat  BY <2>1
  <2>4. Of(x, t) \in Seq(Int) /\ Len(Of(x, t)) = Len(t)
    <3>1. Of(x, t) \in [1..Len(t) -> Int]  BY <2>2, <2>3 DEF Of
    <3> QED BY <2>3, <3>1
  <2>5. Append(Of(x, s), d) \in Seq(Int) /\ Len(Append(Of(x, s), d)) = Len(t)
      BY <1>3, <1>4, <2>1
  <2>6. ASSUME NEW i \in 1..Len(t) PROVE Of(x, t)[i] = Append(Of(x, s), d)[i]
    <3>1. Of(x, t)[i] = IF t[i].op = x THEN t[i].delta ELSE 0  BY <2>3 DEF Of
    <3>2. CASE i \in 1..Len(s)
      <4>1. Append(Of(x, s), d)[i] = Of(x, s)[i]  BY <1>3, <1>4, <3>2
      <4>2. Of(x, s)[i] = IF s[i].op = x THEN s[i].delta ELSE 0  BY <1>2, <3>2 DEF Of
      <4> QED BY <2>1, <3>1, <3>2, <4>1, <4>2
    <3>3. CASE i = Len(s) + 1
      <4>1. Append(Of(x, s), d)[i] = d  BY <1>3, <1>4, <3>3
      <4> QED BY <2>1, <3>1, <3>3, <4>1
    <3>4. i \in 1..Len(s) \/ i = Len(s) + 1  BY <1>2, <2>1
    <3> QED BY <3>2, <3>3, <3>4
  <2> HIDE DEF d, Of
  <2> QED BY <2>4, <2>5, <2>6, SeqEqual
<1> HIDE DEF d, t
<1>6. Total(Of(x, t)) = Total(Of(x, s)) + d  BY <1>3, <1>4, <1>5, TotalAppend
<1> QED BY <1>3, <1>6 DEF d, t

LEMMA MovedIs == ASSUME NEW x \in Ops, NEW a \in Accounts PROVE Moved(x, a) = Total(Of(x, ledger[a]))
BY DEF Moved, Of

LEMMA MovedType == ASSUME IInv, NEW x \in Ops, NEW a \in Accounts PROVE Moved(x, a) \in Int
<1>1. ledger[a] \in Seq(Entry)  BY DEF IInv, TypeOK
<1> DEFINE e == [op |-> x, delta |-> 0, after |-> 0]
<1>2. e \in Entry  BY DEF Entry
<1>3. Of(x, ledger[a]) \in Seq(Int)  BY <1>1, <1>2, OfAppend
<1> QED BY <1>3, MovedIs, TotalAppend

LEMMA PostMoves ==
    ASSUME IInv, NEW o \in Ops, NEW base, NEW legs, DOMAIN legs \subseteq Accounts,
           \A a \in DOMAIN legs : legs[a] \in Int /\ base[a] + legs[a] \in Int,
           Post(o, base, legs), NEW x \in Ops, NEW a \in Accounts
    PROVE  /\ Moved(x, a) \in Int
           /\ Moved(x, a)' = Moved(x, a) + (IF x = o /\ a \in DOMAIN legs THEN legs[a] ELSE 0)
<1>0. ledger[a] \in Seq(Entry) /\ Moved(x, a) \in Int  BY MovedType DEF IInv, TypeOK
<1>1. Moved(x, a) = Total(Of(x, ledger[a])) /\ Moved(x, a)' = Total(Of(x, ledger'[a]))
    BY DEF Moved, Of
<1>2. CASE a \in DOMAIN legs
  <2> DEFINE e == [op |-> o, delta |-> legs[a], after |-> base[a] + legs[a]]
  <2>1. ledger'[a] = Append(ledger[a], e)  BY <1>2 DEF Post
  <2>2. e \in Entry /\ e.op = o /\ e.delta = legs[a]  BY <1>2 DEF Entry
  <2> HIDE DEF e
  <2>3. Total(Of(x, ledger'[a])) = Total(Of(x, ledger[a])) + (IF o = x THEN legs[a] ELSE 0)
      BY <1>0, <2>1, <2>2, OfAppend
  <2>4. Moved(x, a)' = Moved(x, a) + (IF o = x THEN legs[a] ELSE 0)  BY <1>1, <2>3
  <2> HIDE DEF Moved
  <2> QED BY <1>0, <1>2, <2>4
<1>3. CASE a \notin DOMAIN legs
  <2>1. ledger'[a] = ledger[a]  BY <1>3 DEF Post
  <2> QED BY <1>0, <1>1, <1>3, <2>1
<1> QED BY <1>0, <1>2, <1>3

LEMMA LegMoves ==
    ASSUME IInv, NEW o \in Ops, NEW b \in Accounts, NEW d \in Int, Post(o, balance, Leg(b, d)),
           NEW x \in Ops, NEW a \in Accounts
    PROVE  /\ Moved(x, a) \in Int
           /\ Moved(x, a)' = Moved(x, a) + (IF x = o /\ a = b THEN d ELSE 0)
<1>1. DOMAIN Leg(b, d) = {b} /\ Leg(b, d)[b] = d  BY DEF Leg
<1>2. balance[b] \in Int  BY DEF IInv, Books, BookTypes
<1>3. DOMAIN Leg(b, d) \subseteq Accounts
      /\ \A c \in DOMAIN Leg(b, d) : Leg(b, d)[c] \in Int /\ balance[c] + Leg(b, d)[c] \in Int
    BY <1>1, <1>2
<1> HIDE DEF Leg
<1>4. /\ Moved(x, a) \in Int
      /\ Moved(x, a)' = Moved(x, a) + (IF x = o /\ a \in DOMAIN Leg(b, d) THEN Leg(b, d)[a] ELSE 0)
    BY <1>3, PostMoves
<1> QED BY <1>1, <1>4

LEMMA StillMoves == ASSUME Untouched, NEW x, NEW a PROVE Moved(x, a)' = Moved(x, a)
BY DEF Untouched, Moved

-----------------------------------------------------------------------------
(* What others do, and a deletion of somebody else, leaves a request settled. *)
LEMMA SettledFrame ==
    ASSUME IInv, NEW x \in Ops, Settled(x), users' \subseteq users,
           phase'[x] = phase[x], req'[x] = req[x], spent'[x] = spent[x], verdict'[x] = verdict[x],
           \A a \in Accounts : \/ Moved(x, a)' = Moved(x, a)
                               \/ a[1] \in Users \ users' /\ Moved(x, a)' = 0
    PROVE  Settled(x)'
<1>1. ASSUME NEW a \in Accounts, NEW k, Comes(x, a, k), a[1] \notin Users \ users' PROVE Comes(x, a, k)'
    BY <1>1 DEF Comes
<1>2. Nothing(x) => Nothing(x)'  BY DEF Nothing
<1>3. spent[x] \in Seq(Paid)  BY DEF IInv, TypeOK
<1>4. CASE phase[x] = "idle"  BY <1>2, <1>4 DEF Settled
<1>5. CASE phase[x] # "idle" /\ req[x].kind = "spend"
  <2>1. SpendSettled(x) /\ req[x] \in Requests  BY <1>5 DEF Settled
  <2>2. req[x] \in SpendRequest
      BY <1>5, <2>1, RequestAssumption DEF SpendRequest, MoveRequest
  <2>3. Pool \notin Users /\ req[x].user \in Users /\ req[x].parts \in Seq(Part)
      BY <2>2, RequestAssumption DEF SpendRequest
  <2>4. ASSUME req[x].user \in users', NEW a \in Accounts, Comes(x, a, 0) PROVE Comes(x, a, 0)'
    <3>1. CASE a[1] \notin Users \ users'  BY <1>1, <2>4, <3>1
    <3>2. CASE a[1] \in Users \ users'
      <4>1. \A i \in DOMAIN spent[x] : spent[x][i].account # a
          BY <2>1, <2>3, <2>4, <3>2 DEF SpendSettled, Payers
      <4>2. Moved(x, a)' = 0  BY <2>4, <3>2, <4>1 DEF Comes
      <4> QED BY <4>1, <4>2 DEF Comes
    <3> QED BY <3>1, <3>2
  <2>5. ASSUME req[x].user \in users', NEW f \in 1..req[x].rows,
               NEW who \in [DOMAIN req[x].parts -> Payers(x)], Partly(x, f, who)
        PROVE  Partly(x, f, who)'
    <3>1. ASSUME NEW i \in DOMAIN req[x].parts
          PROVE  /\ Comes(x, PartAccount(x, who, i), Kept(x, f, i))'
                 /\ PartAccount(x, who, i)' = PartAccount(x, who, i)
      <4> DEFINE a == PartAccount(x, who, i)
                 k == Kept(x, f, i)
      <4>1. who[i] \in Payers(x)  BY <2>5
      <4>b. req[x].parts[i] \in Part  BY <2>3
      <4>c. req[x].parts[i].currency \in Currencies  BY <4>b DEF Part
      <4>d. who[i] \in Owners /\ who[i] \notin Users \ users'
          BY <2>3, <2>5, <4>1 DEF Payers, Owners
      <4>2. a \in Accounts /\ a[1] \notin Users \ users'
          BY <4>c, <4>d DEF PartAccount, Accounts
      <4>3. a' = a /\ k' = k  BY DEF PartAccount, Kept
      <4>4. Comes(x, a, k)  BY <2>5 DEF Partly
      <4>5. PICK b \in Accounts : b = a  BY <4>2
      <4>6. PICK n : n = k  OBVIOUS
      <4>7. Comes(x, b, n)'
        <5> HIDE DEF a, k
        <5> QED BY <1>1, <4>2, <4>4, <4>5, <4>6
      <4>8. b = a' /\ n = k'  BY <4>3, <4>5, <4>6
      <4> HIDE DEF a, k
      <4>9. Comes(x, a, k)'  BY <4>7, <4>8 DEF Comes
      <4> QED BY <4>3, <4>9 DEF a, k
    <3>2. ASSUME NEW a \in Accounts, \A i \in DOMAIN req[x].parts : a # PartAccount(x, who, i)'
          PROVE  Comes(x, a, 0)'
      <4>1. \A i \in DOMAIN req[x].parts : a # PartAccount(x, who, i)  BY <3>1, <3>2
      <4> QED BY <2>4, <2>5, <4>1 DEF Partly
    <3> QED BY <3>1, <3>2 DEF Partly
  <2>6. SpendSettled(x)'
    <3>1. Payers(x)' = Payers(x) /\ PaidParts(x)' = PaidParts(x)  BY DEF Payers, PaidParts
    <3>2. req[x].user \in users' => req[x].user \in users  OBVIOUS
    <3>3. ASSUME req[x].user \in users', verdict[x] = "refused", phase[x] \in Taking \cup {"refund", "refused"}
          PROVE  \A a \in Accounts : Comes(x, a, 0)'
        BY <2>1, <2>4, <3>2, <3>3 DEF SpendSettled
    <3>4. ASSUME req[x].user \in users', verdict[x] = "failed", phase[x] \in {"refund", "failed"}
          PROVE  \E f \in 1..req[x].rows, who \in [DOMAIN req[x].parts -> Payers(x)] : Partly(x, f, who)'
        BY <2>1, <2>5, <3>2, <3>4 DEF SpendSettled
    <3> QED BY <2>1, <3>1, <3>3, <3>4 DEF SpendSettled
  <2> QED BY <1>5, <2>1, <2>6 DEF Settled
<1>6. CASE phase[x] # "idle" /\ req[x].kind \in {"move", "admin"}
  <2>1. MoveSettled(x) /\ req[x] \in Requests  BY <1>6 DEF Settled
  <2>2. req[x] \in MoveRequest
      BY <1>6, <2>1, RequestAssumption DEF SpendRequest, MoveRequest
  <2>3. Source(x)' = Source(x) /\ Target(x)' = Target(x) /\ \A a : Person(x, a)' = Person(x, a)
      BY DEF Source, Target, Person
  <2>4. ASSUME {req[x].from, req[x].to} \subseteq Owners
        PROVE  Source(x) \in Accounts /\ Target(x) \in Accounts
      BY <2>2, <2>4 DEF Source, Target, Accounts, MoveRequest
  <2>5. ASSUME {req[x].from, req[x].to} \subseteq Owners, Moved(x, Target(x)) = 0
        PROVE  Moved(x, Target(x))' = 0
    <3>1. PICK a \in Accounts : a = Target(x)  BY <2>4, <2>5
    <3>2. Moved(x, a)' = 0  BY <2>5, <3>1
    <3>3. a = Target(x)'  BY <2>3, <3>1
    <3> QED BY <3>2, <3>3 DEF Moved
  <2>6. ASSUME {req[x].from, req[x].to} \subseteq Owners, Person(x, Source(x)) \in users', Comes(x, Source(x), 0)
        PROVE  Comes(x, Source(x), 0)'
    <3>1. PICK a \in Accounts : a = Source(x)  BY <2>4, <2>6
    <3>2. a[1] \notin Users \ users'
      <4>1. a[1] = req[x].from  BY <3>1 DEF Source
      <4>2. CASE a[1] = Pool  BY <4>2, RequestAssumption
      <4>3. CASE a[1] # Pool  BY <2>6, <3>1, <4>3 DEF Person
      <4> QED BY <4>2, <4>3
    <3>3. Comes(x, a, 0)'  BY <1>1, <2>6, <3>1, <3>2
    <3>4. a = Source(x)'  BY <2>3, <3>1
    <3> QED BY <3>3, <3>4 DEF Comes, Moved
  <2>7. ASSUME {req[x].from, req[x].to} \subseteq users' \cup {Pool}, NEW k,
               NEW a \in Accounts, a[1] \in {req[x].from, req[x].to}, Moved(x, a) = k
        PROVE  Moved(x, a)' = k
    <3>1. a[1] \notin Users \ users'  BY <2>7, RequestAssumption
    <3> QED BY <2>7, <3>1
  <2>8. ASSUME {req[x].from, req[x].to} \subseteq users' \cup {Pool}, phase[x] = "done"
        PROVE  Moved(x, Source(x))' = -req[x].amount /\ Moved(x, Target(x))' = req[x].amount
    <3>1. {req[x].from, req[x].to} \subseteq Owners /\ {req[x].from, req[x].to} \subseteq users \cup {Pool}
        BY <2>8 DEF Owners, IInv, TypeOK
    <3>2. Moved(x, Source(x)) = -req[x].amount /\ Moved(x, Target(x)) = req[x].amount
        BY <2>1, <2>8, <3>1 DEF MoveSettled
    <3>3. PICK a \in Accounts : a = Source(x)  BY <2>4, <3>1
    <3>4. PICK b \in Accounts : b = Target(x)  BY <2>4, <3>1
    <3>5. a[1] = req[x].from /\ b[1] = req[x].to  BY <3>3, <3>4 DEF Source, Target
    <3>6. Moved(x, a)' = -req[x].amount /\ Moved(x, b)' = req[x].amount
        BY <2>7, <2>8, <3>2, <3>3, <3>4, <3>5
    <3>7. a = Source(x)' /\ b = Target(x)'  BY <2>3, <3>3, <3>4
    <3> QED BY <3>6, <3>7 DEF Moved
  <2>9. Person(x, Source(x))' = Person(x, Source(x))  BY DEF Person, Source
  <2>10. MoveSettled(x)'
    BY <1>2, <2>1, <2>3, <2>5, <2>6, <2>8, <2>9 DEF MoveSettled
  <2> QED BY <1>6, <2>1, <2>10 DEF Settled
<1>7. CASE phase[x] # "idle" /\ req[x].kind \notin {"spend", "move", "admin"}
  BY <1>7 DEF Settled
<1> QED BY <1>4, <1>5, <1>6, <1>7
-----------------------------------------------------------------------------
LEMMA OthersSettled ==
    ASSUME IInv, SInv, NEW o \in Ops, users' = users, Settled(o)',
           \A x \in Ops \ {o} : /\ phase'[x] = phase[x] /\ req'[x] = req[x]
                                /\ spent'[x] = spent[x] /\ verdict'[x] = verdict[x],
           \A x \in Ops \ {o}, a \in Accounts : Moved(x, a)' = Moved(x, a)
    PROVE  SInv'
<1>1. ASSUME NEW x \in Ops \ {o} PROVE Settled(x)'
  <2>1. Settled(x) /\ x \in Ops  BY DEF SInv
  <2> QED BY <2>1, SettledFrame
<1> QED BY <1>1 DEF SInv

(* What is known of a request that is under way.                             *)
LEMMA SpendIs ==
    ASSUME IInv, SInv, NEW o \in Ops,
           phase[o] \in {"charge", "classify", "pool", "reserved"} \/ (phase[o] # "idle" /\ req[o].kind = "spend")
    PROVE  /\ req[o] \in Requests /\ req[o] \in SpendRequest /\ SpendSettled(o) /\ OnePartPerCurrency(req[o].parts)
           /\ req[o].user \in Users /\ Pool \notin Users /\ req[o].parts \in Seq(Part) /\ req[o].rows \in Nat \ {0}
           /\ spent[o] \in Seq(Paid)
<1>1. phase[o] # "idle" /\ req[o] \in Requests  BY DEF SInv, Settled
<1>2. req[o].kind = "spend"  BY DEF IInv, RequestFitsPhase, Fits, SpendRequest
<1>3. req[o] \in SpendRequest  BY <1>1, <1>2, RequestAssumption DEF SpendRequest, MoveRequest
<1>4. SpendSettled(o)  BY <1>1, <1>2 DEF SInv, Settled
<1>5. OnePartPerCurrency(req[o].parts)  BY <1>1, <1>2, RequestAssumption
<1>6. spent[o] \in Seq(Paid)  BY DEF IInv, TypeOK
<1>7. Pool \notin Users  BY RequestAssumption
<1>8. req[o].user \in Users /\ req[o].parts \in Seq(Part) /\ req[o].rows \in Nat \ {0}  BY <1>3 DEF SpendRequest
<1> QED BY <1>1, <1>3, <1>4, <1>5, <1>6, <1>7, <1>8

LEMMA MoveIs ==
    ASSUME IInv, SInv, NEW o \in Ops,
           phase[o] \in {"lookup", "debit", "credit", "prepare", "prepared"} \/ (phase[o] # "idle" /\ req[o].kind # "spend")
    PROVE  /\ req[o] \in Requests /\ req[o] \in MoveRequest /\ MoveSettled(o) /\ Pool \notin Users /\ Outside \notin Owners
           /\ req[o].from # req[o].to /\ req[o].amount \in Nat \ {0} /\ req[o].currency \in Currencies
           /\ spent[o] \in Seq(Paid)
<1>1. phase[o] # "idle" /\ req[o] \in Requests  BY DEF SInv, Settled
<1>2. req[o].kind \in {"move", "admin"}
  <2>1. CASE phase[o] \in {"lookup", "debit", "credit", "prepare", "prepared"}
      BY <2>1 DEF IInv, RequestFitsPhase, Fits, MoveRequest
  <2>2. CASE phase[o] # "idle" /\ req[o].kind # "spend"
      BY <1>1, <2>2, RequestAssumption DEF SpendRequest, MoveRequest
  <2> QED BY <2>1, <2>2
<1>3. req[o] \in MoveRequest  BY <1>1, <1>2, RequestAssumption DEF SpendRequest, MoveRequest
<1>4. MoveSettled(o)  BY <1>1, <1>2 DEF SInv, Settled
<1>5. spent[o] \in Seq(Paid)  BY DEF IInv, TypeOK
<1>6. Pool \notin Users /\ Outside \notin Owners /\ req[o].from # req[o].to  BY <1>1, <1>2, RequestAssumption
<1>7. req[o].amount \in Nat \ {0} /\ req[o].currency \in Currencies  BY <1>3 DEF MoveRequest
<1> QED BY <1>1, <1>3, <1>4, <1>5, <1>6, <1>7

LEMMA TotalOfEmpty == Total(<< >>) = 0
<1>1. << >> \in Seq(Int) /\ \A i \in 1..Len(<< >>) : << >>[i] = 0  OBVIOUS
<1> QED BY <1>1, TotalOfNothing

LEMMA InitSettled == Init => SInv
<1> SUFFICES ASSUME Init, NEW o \in Ops PROVE Settled(o)  BY DEF SInv
<1>1. phase[o] = "idle" /\ spent[o] = << >> /\ verdict[o] = "refused"  BY DEF Init
<1>2. IInv  BY InitIInv
<1>3. ASSUME NEW a \in Accounts PROVE Moved(o, a) = 0
  <2>1. ledger[a] \in Seq(Entry)  BY <1>2 DEF IInv, TypeOK
  <2>2. \A i \in 1..Len(ledger[a]) : ledger[a][i].op = NoOp  BY DEF Init
  <2>3. NoOp # o  BY RequestAssumption
  <2>4. DOMAIN ledger[a] = 1..Len(ledger[a]) /\ Len(ledger[a]) \in Nat  BY <2>1
  <2> DEFINE s == Of(o, ledger[a])
  <2>5. s = [i \in 1..Len(ledger[a]) |-> 0]  BY <2>2, <2>3, <2>4 DEF Of
  <2>6. s \in Seq(Int) /\ \A i \in 1..Len(s) : s[i] = 0  BY <2>4, <2>5
  <2> HIDE DEF s
  <2> QED BY <2>6, TotalOfNothing, MovedIs DEF s
<1> QED BY <1>1, <1>3 DEF Settled, Nothing

LEMMA StartSettles ==
    ASSUME IInv, SInv, NEW o \in Ops, NEW r \in Requests, Start(o, r)  PROVE SInv'
<1>1. /\ phase[o] = "idle" /\ spent[o] = << >> /\ verdict[o] = "refused" /\ Nothing(o)
    BY DEF Start, SInv, Settled
<1>2. Untouched /\ users' = users /\ spent' = spent /\ verdict' = verdict
    /\ req'[o] = r /\ \A x \in Ops \ {o} : req'[x] = req[x] /\ phase'[x] = phase[x]
    BY DEF Start, Untouched, Goto, IInv, TypeOK
<1>3. phase'[o] \in {"charge", "lookup", "debit", "prepare"} /\ (phase'[o] = "charge" <=> r.kind = "spend")
    BY DEF Start, Goto, IInv, TypeOK
<1>4. \A x, a : Moved(x, a)' = Moved(x, a)  BY <1>2, StillMoves
<1>5. Nothing(o)'  BY <1>1, <1>4 DEF Nothing
<1>6. spent'[o] = << >> /\ verdict'[o] = "refused"  BY <1>1, <1>2
<1>7. CASE r.kind = "spend"
  <2>1. phase'[o] = "charge"  BY <1>3, <1>7
  <2>2. r \in SpendRequest  BY <1>7, RequestAssumption DEF SpendRequest, MoveRequest
  <2>3. Len(r.parts) \in Nat  BY <2>2 DEF SpendRequest
  <2>4. PaidParts(o)'  BY <1>2, <1>6, <2>3 DEF PaidParts
  <2>5. \A a \in Accounts : Comes(o, a, 0)'  BY <1>5, <1>6 DEF Comes, Nothing
  <2>6. SpendSettled(o)'  BY <1>2, <1>6, <2>1, <2>4, <2>5 DEF SpendSettled, Taking
  <2> QED BY <1>2, <1>4, <1>7, <2>1, <2>6, OthersSettled DEF Settled
<1>8. CASE r.kind # "spend"
  <2>1. phase'[o] \in {"lookup", "debit", "prepare"}  BY <1>3, <1>8
  <2>2. MoveSettled(o)'  BY <1>5, <1>6, <2>1 DEF MoveSettled, Before
  <2> QED BY <1>2, <1>4, <1>8, <2>1, <2>2, OthersSettled DEF Settled
<1> QED BY <1>7, <1>8

(* Take: the part's price has gone from the account that pays it, which no   *)
(* earlier part was taken from.                                              *)
LEMMA TakeSettles ==
    ASSUME IInv, SInv, NEW o \in Ops, phase[o] \in {"charge", "classify", "pool"}, req[o].user \in users,
           NEW a \in Accounts, a \in {Wallet(o), PoolOf(o)}, Take(o, a), UNCHANGED <<users, req, verdict>>
    PROVE  SInv'
<1> DEFINE n == Len(spent[o])
           part_n == ThisPart(o)
           e == [account |-> a, amount |-> ThisPart(o).amount]
<1>1. /\ req[o] \in Requests /\ req[o] \in SpendRequest /\ SpendSettled(o) /\ OnePartPerCurrency(req[o].parts)
      /\ req[o].user \in Users /\ Pool \notin Users /\ req[o].parts \in Seq(Part) /\ spent[o] \in Seq(Paid)
    BY SpendIs
<1>2. n < Len(req[o].parts) /\ n \in Nat /\ Len(req[o].parts) \in Nat
    BY <1>1 DEF IInv, RequestFitsPhase, Fits
<1>3. part_n \in Part /\ part_n = req[o].parts[n + 1]  BY ThisPartType DEF ThisPart
<1>4. part_n.amount \in Nat \ {0} /\ -part_n.amount \in Int /\ e.account = a /\ e.amount = part_n.amount /\ e \in Paid
    BY <1>3 DEF Part, Paid
<1>5. a[1] \in Payers(o) /\ a[2] = part_n.currency  BY DEF Wallet, PoolOf, Payers
<1>6. /\ Post(o, balance, Leg(a, -part_n.amount)) /\ spent'[o] = Append(spent[o], e)
      /\ phase'[o] = IF n + 1 = Len(req[o].parts) THEN "reserved" ELSE "charge"
      /\ \A x \in Ops \ {o} : phase'[x] = phase[x] /\ spent'[x] = spent[x]
    BY DEF Take, Goto, IInv, TypeOK
<1>7. verdict[o] = "refused" /\ PaidParts(o) /\ \A b \in Accounts : Comes(o, b, 0)
    BY <1>1 DEF SpendSettled, Taking, IInv, TypeOK
<1> HIDE DEF e, part_n
<1>8. \A x \in Ops, b \in Accounts : /\ Moved(x, b) \in Int
                                     /\ Moved(x, b)' = Moved(x, b) + (IF x = o /\ b = a THEN -part_n.amount ELSE 0)
    BY <1>4, <1>6, LegMoves
<1>9. /\ Len(spent'[o]) = n + 1 /\ spent'[o][n + 1] = e /\ \A i \in 1..n : spent'[o][i] = spent[o][i]
      /\ DOMAIN spent'[o] = 1..(n + 1) /\ DOMAIN spent[o] = 1..n
    BY <1>1, <1>4, <1>6
<1>10. ASSUME NEW i \in 1..n PROVE spent[o][i].account # a
  <2>1. spent[o][i].account[2] = req[o].parts[i].currency  BY <1>7, <1>9 DEF PaidParts
  <2>2. i \in DOMAIN req[o].parts /\ n + 1 \in DOMAIN req[o].parts /\ i # n + 1  BY <1>1, <1>2
  <2>3. req[o].parts[i].currency # part_n.currency  BY <1>1, <1>3, <2>2 DEF OnePartPerCurrency
  <2> QED BY <1>5, <2>1, <2>3
<1>11. ASSUME NEW b \in Accounts PROVE Comes(o, b, 0)'
  <2>1. Comes(o, b, 0)  BY <1>7
  <2>2. CASE b = a
    <3>1. Moved(o, a) = 0  BY <1>9, <1>10, <2>1, <2>2 DEF Comes
    <3>2. Moved(o, a)' = -part_n.amount  BY <1>4, <1>8, <3>1
    <3>3. \A i \in DOMAIN spent'[o] : spent'[o][i].account = a => i = n + 1
        BY <1>2, <1>9, <1>10
    <3>4. n + 1 \in DOMAIN spent'[o] /\ spent'[o][n + 1].account = a /\ spent'[o][n + 1].amount = part_n.amount
        BY <1>2, <1>4, <1>9
    <3>5. -part_n.amount + part_n.amount = 0  BY <1>4
    <3> QED BY <2>2, <3>2, <3>3, <3>4, <3>5 DEF Comes
  <2>3. CASE b # a
    <3>1. Moved(o, b)' = Moved(o, b)  BY <1>8, <2>3
    <3>2. \A i \in DOMAIN spent'[o] : spent'[o][i].account = b => i \in 1..n /\ spent'[o][i] = spent[o][i]
        BY <1>2, <1>4, <1>9, <2>3
    <3>3. \A i \in 1..n : i \in DOMAIN spent'[o] /\ spent'[o][i] = spent[o][i]  BY <1>2, <1>9
    <3> QED BY <1>9, <2>1, <3>1, <3>2, <3>3 DEF Comes
  <2> QED BY <2>2, <2>3
<1>12. PaidParts(o)'
  <2>1. ASSUME NEW i \in DOMAIN spent'[o]
        PROVE  spent'[o][i].account[2] = req[o].parts[i].currency /\ spent'[o][i].amount = req[o].parts[i].amount
    <3>1. CASE i = n + 1  BY <1>3, <1>4, <1>5, <1>9, <3>1
    <3>2. CASE i \in 1..n  BY <1>7, <1>9, <3>2 DEF PaidParts
    <3> QED BY <1>2, <1>9, <3>1, <3>2
  <2>2. Len(spent'[o]) <= Len(req[o].parts)  BY <1>2, <1>9
  <2> QED BY <2>1, <2>2 DEF PaidParts
<1>13. \A i \in DOMAIN spent'[o] : spent'[o][i].account[1] \in Payers(o)'
  <2>1. Payers(o)' = Payers(o)  BY DEF Payers
  <2>2. \A i \in 1..n : spent[o][i].account[1] \in Payers(o)  BY <1>1, <1>9 DEF SpendSettled
  <2> QED BY <1>2, <1>4, <1>5, <1>9, <2>1, <2>2
<1>14. \A i, j \in DOMAIN spent'[o] : spent'[o][i].account = spent'[o][j].account => i = j
  <2>1. \A i, j \in 1..n : spent[o][i].account = spent[o][j].account => i = j  BY <1>1, <1>9 DEF SpendSettled
  <2>2. ASSUME NEW i \in 1..(n + 1), NEW j \in 1..(n + 1), spent'[o][i].account = spent'[o][j].account PROVE i = j
    <3>1. CASE i \in 1..n /\ j \in 1..n  BY <1>9, <2>1, <2>2, <3>1
    <3>2. CASE i \in 1..n /\ j = n + 1  BY <1>4, <1>9, <1>10, <2>2, <3>2
    <3>3. CASE i = n + 1 /\ j \in 1..n  BY <1>4, <1>9, <1>10, <2>2, <3>3
    <3>4. CASE i = n + 1 /\ j = n + 1  BY <3>4
    <3> QED BY <1>2, <3>1, <3>2, <3>3, <3>4
  <2> QED BY <1>9, <2>2
<1>15. SpendSettled(o)'
  <2>1. phase'[o] \in {"reserved", "charge"} /\ (phase'[o] = "reserved" => Len(spent'[o]) = Len(req[o].parts))
      BY <1>6, <1>9
  <2>2. verdict'[o] = "refused" /\ req'[o] = req[o]  BY <1>7
  <2> QED BY <1>11, <1>12, <1>13, <1>14, <2>1, <2>2 DEF SpendSettled, Taking
<1>16. phase'[o] # "idle" /\ req'[o] = req[o] /\ req[o].kind = "spend"  BY <1>1, <1>6 DEF SpendRequest
<1>17. Settled(o)'  BY <1>1, <1>15, <1>16 DEF Settled
<1>18. \A x \in Ops \ {o}, b \in Accounts : Moved(x, b)' = Moved(x, b)
  <2>1. ASSUME NEW x \in Ops \ {o}, NEW b \in Accounts PROVE Moved(x, b)' = Moved(x, b)
      BY <1>8
  <2> QED BY <2>1
<1> QED BY <1>6, <1>17, <1>18, OthersSettled
LEMMA QuietComes ==
    ASSUME Untouched, NEW o \in Ops, spent'[o] = spent[o]
    PROVE  /\ \A a, k : Comes(o, a, k) => Comes(o, a, k)'
           /\ \A a : Moved(o, a)' = Moved(o, a)
           /\ Nothing(o) => Nothing(o)'
<1>1. \A a : Moved(o, a)' = Moved(o, a)  BY StillMoves
<1> QED BY <1>1 DEF Comes, Nothing

LEMMA PartlyKeeps ==
    ASSUME NEW o \in Ops, req'[o] = req[o], req[o].user \in Users, req[o].parts \in Seq(Part),
           \A a \in Accounts : \A k : Comes(o, a, k) => Comes(o, a, k)',
           NEW f, NEW who \in [DOMAIN req[o].parts -> Payers(o)], Partly(o, f, who)
    PROVE  Partly(o, f, who)'
<1>1. ASSUME NEW i \in DOMAIN req[o].parts
      PROVE  /\ Comes(o, PartAccount(o, who, i), Kept(o, f, i))'
             /\ PartAccount(o, who, i)' = PartAccount(o, who, i)
  <2> DEFINE a == PartAccount(o, who, i)
             k == Kept(o, f, i)
  <2>1. who[i] \in Owners  BY DEF Payers, Owners
  <2>2. req[o].parts[i].currency \in Currencies
    <3>1. req[o].parts[i] \in Part  OBVIOUS
    <3> QED BY <3>1 DEF Part
  <2>3. a \in Accounts  BY <2>1, <2>2 DEF PartAccount, Accounts
  <2>4. a' = a /\ k' = k  BY DEF PartAccount, Kept
  <2>5. Comes(o, a, k)  BY DEF Partly
  <2>6. PICK b \in Accounts : b = a  BY <2>3
  <2>7. PICK n : n = k  OBVIOUS
  <2>8. Comes(o, b, n)'
    <3> HIDE DEF a, k
    <3> QED BY <2>5, <2>6, <2>7
  <2>9. b = a' /\ n = k'  BY <2>4, <2>6, <2>7
  <2> HIDE DEF a, k
  <2>10. Comes(o, a, k)'  BY <2>8, <2>9 DEF Comes
  <2> QED BY <2>4, <2>10 DEF a, k
<1>2. ASSUME NEW a \in Accounts, \A i \in DOMAIN req[o].parts : a # PartAccount(o, who, i)'
      PROVE  Comes(o, a, 0)'
  <2>1. \A i \in DOMAIN req[o].parts : a # PartAccount(o, who, i)  BY <1>1, <1>2
  <2> QED BY <2>1 DEF Partly
<1> QED BY <1>1, <1>2 DEF Partly

(* A spend goes on without a batch: what it has taken stands.                *)
LEMMA QuietSpendSettles ==
    ASSUME IInv, SInv, NEW o \in Ops, phase[o] # "idle", req[o].kind = "spend", NEW p, Goto(o, p), Untouched,
           UNCHANGED <<users, req, spent>>, verdict'[o] = verdict[o],
           \A x \in Ops \ {o} : verdict'[x] = verdict[x],
           \/ p \in {"threw"} /\ verdict[o] = "refused"
           \/ p = "crashed"
           \/ p \in {"classify", "pool", "refund"} /\ verdict[o] = "refused" /\ phase[o] \in {"charge", "classify", "pool"}
           \/ p = "done" /\ phase[o] = "reserved"
           \/ p = verdict[o] /\ phase[o] = "refund" /\ spent[o] = << >>
    PROVE  SInv'
<1>1. /\ req[o] \in Requests /\ SpendSettled(o) /\ OnePartPerCurrency(req[o].parts)
      /\ req[o].user \in Users /\ req[o].parts \in Seq(Part) /\ spent[o] \in Seq(Paid)
    BY SpendIs
<1>2. phase'[o] = p /\ \A x \in Ops \ {o} : phase'[x] = phase[x]  BY DEF Goto, IInv, TypeOK
<1>3. \A a, k : Comes(o, a, k) => Comes(o, a, k)'  BY QuietComes
<1>4. \A x, a : Moved(x, a)' = Moved(x, a)  BY StillMoves
<1>5. verdict[o] \in {"refused", "failed"}  BY DEF IInv, TypeOK
<1>6. Payers(o)' = Payers(o) /\ (PaidParts(o) => PaidParts(o)')  BY DEF Payers, PaidParts
<1>8. SpendSettled(o)'
  <2>1. phase'[o] \in Taking => phase[o] \in Taking  BY <1>2, <1>5 DEF Taking
  <2>2. phase'[o] \in {"reserved", "done"} => phase[o] = "reserved"  BY <1>2, <1>5
  <2>3. phase'[o] \in {"refused", "failed"} => spent'[o] = << >> /\ verdict'[o] = phase'[o]  BY <1>2
  <2>4. verdict'[o] = "failed" => phase'[o] \in {"refund", "failed", "crashed"}
      BY <1>1, <1>2 DEF SpendSettled
  <2>5. phase'[o] \in Taking \cup {"refund", "refused", "failed", "threw", "crashed"}
      BY <1>2, <1>5 DEF Taking
  <2>6. ASSUME req[o].user \in users, verdict[o] = "refused", phase'[o] \in Taking \cup {"refund", "refused"}
        PROVE  \A a \in Accounts : Comes(o, a, 0)'
    <3>1. phase[o] \in Taking \cup {"refund", "refused"}  BY <1>2, <2>6 DEF Taking
    <3>2. \A a \in Accounts : Comes(o, a, 0)  BY <1>1, <2>6, <3>1 DEF SpendSettled
    <3> QED BY <1>3, <3>2
  <2>7. ASSUME req[o].user \in users, verdict[o] = "failed", phase'[o] \in {"refund", "failed"}
        PROVE  \E f \in 1..req[o].rows, who \in [DOMAIN req[o].parts -> Payers(o)] : Partly(o, f, who)'
    <3>1. phase[o] \in {"refund", "failed"}  BY <1>1, <1>2, <2>7 DEF SpendSettled
    <3>2. PICK f \in 1..req[o].rows, who \in [DOMAIN req[o].parts -> Payers(o)] : Partly(o, f, who)
        BY <1>1, <2>7, <3>1 DEF SpendSettled
    <3>3. Partly(o, f, who)'  BY <1>1, <1>3, <3>2, PartlyKeeps
    <3> QED BY <3>3
  <2> QED BY <1>1, <1>6, <2>1, <2>2, <2>3, <2>4, <2>5, <2>6, <2>7 DEF SpendSettled
<1>9. p # "idle"  BY <1>5
<1>10. Settled(o)'  BY <1>1, <1>2, <1>8, <1>9 DEF Settled
<1> QED BY <1>2, <1>4, <1>10, OthersSettled

LEMMA ChargeUserSettles == ASSUME IInv, SInv, NEW o \in Ops, ChargeUser(o) PROVE SInv'
<1>1. phase[o] = "charge" /\ UNCHANGED <<users, req, verdict>>  BY DEF ChargeUser
<1>2. req[o].kind = "spend" /\ verdict[o] = "refused"
    BY <1>1, SpendIs DEF SpendRequest, SpendSettled, IInv, TypeOK
<1>3. CASE req[o].user \in users /\ Covers(Wallet(o), ThisPart(o).amount)
  <2>1. Wallet(o) \in Accounts /\ Take(o, Wallet(o))  BY <1>1, <1>3, ThisPartType DEF ChargeUser
  <2> QED BY <1>1, <1>3, <2>1, TakeSettles
<1>4. CASE ~(req[o].user \in users /\ Covers(Wallet(o), ThisPart(o).amount))
  <2>1. Goto(o, "classify") /\ Untouched /\ UNCHANGED <<users, req, spent, verdict>>  BY <1>4 DEF ChargeUser
  <2> QED BY <1>1, <1>2, <2>1, QuietSpendSettles
<1> QED BY <1>3, <1>4

LEMMA RefuseSettles ==
    ASSUME IInv, SInv, NEW o \in Ops, phase[o] \in {"classify", "pool"}, Refuse(o), Untouched, UNCHANGED <<users, req, spent>>
    PROVE  SInv'
<1>1. req[o].kind = "spend" /\ verdict[o] = "refused"
    BY SpendIs DEF SpendRequest, SpendSettled, IInv, TypeOK
<1>2. Goto(o, "refund") /\ verdict'[o] = verdict[o] /\ \A x \in Ops \ {o} : verdict'[x] = verdict[x]
    BY <1>1 DEF Refuse, IInv, TypeOK
<1> QED BY <1>1, <1>2, QuietSpendSettles

LEMMA ClassifySettles == ASSUME IInv, SInv, NEW o \in Ops, Classify(o) PROVE SInv'
<1>1. phase[o] = "classify" /\ Untouched /\ UNCHANGED <<users, req, spent>>  BY DEF Classify, Untouched
<1>2. req[o].kind = "spend" /\ verdict[o] = "refused"
    BY <1>1, SpendIs DEF SpendRequest, SpendSettled, IInv, TypeOK
<1>3. CASE Goto(o, "pool") /\ UNCHANGED verdict  BY <1>1, <1>2, <1>3, QuietSpendSettles
<1>4. CASE Refuse(o)  BY <1>1, <1>4, RefuseSettles
<1> QED BY <1>3, <1>4 DEF Classify

LEMMA ChargePoolSettles == ASSUME IInv, SInv, NEW o \in Ops, ChargePool(o) PROVE SInv'
<1>1. phase[o] = "pool" /\ UNCHANGED <<users, req, snap>>  BY DEF ChargePool
<1>2. req[o].kind = "spend" /\ verdict[o] = "refused"
    BY <1>1, SpendIs DEF SpendRequest, SpendSettled, IInv, TypeOK
<1>3. CASE req[o].user \in users /\ Take(o, PoolOf(o)) /\ UNCHANGED verdict
    BY <1>1, <1>3, ThisPartType, TakeSettles
<1>4. CASE Goto(o, "threw") /\ Untouched /\ UNCHANGED <<spent, verdict>>
    BY <1>1, <1>2, <1>4, QuietSpendSettles
<1>5. CASE Refuse(o) /\ Untouched /\ UNCHANGED spent  BY <1>1, <1>5, RefuseSettles
<1> QED BY <1>3, <1>4, <1>5 DEF ChargePool

LEMMA WriteRowsSettles == ASSUME IInv, SInv, NEW o \in Ops, WriteRows(o) PROVE SInv'
<1>1. phase[o] = "reserved" /\ Untouched /\ UNCHANGED <<users, req>>  BY DEF WriteRows, Untouched
<1>2. /\ req[o] \in Requests /\ req[o] \in SpendRequest /\ SpendSettled(o) /\ OnePartPerCurrency(req[o].parts)
      /\ req[o].user \in Users /\ req[o].parts \in Seq(Part) /\ spent[o] \in Seq(Paid) /\ req[o].rows \in Nat \ {0}
    BY <1>1, SpendIs
<1>3. req[o].kind = "spend" /\ verdict[o] = "refused"
    BY <1>1, <1>2 DEF SpendRequest, SpendSettled, IInv, TypeOK
<1>4. CASE Goto(o, "done") /\ UNCHANGED <<spent, verdict>>
    BY <1>1, <1>3, <1>4, QuietSpendSettles
<1>5. ASSUME NEW f \in 1..req[o].rows, spent' = [spent EXCEPT ![o] = Portion(spent[o], f, req[o].rows)],
             verdict' = [verdict EXCEPT ![o] = "failed"], Goto(o, "refund")
      PROVE  SInv'
  <2> DEFINE n == Len(req[o].parts)
             who == [i \in DOMAIN req[o].parts |-> spent[o][i].account[1]]
  <2>1. /\ phase'[o] = "refund" /\ verdict'[o] = "failed" /\ spent'[o] = Portion(spent[o], f, req[o].rows)
        /\ \A x \in Ops \ {o} : phase'[x] = phase[x] /\ spent'[x] = spent[x] /\ verdict'[x] = verdict[x]
      BY <1>5 DEF Goto, IInv, TypeOK
  <2>2. n \in Nat /\ Len(spent[o]) = n /\ DOMAIN spent[o] = 1..n /\ DOMAIN req[o].parts = 1..n /\ PaidParts(o)
      BY <1>1, <1>2 DEF SpendSettled, Taking
  <2>3. /\ DOMAIN spent'[o] = 1..n
        /\ \A i \in 1..n : /\ spent'[o][i].account = spent[o][i].account
                           /\ spent'[o][i].amount = RefundShare(spent[o][i].amount, f, req[o].rows)
      BY <2>1, <2>2 DEF Portion
  <2>4. \A x, a : Moved(x, a)' = Moved(x, a)  BY <1>1, StillMoves
  <2>5. PICK pay \in [DOMAIN req[o].parts -> Payers(o)] : pay = who
      BY <1>2, <2>2 DEF SpendSettled
  <2>6. ASSUME NEW i \in 1..n
        PROVE  /\ PartAccount(o, pay, i) = spent[o][i].account /\ PartAccount(o, pay, i)' = spent[o][i].account
               /\ spent[o][i].account \in Accounts
               /\ spent[o][i].amount = req[o].parts[i].amount /\ spent[o][i].amount \in Nat
    <3>1. spent[o][i] \in Paid  BY <1>2, <2>2
    <3>2. spent[o][i].account \in Accounts /\ spent[o][i].amount \in Nat  BY <3>1 DEF Paid
    <3>3. spent[o][i].account[2] = req[o].parts[i].currency /\ spent[o][i].amount = req[o].parts[i].amount
        BY <2>2 DEF PaidParts
    <3>4. PICK b : b = spent[o][i].account  OBVIOUS
    <3>5. b = <<b[1], b[2]>>  BY <3>2, <3>4 DEF Accounts
    <3>6. pay[i] = b[1] /\ b[2] = req[o].parts[i].currency  BY <2>2, <2>5, <3>3, <3>4
    <3>7. PartAccount(o, pay, i) = b  BY <3>5, <3>6 DEF PartAccount
    <3>8. PartAccount(o, pay, i)' = PartAccount(o, pay, i)  BY <1>1 DEF PartAccount
    <3> QED BY <3>2, <3>3, <3>4, <3>7, <3>8
  <2>7. ASSUME req[o].user \in users PROVE Partly(o, f, pay)'
    <3> HIDE DEF who
    <3>1. \A a \in Accounts : Comes(o, a, 0)  BY <1>1, <1>2, <1>3, <2>7 DEF SpendSettled, Taking
    <3>2. ASSUME NEW i \in 1..n PROVE Comes(o, PartAccount(o, pay, i), Kept(o, f, i))'
      <4>1. PICK a \in Accounts : a = spent[o][i].account  BY <2>6
      <4>2. PICK m \in Nat : m = spent[o][i].amount  BY <2>6
      <4>3. Moved(o, a) + m = 0  BY <2>2, <3>1, <4>1, <4>2 DEF Comes
      <4>4. Moved(o, a) \in Int  BY MovedType
      <4>5. RefundShare(m, f, req[o].rows) \in Nat
        <5>1. f \in Nat  BY <1>2
        <5> QED BY <1>2, <5>1, RefundShareType
      <4>6. PICK s \in Nat : s = RefundShare(m, f, req[o].rows)  BY <4>5
      <4>7. Kept(o, f, i)' = s - m  BY <1>1, <2>6, <4>2, <4>6 DEF Kept
      <4>8. Moved(o, a)' + s = s - m  BY <2>4, <4>3, <4>4, <4>6
      <4>9. \A j \in DOMAIN spent'[o] : spent'[o][j].account = a => spent'[o][j].amount = s
        <5>1. ASSUME NEW j \in 1..n, spent'[o][j].account = a PROVE spent'[o][j].amount = s
          <6>1. spent[o][j].account = spent[o][i].account  BY <2>3, <4>1, <5>1
          <6>2. j = i  BY <1>2, <2>2, <6>1 DEF SpendSettled
          <6> QED BY <2>3, <4>2, <4>6, <6>2
        <5> QED BY <2>3, <5>1
      <4>10. \E j \in DOMAIN spent'[o] : spent'[o][j].account = a  BY <2>3, <4>1
      <4>11. Comes(o, a, s - m)'  BY <4>8, <4>9, <4>10 DEF Comes
      <4>12. PartAccount(o, pay, i)' = a  BY <2>6, <4>1
      <4> QED BY <4>7, <4>11, <4>12 DEF Comes
    <3>3. ASSUME NEW a \in Accounts, \A i \in 1..n : a # PartAccount(o, pay, i)' PROVE Comes(o, a, 0)'
      <4>1. \A i \in 1..n : spent[o][i].account # a  BY <2>6, <3>3
      <4>2. Moved(o, a)' = 0  BY <2>2, <2>4, <3>1, <4>1 DEF Comes
      <4>3. \A i \in DOMAIN spent'[o] : spent'[o][i].account # a  BY <2>3, <4>1
      <4> QED BY <4>2, <4>3 DEF Comes
    <3>4. DOMAIN req'[o].parts = 1..n  BY <1>1, <2>2
    <3>5. Partly(o, f, pay)'  BY <3>2, <3>3, <3>4 DEF Partly
    <3> QED BY <3>5
  <2> HIDE DEF who, n
  <2>8. SpendSettled(o)'
    <3>1. Payers(o)' = Payers(o)  BY <1>1 DEF Payers
    <3>2. \A i \in DOMAIN spent'[o] : spent'[o][i].account[1] \in Payers(o)  BY <1>2, <2>2, <2>3 DEF SpendSettled
    <3>3. \A i, j \in DOMAIN spent'[o] : spent'[o][i].account = spent'[o][j].account => i = j
        BY <1>2, <2>2, <2>3 DEF SpendSettled
    <3> QED BY <1>1, <2>1, <2>7, <3>1, <3>2, <3>3 DEF SpendSettled, Taking
  <2>9. Settled(o)'  BY <1>1, <1>2, <1>3, <2>1, <2>8 DEF Settled
  <2> QED BY <1>1, <2>1, <2>4, <2>9, OthersSettled
<1> QED BY <1>4, <1>5 DEF WriteRows

-----------------------------------------------------------------------------
(* Giving back the first of what is still to be returned, to somebody who    *)
(* exists, changes nothing of what the request comes to.                     *)
LEMMA RefundComes ==
    ASSUME IInv, NEW o \in Ops, Refund(o), Person(o, Head(spent[o]).account) \in users,
           \A i, j \in DOMAIN spent[o] : spent[o][i].account = spent[o][j].account => i = j
    PROVE  \A a \in Accounts : \A k : Comes(o, a, k) => Comes(o, a, k)'
<1> DEFINE s == spent[o]
           n == Len(s)
           h == s[1]
           t == Tail(s)
<1>1. s \in Seq(Paid) /\ s # << >> /\ spent'[o] = t  BY DEF Refund, IInv, TypeOK
<1>2. n \in Nat /\ n >= 1 /\ Head(s) = h /\ h \in Paid /\ DOMAIN s = 1..n  BY <1>1
<1>3. DOMAIN t = 1..(n - 1) /\ \A i \in 1..(n - 1) : t[i] = s[i + 1]  BY <1>1
<1>4. h.account \in Accounts /\ h.amount \in Nat  BY <1>2 DEF Paid
<1>5. IF h.amount > 0 THEN Post(o, balance, Leg(h.account, h.amount)) ELSE Untouched
    BY <1>2 DEF Refund
<1> HIDE DEF h, t
<1>6. ASSUME NEW a \in Accounts
      PROVE  Moved(o, a) \in Int /\ Moved(o, a)' = Moved(o, a) + (IF a = h.account THEN h.amount ELSE 0)
  <2>1. CASE h.amount > 0  BY <1>4, <1>5, <2>1, LegMoves
  <2>2. CASE h.amount = 0
    <3>1. Moved(o, a)' = Moved(o, a)  BY <1>5, <2>2, StillMoves
    <3> QED BY <2>2, <3>1, MovedType
  <2> QED BY <1>4, <2>1, <2>2
<1>7. ASSUME NEW a \in Accounts, NEW k, Comes(o, a, k) PROVE Comes(o, a, k)'
  <2>1. CASE a = h.account
    <3>1. Moved(o, a) + h.amount = k  BY <1>2, <1>7, <2>1 DEF Comes, h
    <3>2. Moved(o, a)' = k  BY <1>6, <2>1, <3>1
    <3>3. ASSUME NEW i \in 1..(n - 1) PROVE t[i].account # a
      <4>1. i + 1 \in 1..n /\ 1 \in 1..n /\ i + 1 # 1  BY <1>2
      <4>2. s[i + 1].account # s[1].account  BY <1>2, <4>1
      <4> QED BY <1>3, <2>1, <4>2 DEF h
    <3> QED BY <1>1, <1>3, <3>2, <3>3 DEF Comes
  <2>2. CASE a # h.account
    <3>1. Moved(o, a)' = Moved(o, a)  BY <1>6, <2>2
    <3>2. ASSUME \A i \in 1..(n - 1) : t[i].account # a PROVE Moved(o, a)' = k
      <4>1. ASSUME NEW i \in 1..n PROVE s[i].account # a
        <5>1. CASE i = 1  BY <2>2, <5>1 DEF h
        <5>2. CASE i # 1
          <6>1. i - 1 \in 1..(n - 1) /\ (i - 1) + 1 = i  BY <1>2, <5>2
          <6> QED BY <1>3, <3>2, <6>1
        <5> QED BY <5>1, <5>2
      <4> QED BY <1>2, <1>7, <3>1, <4>1 DEF Comes
    <3>3. ASSUME NEW i \in 1..(n - 1), t[i].account = a PROVE Moved(o, a)' + t[i].amount = k
      <4>1. i + 1 \in 1..n  BY <1>2
      <4> QED BY <1>2, <1>3, <1>7, <3>1, <3>3, <4>1 DEF Comes
    <3> QED BY <1>1, <1>3, <3>2, <3>3 DEF Comes
  <2> QED BY <2>1, <2>2
<1> QED BY <1>7

LEMMA RefundSettles == ASSUME IInv, SInv, NEW o \in Ops, Refund(o) PROVE SInv'
<1> DEFINE h == Head(spent[o])
<1>1. /\ phase[o] = "refund" /\ spent[o] # << >> /\ UNCHANGED <<users, phase, req, verdict>>
      /\ spent'[o] = Tail(spent[o]) /\ \A x \in Ops \ {o} : spent'[x] = spent[x]
    BY DEF Refund, IInv, TypeOK
<1>2. spent[o] \in Seq(Paid)  BY DEF IInv, TypeOK
<1>3. h = spent[o][1] /\ h \in Paid /\ 1 \in DOMAIN spent[o]  BY <1>1, <1>2
<1>4. h.account \in Accounts /\ h.amount \in Nat  BY <1>3 DEF Paid
<1>5. \/ Untouched
      \/ h.amount > 0 /\ Post(o, balance, Leg(h.account, h.amount))
    BY DEF Refund
<1> HIDE DEF h
<1>6. ASSUME NEW x \in Ops, NEW a \in Accounts, x # o \/ a # h.account PROVE Moved(x, a)' = Moved(x, a)
  <2>1. CASE Untouched  BY <2>1, StillMoves
  <2>2. CASE Post(o, balance, Leg(h.account, h.amount))
    <3>1. Moved(x, a) \in Int /\ Moved(x, a)' = Moved(x, a) + 0  BY <1>4, <1>6, <2>2, LegMoves
    <3> QED BY <3>1
  <2> QED BY <1>5, <2>1, <2>2
<1>7. \A x \in Ops \ {o}, a \in Accounts : Moved(x, a)' = Moved(x, a)  BY <1>6
<1>8. /\ \A i \in DOMAIN spent'[o] : i + 1 \in DOMAIN spent[o] /\ spent'[o][i] = spent[o][i + 1]
      /\ \A i, j \in DOMAIN spent'[o] : i + 1 = j + 1 => i = j
  <2>1. DOMAIN Tail(spent[o]) = 1..(Len(spent[o]) - 1) /\ Len(spent[o]) \in Nat  BY <1>1, <1>2
  <2>2. \A i \in 1..(Len(spent[o]) - 1) : Tail(spent[o])[i] = spent[o][i + 1] /\ i + 1 \in DOMAIN spent[o]
      BY <1>1, <1>2
  <2> QED BY <1>1, <2>1, <2>2
<1>9. CASE req[o].kind = "spend"
  <2>1. /\ req[o] \in Requests /\ SpendSettled(o) /\ req[o].user \in Users /\ Pool \notin Users
        /\ req[o].parts \in Seq(Part)
    BY <1>1, <1>9, SpendIs
  <2>2. \A i, j \in DOMAIN spent[o] : spent[o][i].account = spent[o][j].account => i = j
      BY <2>1 DEF SpendSettled
  <2>3. ASSUME req[o].user \in users
        PROVE  \A a \in Accounts : \A k : Comes(o, a, k) => Comes(o, a, k)'
    <3>1. h.account[1] \in Payers(o)  BY <1>3, <2>1 DEF SpendSettled
    <3>2. Person(o, h.account) = req[o].user  BY <1>9, <3>1 DEF Person, Payers
    <3> QED BY <2>2, <2>3, <3>2, RefundComes DEF h
  <2>4. /\ \A i \in DOMAIN spent'[o] : spent'[o][i].account[1] \in Payers(o)'
        /\ \A i, j \in DOMAIN spent'[o] : spent'[o][i].account = spent'[o][j].account => i = j
    <3>1. Payers(o)' = Payers(o)  BY <1>1 DEF Payers
    <3>2. \A i \in DOMAIN spent[o] : spent[o][i].account[1] \in Payers(o)  BY <2>1 DEF SpendSettled
    <3> QED BY <1>8, <2>2, <3>1, <3>2
  <2>5. ASSUME req[o].user \in users, verdict[o] = "refused" PROVE \A a \in Accounts : Comes(o, a, 0)'
    <3>1. \A a \in Accounts : Comes(o, a, 0)  BY <1>1, <2>1, <2>5 DEF SpendSettled
    <3> QED BY <2>3, <2>5, <3>1
  <2>6. ASSUME req[o].user \in users, verdict[o] = "failed"
        PROVE  \E f \in 1..req[o].rows, who \in [DOMAIN req[o].parts -> Payers(o)] : Partly(o, f, who)'
    <3>1. PICK f \in 1..req[o].rows, who \in [DOMAIN req[o].parts -> Payers(o)] : Partly(o, f, who)
        BY <1>1, <2>1, <2>6 DEF SpendSettled
    <3>2. Partly(o, f, who)'  BY <1>1, <2>1, <2>3, <2>6, <3>1, PartlyKeeps
    <3> QED BY <3>2
  <2>7. Payers(o)' = Payers(o)  BY <1>1 DEF Payers
  <2>8. SpendSettled(o)'  BY <1>1, <2>4, <2>5, <2>6, <2>7 DEF SpendSettled, Taking
  <2>9. Settled(o)'  BY <1>1, <1>9, <2>1, <2>8 DEF Settled
  <2> QED BY <1>1, <1>7, <2>9, OthersSettled
<1>10. CASE req[o].kind # "spend"
  <2>1. /\ req[o] \in Requests /\ req[o] \in MoveRequest /\ MoveSettled(o) /\ req[o].from # req[o].to
        /\ {req[o].from, req[o].to} \subseteq Owners
    BY <1>1, <1>10, MoveIs DEF MoveSettled
  <2>2. Source(o) \in Accounts /\ Target(o) \in Accounts /\ Source(o) # Target(o)
    BY <2>1 DEF Source, Target, Accounts, MoveRequest
  <2>3. spent[o] = <<[account |-> Source(o), amount |-> req[o].amount]>>
    BY <1>1, <2>1 DEF MoveSettled
  <2>4. h.account = Source(o) /\ spent'[o] = << >> /\ Len(spent[o]) = 1  BY <1>1, <1>3, <2>3
  <2>5. Source(o)' = Source(o) /\ Target(o)' = Target(o) /\ Person(o, Source(o))' = Person(o, Source(o))
      BY <1>1 DEF Source, Target, Person
  <2>6. PICK a \in Accounts : a = Source(o)  BY <2>2
  <2>7. PICK b \in Accounts : b = Target(o)  BY <2>2
  <2>8. Moved(o, b)' = 0
    <3>1. Moved(o, b)' = Moved(o, b)  BY <1>6, <2>2, <2>4, <2>7
    <3>2. Moved(o, b) = 0  BY <1>1, <2>1, <2>7 DEF MoveSettled
    <3> QED BY <3>1, <3>2
  <2>9. ASSUME Person(o, Source(o)) \in users PROVE Comes(o, a, 0)'
    <3>1. Comes(o, a, 0)  BY <1>1, <2>1, <2>6, <2>9 DEF MoveSettled
    <3>2. DOMAIN spent[o] = 1..1  BY <1>2, <2>4
    <3>3. \A i, j \in DOMAIN spent[o] : i = j  BY <3>2
    <3>4. Person(o, Head(spent[o]).account) \in users  BY <2>4, <2>9 DEF h
    <3> QED BY <3>1, <3>3, <3>4, RefundComes
  <2>10. /\ Moved(o, Target(o))' = 0
         /\ Person(o, Source(o))' \in users' => Comes(o, Source(o), 0)'
    BY <1>1, <2>5, <2>6, <2>7, <2>8, <2>9 DEF Comes, Moved
  <2>11. MoveSettled(o)'  BY <1>1, <2>1, <2>4, <2>10 DEF MoveSettled, Before
  <2>12. Settled(o)'  BY <1>1, <1>10, <2>1, <2>11 DEF Settled
  <2> QED BY <1>1, <1>7, <2>12, OthersSettled
<1> QED BY <1>9, <1>10

(* A transfer goes on without a batch.                                       *)
LEMMA QuietMoveSettles ==
    ASSUME IInv, SInv, NEW o \in Ops, phase[o] # "idle", req[o].kind # "spend", NEW p, Goto(o, p), Untouched,
           UNCHANGED <<users, req, spent>>, \A x \in Ops : verdict'[x] = verdict[x],
           \/ p \in {"threw", "crashed"}
           \/ p \in Before \cup {"refused"} /\ phase[o] \in Before
           \/ p = "refund" /\ phase[o] = "credit"
           \/ p = "refused" /\ phase[o] = "refund" /\ spent[o] = << >>
    PROVE  SInv'
<1>1. /\ req[o] \in Requests /\ req[o] \in MoveRequest /\ MoveSettled(o)
    BY MoveIs
<1>2. phase'[o] = p /\ \A x \in Ops \ {o} : phase'[x] = phase[x]  BY DEF Goto, IInv, TypeOK
<1>3. /\ \A a, k : Comes(o, a, k) => Comes(o, a, k)'
      /\ Nothing(o) => Nothing(o)'
    BY QuietComes
<1>4. \A x, a : Moved(x, a)' = Moved(x, a)  BY StillMoves
<1>5. Source(o)' = Source(o) /\ Target(o)' = Target(o) /\ Person(o, Source(o))' = Person(o, Source(o))
    BY DEF Source, Target, Person
<1>6. p \in {"refund", "refused"} /\ {req[o].from, req[o].to} \subseteq Owners =>
        /\ Moved(o, Target(o)) = 0
        /\ Person(o, Source(o)) \in users => Comes(o, Source(o), 0)
  <2>1. CASE phase[o] \in Before
    <3>1. ASSUME {req[o].from, req[o].to} \subseteq Owners
          PROVE  Source(o) \in Accounts /\ Target(o) \in Accounts
        BY <1>1, <3>1 DEF Source, Target, Accounts, MoveRequest
    <3>2. Nothing(o) /\ spent[o] = << >>  BY <1>1, <2>1 DEF MoveSettled
    <3> QED BY <3>1, <3>2 DEF Nothing, Comes
  <2>2. CASE phase[o] \in {"credit", "refund"}  BY <1>1, <2>2 DEF MoveSettled
  <2> QED BY <2>1, <2>2
<1>7. /\ Moved(o, Target(o))' = Moved(o, Target(o))
      /\ Comes(o, Source(o), 0) => Comes(o, Source(o), 0)'
  <2>1. PICK a : a = Source(o)  OBVIOUS
  <2>2. PICK b : b = Target(o)  OBVIOUS
  <2>3. Moved(o, b)' = Moved(o, b) /\ (Comes(o, a, 0) => Comes(o, a, 0)')  BY <1>3, <1>4
  <2>4. a = Source(o)' /\ b = Target(o)'  BY <1>5, <2>1, <2>2
  <2> QED BY <2>1, <2>2, <2>3, <2>4 DEF Moved, Comes
<1>8. MoveSettled(o)'
  <2>1. p \in Before => phase[o] \in Before  BY DEF Before
  <2>2. p \in Before \cup {"refused"} => spent[o] = << >>  BY <1>1 DEF MoveSettled, Before
  <2>3. p = "refund" => phase[o] = "credit"  BY DEF Before
  <2>4. p \notin {"credit", "done"} /\ p \in Before \cup {"refund", "refused", "threw", "crashed"}  BY DEF Before
  <2> QED BY <1>1, <1>2, <1>3, <1>5, <1>6, <1>7, <2>1, <2>2, <2>3, <2>4 DEF MoveSettled
<1>9. p # "idle"  BY DEF Before
<1>10. Settled(o)'  BY <1>1, <1>2, <1>8, <1>9 DEF Settled
<1> QED BY <1>2, <1>4, <1>10, OthersSettled

LEMMA AnswerSettles == ASSUME IInv, SInv, NEW o \in Ops, Answer(o) PROVE SInv'
<1>1. /\ phase[o] = "refund" /\ spent[o] = << >> /\ Goto(o, verdict[o]) /\ Untouched
      /\ UNCHANGED <<users, req, spent, verdict>>
    BY DEF Answer, Untouched
<1>2. CASE req[o].kind = "spend"  BY <1>1, <1>2, QuietSpendSettles
<1>3. CASE req[o].kind # "spend"
  <2>1. verdict[o] = "refused"  BY <1>1, <1>3, MoveIs DEF MoveSettled
  <2> QED BY <1>1, <1>3, <2>1, QuietMoveSettles
<1> QED BY <1>2, <1>3

LEMMA LookupSettles == ASSUME IInv, SInv, NEW o \in Ops, Lookup(o) PROVE SInv'
<1> DEFINE p == IF req[o].to \in users THEN "debit" ELSE "refused"
<1>1. phase[o] = "lookup" /\ Goto(o, p) /\ Untouched /\ UNCHANGED <<users, req, spent, verdict>>
    BY DEF Lookup, Untouched
<1>2. phase[o] \in Before /\ p \in Before \cup {"refused"}  BY <1>1 DEF Before
<1>3. req[o].kind # "spend"  BY <1>1, MoveIs DEF MoveRequest
<1> HIDE DEF p
<1> QED BY <1>1, <1>2, <1>3, QuietMoveSettles

LEMMA DebitSettles == ASSUME IInv, SInv, NEW o \in Ops, Debit(o) PROVE SInv'
<1>1. phase[o] = "debit" /\ UNCHANGED <<users, req, verdict>>  BY DEF Debit
<1>2. /\ req[o] \in Requests /\ req[o] \in MoveRequest /\ MoveSettled(o) /\ req[o].from # req[o].to
      /\ {req[o].from, req[o].to} \subseteq Owners /\ req[o].amount \in Nat \ {0} /\ req[o].kind # "spend"
      /\ Source(o) \in Accounts /\ Target(o) \in Accounts /\ Source(o) # Target(o)
    BY <1>1, MoveIs, MoveAccounts DEF MoveRequest, Source, Target
<1>3. CASE Covers(Source(o), req[o].amount) /\ Person(o, Source(o)) \in users
  <2> DEFINE e == [account |-> Source(o), amount |-> req[o].amount]
  <2>1. /\ Post(o, balance, Leg(Source(o), -req[o].amount)) /\ spent'[o] = <<e>> /\ phase'[o] = "credit"
        /\ \A x \in Ops \ {o} : phase'[x] = phase[x] /\ spent'[x] = spent[x]
    BY <1>3 DEF Debit, Goto, IInv, TypeOK
  <2>2. -req[o].amount \in Int  BY <1>2
  <2>3. \A x \in Ops, a \in Accounts :
           /\ Moved(x, a) \in Int
           /\ Moved(x, a)' = Moved(x, a) + (IF x = o /\ a = Source(o) THEN -req[o].amount ELSE 0)
      BY <1>2, <2>1, <2>2, LegMoves
  <2>4. Nothing(o) /\ verdict[o] = "refused"  BY <1>1, <1>2 DEF MoveSettled, Before
  <2>5. PICK a \in Accounts : a = Source(o)  BY <1>2
  <2>6. PICK b \in Accounts : b = Target(o)  BY <1>2
  <2>7. Moved(o, a)' = -req[o].amount /\ Moved(o, b)' = 0
      BY <1>2, <2>3, <2>4, <2>5, <2>6 DEF Nothing
  <2>8. Comes(o, a, 0)'
    <3>1. DOMAIN spent'[o] = 1..1 /\ spent'[o][1].account = a /\ spent'[o][1].amount = req[o].amount
        BY <2>1, <2>5
    <3>2. -req[o].amount + req[o].amount = 0  BY <1>2
    <3> QED BY <2>7, <3>1, <3>2 DEF Comes
  <2>9. Source(o)' = Source(o) /\ Target(o)' = Target(o) /\ spent'[o] # << >>
      BY <1>1, <2>1 DEF Source, Target
  <2>10. Moved(o, Target(o))' = 0 /\ Comes(o, Source(o), 0)'
      BY <2>5, <2>6, <2>7, <2>8, <2>9 DEF Comes, Moved
  <2>11. MoveSettled(o)'  BY <1>1, <1>2, <2>1, <2>4, <2>9, <2>10 DEF MoveSettled, Before
  <2>12. Settled(o)'  BY <1>1, <1>2, <2>1, <2>11 DEF Settled, MoveRequest
  <2>13. ASSUME NEW x \in Ops \ {o}, NEW c \in Accounts PROVE Moved(x, c)' = Moved(x, c)  BY <2>3
  <2> QED BY <1>1, <2>1, <2>12, <2>13, OthersSettled
<1>4. CASE ~(Covers(Source(o), req[o].amount) /\ Person(o, Source(o)) \in users)
  <2> DEFINE p == IF req[o].from = Pool /\ Covers(Source(o), req[o].amount) THEN "threw" ELSE "refused"
  <2>1. Goto(o, p) /\ Untouched /\ UNCHANGED spent  BY <1>4 DEF Debit
  <2>2. p \in {"threw", "refused"} /\ phase[o] \in Before  BY <1>1 DEF Before
  <2> HIDE DEF p
  <2> QED BY <1>1, <1>2, <2>1, <2>2, QuietMoveSettles
<1> QED BY <1>3, <1>4

LEMMA CreditSettles == ASSUME IInv, SInv, NEW o \in Ops, Credit(o) PROVE SInv'
<1>1. phase[o] = "credit" /\ UNCHANGED <<users, req, spent>>  BY DEF Credit
<1>2. /\ req[o] \in Requests /\ req[o] \in MoveRequest /\ MoveSettled(o) /\ req[o].from # req[o].to
      /\ {req[o].from, req[o].to} \subseteq Owners /\ req[o].amount \in Nat \ {0} /\ req[o].kind # "spend"
      /\ Source(o) \in Accounts /\ Target(o) \in Accounts /\ Source(o) # Target(o) /\ Pool \notin Users
    BY <1>1, MoveIs, MoveAccounts DEF MoveRequest, Source, Target
<1>3. verdict[o] = "refused" /\ spent[o] = <<[account |-> Source(o), amount |-> req[o].amount]>>
    BY <1>1, <1>2 DEF MoveSettled
<1>4. CASE Person(o, Target(o)) \in users
  <2>1. /\ Post(o, balance, Leg(Target(o), req[o].amount)) /\ phase'[o] = "done" /\ UNCHANGED verdict
        /\ \A x \in Ops \ {o} : phase'[x] = phase[x]
    BY <1>4 DEF Credit, Goto, IInv, TypeOK
  <2>2. \A x \in Ops, a \in Accounts :
           /\ Moved(x, a) \in Int
           /\ Moved(x, a)' = Moved(x, a) + (IF x = o /\ a = Target(o) THEN req[o].amount ELSE 0)
    <3>1. req[o].amount \in Int  BY <1>2
    <3> QED BY <1>2, <2>1, <3>1, LegMoves
  <2>3. PICK a \in Accounts : a = Source(o)  BY <1>2
  <2>4. PICK b \in Accounts : b = Target(o)  BY <1>2
  <2>5. ASSUME {req[o].from, req[o].to} \subseteq users \cup {Pool}
        PROVE  Moved(o, a)' = -req[o].amount /\ Moved(o, b)' = req[o].amount
    <3>1. Person(o, Source(o)) \in users  BY <1>2, <2>5 DEF Person, Source
    <3>2. Comes(o, a, 0) /\ Moved(o, b) = 0  BY <1>1, <1>2, <2>3, <2>4, <3>1 DEF MoveSettled
    <3>3. 1 \in DOMAIN spent[o] /\ spent[o][1].account = a /\ spent[o][1].amount = req[o].amount
        BY <1>3, <2>3
    <3>4. Moved(o, a) + req[o].amount = 0  BY <3>2, <3>3 DEF Comes
    <3>5. Moved(o, a) \in Int /\ Moved(o, a)' = Moved(o, a) + 0  BY <1>2, <2>2, <2>3
    <3>6. Moved(o, b)' = 0 + req[o].amount  BY <2>2, <2>4, <3>2
    <3> QED BY <1>2, <3>4, <3>5, <3>6
  <2>6. Source(o)' = Source(o) /\ Target(o)' = Target(o)  BY <1>1 DEF Source, Target
  <2>7. {req[o].from, req[o].to} \subseteq users \cup {Pool} =>
           Moved(o, Source(o))' = -req[o].amount /\ Moved(o, Target(o))' = req[o].amount
      BY <2>3, <2>4, <2>5, <2>6 DEF Moved
  <2>8. MoveSettled(o)'  BY <1>1, <1>2, <1>3, <2>1, <2>6, <2>7 DEF MoveSettled, Before
  <2>9. Settled(o)'  BY <1>1, <1>2, <2>1, <2>8 DEF Settled, MoveRequest
  <2>10. ASSUME NEW x \in Ops \ {o}, NEW c \in Accounts PROVE Moved(x, c)' = Moved(x, c)  BY <2>2
  <2> QED BY <1>1, <2>1, <2>9, <2>10, OthersSettled
<1>5. CASE Person(o, Target(o)) \notin users
  <2>1. Refuse(o) /\ Untouched  BY <1>5 DEF Credit
  <2>2. Goto(o, "refund") /\ \A x \in Ops : verdict'[x] = verdict[x]
      BY <1>3, <2>1 DEF Refuse, IInv, TypeOK
  <2> QED BY <1>1, <1>2, <2>1, <2>2, QuietMoveSettles
<1> QED BY <1>4, <1>5

LEMMA PrepareSettles == ASSUME IInv, SInv, NEW o \in Ops, Prepare(o) PROVE SInv'
<1>1. phase[o] = "prepare" /\ Goto(o, "prepared") /\ Untouched /\ UNCHANGED <<users, req, spent, verdict>>
    BY DEF Prepare, Untouched
<1>2. phase[o] \in Before /\ "prepared" \in Before  BY <1>1 DEF Before
<1>3. req[o].kind # "spend"  BY <1>1, MoveIs DEF MoveRequest
<1> QED BY <1>1, <1>2, <1>3, QuietMoveSettles

LEMMA DeclineSettles == ASSUME IInv, SInv, NEW o \in Ops, Decline(o) PROVE SInv'
<1>1. phase[o] = "prepared" /\ Untouched /\ UNCHANGED <<users, req, spent, verdict>>
    BY DEF Decline, Untouched
<1>2. phase[o] \in Before /\ "unavailable" \in Before  BY <1>1 DEF Before
<1>3. req[o].kind # "spend"  BY <1>1, MoveIs DEF MoveRequest
<1>4. Goto(o, "refused") \/ Goto(o, "unavailable")  BY DEF Decline
<1> QED BY <1>1, <1>2, <1>3, <1>4, QuietMoveSettles

(* The batch of an administrator books both legs, or the one that is not     *)
(* outside.                                                                  *)
LEMMA CommitSettles == ASSUME IInv, SInv, NEW o \in Ops, Commit(o) PROVE SInv'
<1> DEFINE legs == Legs(req[o])
<1>1. phase[o] = "prepared" /\ UNCHANGED <<users, req, spent, verdict>>  BY DEF Commit
<1>2. /\ req[o] \in Requests /\ req[o] \in MoveRequest /\ MoveSettled(o) /\ req[o].from # req[o].to
      /\ req[o].amount \in Nat \ {0} /\ req[o].kind # "spend" /\ Pool \notin Users
    BY <1>1, MoveIs DEF MoveRequest
<1>3. CASE snap[o] = Snapshot(o)
  <2>1. DOMAIN legs \subseteq Accounts /\ \A a \in DOMAIN legs : legs[a] \in Int
    BY <1>2 DEF Legs, MoveRequest
  <2>2. \A a \in DOMAIN legs : snap[o].balance[a] = balance[a]  BY <1>3 DEF Snapshot
  <2>3. \A a \in Accounts : balance[a] \in Int  BY DEF IInv, TypeOK
  <2>4. \A a \in DOMAIN legs : legs[a] \in Int /\ snap[o].balance[a] + legs[a] \in Int
      BY <2>1, <2>2, <2>3
  <2>5. Post(o, snap[o].balance, legs) /\ phase'[o] = "done" /\ \A x \in Ops \ {o} : phase'[x] = phase[x]
    BY <1>3 DEF Commit, Goto, IInv, TypeOK
  <2>6. ASSUME {req[o].from, req[o].to} \subseteq Owners
        PROVE  /\ Source(o) \in Accounts /\ Target(o) \in Accounts
               /\ Source(o) \in DOMAIN legs /\ Target(o) \in DOMAIN legs
               /\ legs[Source(o)] = -req[o].amount /\ legs[Target(o)] = req[o].amount
    <3>1. Source(o) \in Accounts /\ Target(o) \in Accounts /\ Source(o) # Target(o)
        BY <1>2, <2>6 DEF Source, Target, Accounts, MoveRequest
    <3> QED BY <3>1 DEF Legs, Source, Target
  <2> HIDE DEF legs
  <2>7. \A x \in Ops, a \in Accounts :
           /\ Moved(x, a) \in Int
           /\ Moved(x, a)' = Moved(x, a) + (IF x = o /\ a \in DOMAIN legs THEN legs[a] ELSE 0)
      BY <2>1, <2>4, <2>5, PostMoves
  <2>8. Nothing(o) /\ verdict[o] = "refused" /\ spent[o] = << >>  BY <1>1, <1>2 DEF MoveSettled, Before
  <2>9. Source(o)' = Source(o) /\ Target(o)' = Target(o)  BY <1>1 DEF Source, Target
  <2>10. ASSUME {req[o].from, req[o].to} \subseteq Owners
         PROVE  Moved(o, Source(o))' = -req[o].amount /\ Moved(o, Target(o))' = req[o].amount
    <3>1. PICK a \in Accounts : a = Source(o)  BY <2>6, <2>10
    <3>2. PICK b \in Accounts : b = Target(o)  BY <2>6, <2>10
    <3>3. Moved(o, a) = 0 /\ Moved(o, b) = 0  BY <2>8 DEF Nothing
    <3>4. Moved(o, a)' = 0 + legs[a] /\ Moved(o, b)' = 0 + legs[b]
        BY <2>6, <2>7, <2>10, <3>1, <3>2, <3>3
    <3>5. Moved(o, a)' = -req[o].amount /\ Moved(o, b)' = req[o].amount
        BY <1>2, <2>6, <2>10, <3>1, <3>2, <3>4
    <3> QED BY <2>9, <3>1, <3>2, <3>5 DEF Moved
  <2>11. MoveSettled(o)'  BY <1>1, <1>2, <2>5, <2>8, <2>9, <2>10 DEF MoveSettled, Before
  <2>12. Settled(o)'  BY <1>1, <1>2, <2>5, <2>11 DEF Settled, MoveRequest
  <2>13. ASSUME NEW x \in Ops \ {o}, NEW c \in Accounts PROVE Moved(x, c)' = Moved(x, c)  BY <2>7
  <2> QED BY <1>1, <2>5, <2>12, <2>13, OthersSettled
<1>4. CASE Untouched /\ Goto(o, "unavailable")
  <2>1. phase[o] \in Before /\ "unavailable" \in Before  BY <1>1 DEF Before
  <2> QED BY <1>1, <1>2, <1>4, <2>1, QuietMoveSettles
<1> QED BY <1>3, <1>4 DEF Commit

LEMMA CrashSettles == ASSUME IInv, SInv, NEW o \in Ops, Crash(o) PROVE SInv'
<1>1. phase[o] # "idle" /\ Goto(o, "crashed") /\ Untouched /\ UNCHANGED <<users, req, spent, verdict>>
    BY DEF Crash, Untouched
<1>2. CASE req[o].kind = "spend"  BY <1>1, <1>2, QuietSpendSettles
<1>3. CASE req[o].kind # "spend"  BY <1>1, <1>3, QuietMoveSettles
<1> QED BY <1>2, <1>3

(* The books of a deleted user are empty: nothing is said of them any more.  *)
LEMMA DeleteUserSettles == ASSUME IInv, SInv, NEW u \in Users, DeleteUser(u) PROVE SInv'
<1>1. u \in users /\ users' = users \ {u} /\ UNCHANGED <<phase, req, spent, verdict>>  BY DEF DeleteUser
<1>2. ASSUME NEW x \in Ops, NEW a \in Accounts
      PROVE  \/ Moved(x, a)' = Moved(x, a)
             \/ a[1] \in Users \ users' /\ Moved(x, a)' = 0
  <2>1. CASE a[1] = u
    <3>1. ledger'[a] = << >>  BY <2>1 DEF DeleteUser
    <3>2. Moved(x, a)' = Total([i \in DOMAIN ledger'[a] |-> IF ledger'[a][i].op = x THEN ledger'[a][i].delta ELSE 0])
        BY DEF Moved
    <3>3. [i \in DOMAIN ledger'[a] |-> IF ledger'[a][i].op = x THEN ledger'[a][i].delta ELSE 0] = << >>
        BY <3>1
    <3>4. Moved(x, a)' = 0  BY <3>2, <3>3, TotalOfEmpty
    <3> QED BY <1>1, <2>1, <3>4
  <2>2. CASE a[1] # u
    <3>1. ledger'[a] = ledger[a]  BY <2>2 DEF DeleteUser
    <3> QED BY <3>1 DEF Moved
  <2> QED BY <2>1, <2>2
<1>3. ASSUME NEW x \in Ops PROVE Settled(x)'
  <2>1. Settled(x)  BY DEF SInv
  <2> QED BY <1>1, <1>2, <2>1, SettledFrame
<1> QED BY <1>3 DEF SInv

LEMMA NextKeepsSInv == IInv /\ SInv /\ [Next]_vars => SInv'
<1> SUFFICES ASSUME IInv, SInv, [Next]_vars PROVE SInv'  OBVIOUS
<1>1. ASSUME NEW o \in Ops, NEW r \in Requests, Start(o, r) PROVE SInv'  BY <1>1, StartSettles
<1>2. ASSUME NEW o \in Ops, Step(o) PROVE SInv'
  <2>1. CASE ChargeUser(o)  BY <2>1, ChargeUserSettles
  <2>2. CASE Classify(o)  BY <2>2, ClassifySettles
  <2>3. CASE ChargePool(o)  BY <2>3, ChargePoolSettles
  <2>4. CASE WriteRows(o)  BY <2>4, WriteRowsSettles
  <2>5. CASE Refund(o)  BY <2>5, RefundSettles
  <2>6. CASE Answer(o)  BY <2>6, AnswerSettles
  <2>7. CASE Lookup(o)  BY <2>7, LookupSettles
  <2>8. CASE Debit(o)  BY <2>8, DebitSettles
  <2>9. CASE Credit(o)  BY <2>9, CreditSettles
  <2>10. CASE Prepare(o)  BY <2>10, PrepareSettles
  <2>11. CASE Commit(o)  BY <2>11, CommitSettles
  <2>12. CASE Decline(o)  BY <2>12, DeclineSettles
  <2> QED BY <1>2, <2>1, <2>2, <2>3, <2>4, <2>5, <2>6, <2>7, <2>8, <2>9, <2>10, <2>11, <2>12 DEF Step
<1>3. ASSUME NEW o \in Ops, Crash(o) PROVE SInv'  BY <1>3, CrashSettles
<1>4. ASSUME NEW u \in Users, DeleteUser(u) PROVE SInv'  BY <1>4, DeleteUserSettles
<1>5. CASE UNCHANGED vars
  <2>1. ASSUME NEW x \in Ops PROVE Settled(x)'
    <3>1. Settled(x) /\ Untouched /\ UNCHANGED <<users, phase, req, spent, verdict>>
        BY <1>5 DEF SInv, vars, Untouched
    <3>2. \A a : Moved(x, a)' = Moved(x, a)  BY <3>1, StillMoves
    <3> QED BY <3>1, <3>2, SettledFrame
  <2> QED BY <2>1 DEF SInv
<1> QED BY <1>1, <1>2, <1>3, <1>4, <1>5 DEF Next

-----------------------------------------------------------------------------
(* The price in a currency: of the one part in it, or nothing.               *)
LEMMA PriceIs ==
    ASSUME NEW r, r.parts \in Seq(Part), OnePartPerCurrency(r.parts), NEW c \in Currencies
    PROVE  /\ \A k \in DOMAIN r.parts : r.parts[k].currency = c => PriceOf(r, c) = r.parts[k].amount
           /\ (\A k \in DOMAIN r.parts : r.parts[k].currency # c) => PriceOf(r, c) = 0
<1> DEFINE n == Len(r.parts)
           s == [i \in DOMAIN r.parts |-> IF r.parts[i].currency = c THEN r.parts[i].amount ELSE 0]
<1>1. DOMAIN r.parts = 1..n /\ n \in Nat  OBVIOUS
<1>2. \A i \in 1..n : r.parts[i] \in Part  OBVIOUS
<1>3. \A i \in 1..n : r.parts[i].amount \in Nat  BY <1>2 DEF Part
<1>4. s \in Seq(Int) /\ Len(s) = n
  <2>1. s \in [1..n -> Int]  BY <1>1, <1>3
  <2> HIDE DEF s, n
  <2> QED BY <1>1, <2>1
<1>5. \A i \in 1..n : s[i] = IF r.parts[i].currency = c THEN r.parts[i].amount ELSE 0  BY <1>1
<1>6. PriceOf(r, c) = Total(s)  BY DEF PriceOf
<1> HIDE DEF s
<1>7. ASSUME NEW k \in 1..n, r.parts[k].currency = c PROVE PriceOf(r, c) = r.parts[k].amount
  <2>1. \A i \in 1..n : i # k => s[i] = 0  BY <1>1, <1>5, <1>7 DEF OnePartPerCurrency
  <2>2. Total(s) = s[k]
    <3> HIDE DEF n
    <3> QED BY <1>4, <2>1, TotalOfOne
  <2> QED BY <1>5, <1>6, <1>7, <2>2
<1>8. ASSUME \A k \in 1..n : r.parts[k].currency # c PROVE PriceOf(r, c) = 0
  <2>1. \A i \in 1..Len(s) : s[i] = 0  BY <1>4, <1>5, <1>8
  <2> QED BY <1>4, <1>6, <2>1, TotalOfNothing
<1> QED BY <1>1, <1>7, <1>8

LEMMA NothingToShare == ASSUME NEW f \in Nat, NEW rows \in Nat \ {0} PROVE RefundShare(0, f, rows) = 0
<1>1. ASSUME NEW x \in Nat, NEW y \in Nat \ {0}, x < y PROVE x \div y = 0  BY <1>1
<1>2. 2 * 0 * f + rows = rows /\ 2 * rows \in Nat \ {0} /\ rows < 2 * rows  OBVIOUS
<1>3. rows \div (2 * rows) = 0  BY <1>1, <1>2
<1> QED BY <1>2, <1>3 DEF RefundShare

LEMMA SettledSpends ==
    ASSUME IInv, SInv, NEW o \in Ops, phase[o] \in {"reserved", "done"}, req[o].kind = "spend",
           req[o].user \in users, NEW c \in Currencies
    PROVE  {Moved(o, <<req[o].user, c>>), Moved(o, <<Pool, c>>)} = {0, -PriceOf(req[o], c)}
<1> DEFINE n == Len(req[o].parts)
           a(x) == <<x, c>>
<1>1. /\ req[o] \in Requests /\ SpendSettled(o) /\ OnePartPerCurrency(req[o].parts)
      /\ req[o].user \in Users /\ Pool \notin Users /\ req[o].parts \in Seq(Part) /\ spent[o] \in Seq(Paid)
    BY SpendIs
<1>2. /\ verdict[o] = "refused" /\ \A b \in Accounts : Comes(o, b, 0)
      /\ PaidParts(o) /\ Len(spent[o]) = n
    BY <1>1 DEF SpendSettled, Taking, IInv, TypeOK
<1>3. DOMAIN spent[o] = 1..n /\ DOMAIN req[o].parts = 1..n /\ n \in Nat  BY <1>1, <1>2
<1>4. a(req[o].user) \in Accounts /\ a(Pool) \in Accounts  BY <1>1 DEF Accounts, Owners
<1>5. ASSUME NEW x \in Payers(o), \A i \in 1..n : spent[o][i].account # a(x) PROVE Moved(o, a(x)) = 0
    BY <1>2, <1>3, <1>4, <1>5 DEF Comes, Payers
<1>6. ASSUME NEW i \in 1..n, req[o].parts[i].currency = c
      PROVE  {Moved(o, a(req[o].user)), Moved(o, a(Pool))} = {0, -PriceOf(req[o], c)}
  <2>1. spent[o][i] \in Paid  BY <1>1, <1>3
  <2>2. PICK x \in Payers(o) : spent[o][i].account = a(x)
    <3>1. spent[o][i].account \in Accounts /\ spent[o][i].account[1] \in Payers(o)
        BY <1>1, <1>3, <2>1 DEF SpendSettled, Paid
    <3>2. spent[o][i].account[2] = c  BY <1>2, <1>3, <1>6 DEF PaidParts
    <3>3. PICK b \in Accounts : b = spent[o][i].account  BY <3>1
    <3>4. b = <<b[1], b[2]>>  BY DEF Accounts
    <3> QED BY <3>1, <3>2, <3>3, <3>4
  <2>3. spent[o][i].amount = PriceOf(req[o], c) /\ spent[o][i].amount \in Nat
    <3>1. spent[o][i].amount = req[o].parts[i].amount  BY <1>2, <1>3 DEF PaidParts
    <3>2. PriceOf(req[o], c) = req[o].parts[i].amount  BY <1>1, <1>3, <1>6, PriceIs
    <3> QED BY <2>1, <3>1, <3>2 DEF Paid
  <2>4. Moved(o, a(x)) = -PriceOf(req[o], c)
    <3>1. a(x) \in Accounts  BY <1>4 DEF Payers
    <3>2. Moved(o, a(x)) + spent[o][i].amount = 0  BY <1>2, <1>3, <2>2, <3>1 DEF Comes
    <3>3. Moved(o, a(x)) \in Int  BY <3>1, MovedType
    <3> QED BY <2>3, <3>2, <3>3
  <2>5. ASSUME NEW y \in Payers(o), y # x PROVE Moved(o, a(y)) = 0
    <3>1. ASSUME NEW j \in 1..n, spent[o][j].account = a(y) PROVE FALSE
      <4>1. req[o].parts[j].currency = c  BY <1>2, <1>3, <3>1 DEF PaidParts
      <4>2. j = i  BY <1>1, <1>3, <1>6, <4>1 DEF OnePartPerCurrency
      <4> QED BY <2>2, <2>5, <3>1, <4>2
    <3> QED BY <1>5, <3>1
  <2>6. CASE x = Pool
    <3>1. Moved(o, a(req[o].user)) = 0  BY <1>1, <2>5, <2>6 DEF Payers
    <3> QED BY <2>4, <2>6, <3>1
  <2>7. CASE x = req[o].user
    <3>1. Moved(o, a(Pool)) = 0  BY <1>1, <2>5, <2>7 DEF Payers
    <3> QED BY <2>4, <2>7, <3>1
  <2> QED BY <2>2, <2>6, <2>7 DEF Payers
<1>7. ASSUME \A i \in 1..n : req[o].parts[i].currency # c
      PROVE  {Moved(o, a(req[o].user)), Moved(o, a(Pool))} = {0, -PriceOf(req[o], c)}
  <2>1. PriceOf(req[o], c) = 0  BY <1>1, <1>3, <1>7, PriceIs
  <2>2. ASSUME NEW x \in Payers(o) PROVE Moved(o, a(x)) = 0
    <3>1. ASSUME NEW j \in 1..n, spent[o][j].account = a(x) PROVE FALSE
      <4>1. req[o].parts[j].currency = c  BY <1>2, <1>3, <3>1 DEF PaidParts
      <4> QED BY <1>7, <4>1
    <3> QED BY <1>5, <3>1
  <2>3. Moved(o, a(req[o].user)) = 0 /\ Moved(o, a(Pool)) = 0  BY <2>2 DEF Payers
  <2> QED BY <2>1, <2>3
<1> QED BY <1>6, <1>7

(* Whole division, and products by a natural number.                         *)
LEMMA DivIs ==
    ASSUME NEW x \in Nat, NEW y \in Nat \ {0}
    PROVE  x \div y \in Nat /\ y * (x \div y) <= x /\ x < y * (x \div y) + y
  OBVIOUS
LEMMA Mono == ASSUME NEW x \in Nat, NEW y \in Nat, NEW r \in Nat, x <= y  PROVE r * x <= r * y
  OBVIOUS

(* What is refunded is at most what was paid, and the nearest whole credit.  *)
LEMMA ShareIs ==
    ASSUME NEW a \in Nat, NEW f \in Nat, NEW rows \in Nat \ {0}, f <= rows,
           NEW s, s = RefundShare(a, f, rows)
    PROVE  s \in 0..a /\ 2 * rows * s <= 2 * a * f + rows /\ 2 * a * f < 2 * rows * s + rows
<1>1. PICK x \in Nat : x = 2 * a * f + rows  BY SMT
<1>2. PICK y \in Nat \ {0} : y = 2 * rows  OBVIOUS
<1>3. s = x \div y  BY <1>1, <1>2 DEF RefundShare
<1>4. s \in Nat /\ y * s <= x /\ x < y * s + y  BY <1>1, <1>2, <1>3, DivIs
<1>5. 2 * rows * s = y * s  BY <1>2, <1>4
<1>6. s <= a
  <2>1. a * f <= a * rows  BY Mono
  <2>2. ASSUME a + 1 <= s  PROVE FALSE
    <3>1. rows * (a + 1) <= rows * s  BY <1>4, <2>2, Mono
    <3>2. rows * (a + 1) = a * rows + rows  OBVIOUS
    <3>3. PICK p \in Nat : p = a * rows  OBVIOUS
    <3>4. PICK q \in Nat : q = a * f  OBVIOUS
    <3>5. PICK t \in Nat : t = rows * s  BY <1>4
    <3>6. y * s = 2 * t /\ x = 2 * q + rows  BY <1>1, <1>2, <1>4, <3>4, <3>5
    <3> QED BY <1>4, <2>1, <3>1, <3>2, <3>3, <3>4, <3>5, <3>6
  <2> QED BY <1>4, <2>2
<1> QED BY <1>1, <1>2, <1>4, <1>5, <1>6

LEMMA KeptIsFair ==
    ASSUME NEW a \in Nat, NEW rows \in Nat \ {0}, NEW f \in 1..rows
    PROVE  \E kept \in 0..a : RefundShare(a, f, rows) - a = -kept /\ FairlyKept(kept, a, rows - f, rows)
<1>1. PICK s : s = RefundShare(a, f, rows)  OBVIOUS
<1>2. s \in 0..a /\ 2 * rows * s <= 2 * a * f + rows /\ 2 * a * f < 2 * rows * s + rows  BY <1>1, ShareIs
<1>3. a - s \in 0..a /\ s - a = -(a - s)  BY <1>2
<1>4. PICK p, q, t \in Nat : p = a * rows /\ q = a * f /\ t = rows * s  BY <1>2
<1>5. /\ 2 * rows * s = 2 * t /\ 2 * a * f = 2 * q
      /\ 2 * a * (rows - f) = 2 * p - 2 * q /\ 2 * rows * (a - s) = 2 * p - 2 * t
  BY <1>2, <1>4
<1>6. FairlyKept(a - s, a, rows - f, rows)  BY <1>2, <1>4, <1>5 DEF FairlyKept
<1> QED  BY <1>1, <1>3, <1>6

LEMMA SettledFailures ==
    ASSUME IInv, SInv, NEW o \in Ops, phase[o] = "failed", req[o].user \in users
    PROVE  \E written \in 0..(req[o].rows - 1) : \A c \in Currencies :
             \E kept \in 0..PriceOf(req[o], c) :
               /\ {Moved(o, <<req[o].user, c>>), Moved(o, <<Pool, c>>)} = {0, -kept}
               /\ FairlyKept(kept, PriceOf(req[o], c), written, req[o].rows)
<1> DEFINE n == Len(req[o].parts)
           rows == req[o].rows
<1>1. req[o].kind = "spend"
  <2>1. ASSUME req[o].kind # "spend" PROVE FALSE  BY <2>1, MoveIs DEF MoveSettled, Before
  <2> QED BY <2>1
<1>2. /\ req[o] \in Requests /\ SpendSettled(o) /\ OnePartPerCurrency(req[o].parts)
      /\ req[o].user \in Users /\ Pool \notin Users /\ req[o].parts \in Seq(Part) /\ rows \in Nat \ {0}
    BY <1>1, SpendIs
<1>3. spent[o] = << >> /\ verdict[o] = "failed"  BY <1>2 DEF SpendSettled
<1>4. PICK f \in 1..rows, who \in [DOMAIN req[o].parts -> Payers(o)] : Partly(o, f, who)
    BY <1>2, <1>3 DEF SpendSettled
<1>5. DOMAIN req[o].parts = 1..n /\ n \in Nat /\ f \in Nat  BY <1>2
<1>6. \A a \in Accounts : \A k : Comes(o, a, k) => Moved(o, a) = k  BY <1>3 DEF Comes
<1>7. ASSUME NEW c \in Currencies
      PROVE  {Moved(o, <<req[o].user, c>>), Moved(o, <<Pool, c>>)}
               = {0, RefundShare(PriceOf(req[o], c), f, rows) - PriceOf(req[o], c)}
  <2> DEFINE a(x) == <<x, c>>
  <2>1. \A x \in Payers(o) : a(x) \in Accounts  BY <1>2 DEF Accounts, Owners, Payers
  <2>2. CASE \E i \in 1..n : req[o].parts[i].currency = c
    <3>1. PICK i \in 1..n : req[o].parts[i].currency = c  BY <2>2
    <3>2. PICK x \in Payers(o) : x = who[i]  BY <1>4, <1>5
    <3>3. PartAccount(o, who, i) = a(x)  BY <3>1, <3>2 DEF PartAccount
    <3>4. PriceOf(req[o], c) = req[o].parts[i].amount  BY <1>2, <1>5, <3>1, PriceIs
    <3>5. Comes(o, PartAccount(o, who, i), Kept(o, f, i))  BY <1>4, <1>5 DEF Partly
    <3>6. Moved(o, a(x)) = RefundShare(PriceOf(req[o], c), f, rows) - PriceOf(req[o], c)
      <4>1. PICK b \in Accounts : b = a(x)  BY <2>1
      <4>2. PICK k : k = Kept(o, f, i)  OBVIOUS
      <4>3. Comes(o, b, k)  BY <3>3, <3>5, <4>1, <4>2
      <4>4. Moved(o, b) = k  BY <1>6, <4>3
      <4>5. k = RefundShare(PriceOf(req[o], c), f, rows) - PriceOf(req[o], c)
          BY <3>4, <4>2 DEF Kept
      <4> QED BY <4>1, <4>4, <4>5
    <3>7. ASSUME NEW y \in Payers(o), y # x PROVE Moved(o, a(y)) = 0
      <4>1. ASSUME NEW j \in DOMAIN req[o].parts, a(y) = PartAccount(o, who, j) PROVE FALSE
        <5>1. req[o].parts[j].currency = c /\ who[j] = y  BY <4>1 DEF PartAccount
        <5>2. j = i  BY <1>2, <1>5, <3>1, <5>1 DEF OnePartPerCurrency
        <5> QED BY <3>2, <3>7, <5>1, <5>2
      <4>2. PICK b \in Accounts : b = a(y)  BY <2>1
      <4>3. \A j \in DOMAIN req[o].parts : b # PartAccount(o, who, j)  BY <4>1, <4>2
      <4>4. Comes(o, b, 0)  BY <1>4, <4>3 DEF Partly
      <4>5. Moved(o, b) = 0  BY <1>6, <4>4
      <4> QED BY <4>2, <4>5
    <3> HIDE DEF rows
    <3>8. CASE x = Pool
      <4>1. Moved(o, a(req[o].user)) = 0  BY <1>2, <3>7, <3>8 DEF Payers
      <4> QED BY <3>6, <3>8, <4>1
    <3>9. CASE x = req[o].user
      <4>1. Moved(o, a(Pool)) = 0  BY <1>2, <3>7, <3>9 DEF Payers
      <4> QED BY <3>6, <3>9, <4>1
    <3> QED BY <3>2, <3>8, <3>9 DEF Payers
  <2>3. CASE \A i \in 1..n : req[o].parts[i].currency # c
    <3>1. PriceOf(req[o], c) = 0  BY <1>2, <1>5, <2>3, PriceIs
    <3>2. RefundShare(PriceOf(req[o], c), f, rows) - PriceOf(req[o], c) = 0
        BY <1>2, <1>5, <3>1, NothingToShare
    <3>3. ASSUME NEW x \in Payers(o) PROVE Moved(o, a(x)) = 0
      <4>1. ASSUME NEW j \in DOMAIN req[o].parts, a(x) = PartAccount(o, who, j) PROVE FALSE
        <5>1. req[o].parts[j].currency = c  BY <4>1 DEF PartAccount
        <5> QED BY <1>5, <2>3, <5>1
      <4>2. PICK b \in Accounts : b = a(x)  BY <2>1
      <4>3. \A j \in DOMAIN req[o].parts : b # PartAccount(o, who, j)  BY <4>1, <4>2
      <4>4. Comes(o, b, 0)  BY <1>4, <4>3 DEF Partly
      <4>5. Moved(o, b) = 0  BY <1>6, <4>4
      <4> QED BY <4>2, <4>5
    <3>4. Moved(o, a(req[o].user)) = 0 /\ Moved(o, a(Pool)) = 0  BY <3>3 DEF Payers
    <3> QED BY <3>2, <3>4
  <2> QED BY <2>2, <2>3
<1>8. rows - f \in 0..(rows - 1)  BY <1>2
<1>9. ASSUME NEW c \in Currencies
      PROVE  \E kept \in 0..PriceOf(req[o], c) :
               /\ {Moved(o, <<req[o].user, c>>), Moved(o, <<Pool, c>>)} = {0, -kept}
               /\ FairlyKept(kept, PriceOf(req[o], c), rows - f, rows)
  <2>1. PICK a \in Nat : a = PriceOf(req[o], c)
    <3>1. \A i \in DOMAIN req[o].parts : req[o].parts[i].amount \in Nat
      <4>1. \A i \in DOMAIN req[o].parts : req[o].parts[i] \in Part  BY <1>2
      <4> QED  BY <4>1 DEF Part
    <3>2. PICK q : q = req[o]  OBVIOUS
    <3>3. /\ \A k \in DOMAIN q.parts : q.parts[k].currency = c => PriceOf(q, c) = q.parts[k].amount
          /\ (\A k \in DOMAIN q.parts : q.parts[k].currency # c) => PriceOf(q, c) = 0
      BY <1>2, <3>2, PriceIs
    <3> QED  BY <3>1, <3>2, <3>3
  <2>2. PICK kept \in 0..a : RefundShare(a, f, rows) - a = -kept /\ FairlyKept(kept, a, rows - f, rows)
    BY <1>2, KeptIsFair
  <2> QED  BY <1>7, <2>1, <2>2
<1> HIDE DEF rows
<1> QED BY <1>8, <1>9 DEF rows

LEMMA SettledMoves ==
    ASSUME IInv, SInv, NEW o \in Ops, req[o] # NoOp, req[o].kind \in {"move", "admin"},
           Outside \notin {req[o].from, req[o].to}
    PROVE  /\ (phase[o] = "done" /\ {req[o].from, req[o].to} \subseteq users \cup {Pool})
                => Moved(o, Source(o)) = -req[o].amount /\ Moved(o, Target(o)) = req[o].amount
           /\ (phase[o] \in {"refused", "unavailable"} /\ Person(o, Source(o)) \in users)
                => Moved(o, Source(o)) = 0 /\ Moved(o, Target(o)) = 0
<1> SUFFICES ASSUME phase[o] # "idle"
             PROVE  /\ (phase[o] = "done" /\ {req[o].from, req[o].to} \subseteq users \cup {Pool})
                         => Moved(o, Source(o)) = -req[o].amount /\ Moved(o, Target(o)) = req[o].amount
                    /\ (phase[o] \in {"refused", "unavailable"} /\ Person(o, Source(o)) \in users)
                         => Moved(o, Source(o)) = 0 /\ Moved(o, Target(o)) = 0
    OBVIOUS
<1>1. req[o] \in MoveRequest /\ MoveSettled(o)  BY MoveIs
<1>2. {req[o].from, req[o].to} \subseteq Owners  BY <1>1 DEF MoveRequest
<1>3. Source(o) \in Accounts /\ Target(o) \in Accounts  BY <1>1, <1>2 DEF Source, Target, Accounts, MoveRequest
<1>4. phase[o] = "unavailable" => Moved(o, Source(o)) = 0 /\ Moved(o, Target(o)) = 0
    BY <1>1, <1>3 DEF MoveSettled, Before, Nothing
<1>5. phase[o] = "refused" /\ Person(o, Source(o)) \in users => Moved(o, Source(o)) = 0 /\ Moved(o, Target(o)) = 0
    BY <1>1, <1>2 DEF MoveSettled, Comes
<1>6. phase[o] = "done" /\ {req[o].from, req[o].to} \subseteq users \cup {Pool} =>
         Moved(o, Source(o)) = -req[o].amount /\ Moved(o, Target(o)) = req[o].amount
    BY <1>1, <1>2 DEF MoveSettled
<1> QED BY <1>4, <1>5, <1>6

LEMMA SettledRefusals ==
    ASSUME IInv, SInv, NEW o \in Ops, phase[o] = "refused", req[o].kind = "spend", req[o].user \in users,
           NEW a \in Accounts
    PROVE  Moved(o, a) = 0
<1>1. SpendSettled(o)  BY SpendIs
<1>2. spent[o] = << >> /\ Comes(o, a, 0)  BY <1>1 DEF SpendSettled
<1> QED BY <1>2 DEF Comes

LEMMA SettleInvHolds == IInv /\ SInv => RequestsSettle
<1> SUFFICES ASSUME IInv, SInv PROVE RequestsSettle  OBVIOUS
<1>1. RefusedSpendIsUnwound  BY SettledRefusals DEF RefusedSpendIsUnwound
<1>2. SpendTakesThePriceOnce  BY SettledSpends DEF SpendTakesThePriceOnce
<1>3. FailedSpendKeepsWrittenRows  BY SettledFailures DEF FailedSpendKeepsWrittenRows
<1>4. MoveConserves  BY SettledMoves DEF MoveConserves
<1> QED BY <1>1, <1>2, <1>3, <1>4 DEF RequestsSettle

(* Whatever a request has answered is what the ledgers say of it, for every  *)
(* set of users, currencies and requests and every interleaving of their     *)
(* batches with each other, with deletions of users and with evictions: a    *)
(* refused spend is wholly given back, the pool's parts too; one that stands *)
(* took each price once and from one account; a partly failed batch kept the *)
(* price of the written rows, to the nearest credit, where it was paid; a    *)
(* transfer created and destroyed nothing (spendCurrencies, refundCurrencies,*)
(* the transfers and the administration batch).                              *)
THEOREM SettleHolds == Spec => []RequestsSettle
<1>1. Init => IInv /\ SInv  BY InitIInv, InitSettled
<1>2. IInv /\ SInv /\ [Next]_vars => (IInv /\ SInv)'  BY NextKeepsIInv, NextKeepsSInv
<1>3. IInv /\ SInv => RequestsSettle  BY SettleInvHolds
<1> QED BY <1>1, <1>2, <1>3, PTL DEF Spec

-----------------------------------------------------------------------------
(* Recurring charges (CreditSubscriptions).  While the clock stands still    *)
(* the first claim carries the due date past now, so until its sweep has     *)
(* settled or rolled back no other claims, ends or restarts the row: the     *)
(* period claimed last is the one a rollback undoes, and the mode a sweep    *)
(* read with a date still in force is that of the period before.             *)
Claimed == {"spend", "rollback"}
Past    == Claimed \cup {"settle"}
Ph(s)   == sweep[s].phase

(* The row was due when it was read.                                         *)
SeenDue(s) == Ph(s) # "idle" => sweep[s].seen.next <= now
(* One sweep is past its claim at a time, and carried the due date past now. *)
OnePast ==
    /\ \A s \in Sweeps : Sub!Exists /\ Ph(s) \in Past => Sub!Live /\ row.next > now
    /\ \A s, t \in Sweeps : Sub!Exists /\ Ph(s) \in Past /\ Ph(t) \in Past => s = t
(* The claimed period of a sweep.                                            *)
Holding(s) ==
    Sub!Exists /\ Ph(s) \in Claimed =>
        /\ periods # << >> /\ periods[Len(periods)].by = s
        /\ Len(periods) > 1 => sweep[s].seen.lastMode = periods[Len(periods) - 1].mode
HeldLast ==
    \A i \in 1..Len(periods) :
        /\ periods[i].at <= now
        /\ periods[i].by # NoSweep => i = Len(periods) /\ Ph(periods[i].by) \in Claimed
(* What the row says of the period claimed last.                             *)
RowFollows ==
    /\ ~ Sub!Exists => periods = << >>
    /\ ~ payer => ~ Sub!Exists
    /\ Sub!Exists => row.peak >= row.quantity
    /\ ~ Sub!Exists /\ payer => \A s \in Sweeps : Ph(s) = "idle"
    /\ periods # << >> => /\ row.lastMode = periods[Len(periods)].mode
                          /\ periods[Len(periods)].until <= row.next
ReadInForce(s) ==
    Ph(s) # "idle" /\ Sub!Exists /\ periods # << >> /\ row.next = sweep[s].seen.next
        => sweep[s].seen.lastMode = row.lastMode

Billed == Sub!TypeOK /\ Sub!ChargedOncePerPeriod /\ Sub!ElapsedMonthBilledByItsMode /\ Sub!PeakCoversUsage
MInv == /\ Billed /\ OnePast /\ HeldLast /\ RowFollows /\ Sub!Undisturbed
        /\ \A s \in Sweeps : SeenDue(s) /\ Holding(s) /\ ReadInForce(s)

LEMMA SweepFields ==
    ASSUME Sub!TypeOK, NEW s \in Sweeps
    PROVE  /\ Ph(s) \in {"idle", "read", "defer", "cancel", "claim", "spend", "rollback", "settle"}
           /\ Ph(s) # "idle" => sweep[s] \in Sub!Call /\ sweep[s].seen \in Sub!Row /\ sweep[s].seen.next \in Nat
                               /\ sweep[s].mode \in Sub!Modes /\ sweep[s].seen.lastMode \in Sub!Modes \cup {"null"}
                               /\ sweep[s].seen.quantity \in Nat /\ sweep[s].seen.peak \in Nat
<1>1. sweep[s] \in Sub!Call \cup {Sub!Idle}  BY DEF Sub!TypeOK
<1>2. CASE sweep[s] = Sub!Idle  BY <1>2 DEF Sub!Idle, Ph
<1>3. CASE sweep[s] \in Sub!Call  BY <1>3 DEF Sub!Call, Ph, Sub!Row
<1> QED  BY <1>1, <1>2, <1>3

LEMMA RowFieldsTyped ==
    ASSUME Sub!TypeOK, Sub!Exists
    PROVE  /\ row \in Sub!Row /\ row.next \in Nat /\ row.quantity \in Nat /\ row.peak \in Nat /\ row.life \in Nat
           /\ row.lastMode \in Sub!Modes \cup {"null"} /\ row.status \in {"active", "past_due", "canceled"}
  BY DEF Sub!TypeOK, Sub!Exists, Sub!Row

LEMMA PeriodFields ==
    ASSUME Sub!TypeOK, NEW i \in 1..Len(periods)
    PROVE  /\ periods[i] \in Sub!Period /\ periods[i].at \in Nat /\ periods[i].until \in Nat
           /\ periods[i].mode \in Sub!Modes /\ periods[i].elapsed \in BOOLEAN /\ periods[i].by \in Sweeps \cup {NoSweep}
<1>1. periods[i] \in Sub!Period  BY DEF Sub!TypeOK
<1> QED  BY <1>1 DEF Sub!Period

LEMMA NoRowApart == ASSUME NEW r \in Sub!Row  PROVE r # Sub!NoRow
  BY DEF Sub!Row, Sub!NoRow

LEMMA MaxOfTwo == ASSUME NEW a \in Nat, NEW b \in Nat
                  PROVE  Sub!Max({a, b}) \in Nat /\ Sub!Max({a, b}) >= a /\ Sub!Max({a, b}) >= b
<1>1. \E x \in {a, b} : \A y \in {a, b} : x >= y  OBVIOUS
<1> QED  BY <1>1 DEF Sub!Max

(* A claim carries the due date past now.                                    *)
LEMMA NextAtPast ==
    ASSUME Sub!TypeOK, NEW s \in Sweeps, Ph(s) # "idle"
    PROVE  Sub!NextAt(s) \in Nat /\ Sub!NextAt(s) > now
<1>1. now \in Nat /\ MonthLen \in Nat \ {0} /\ sweep[s].seen.next \in Nat
  BY SweepFields, SubscriptionsAssumption DEF Sub!SubscriptionAssumption, Sub!TypeOK
<1> QED  BY <1>1 DEF Sub!NextAt, Sub!Seen

(* Usage is reported.                                                        *)
LEMMA ReportKeeps ==
    ASSUME MInv, NEW q \in Quantities, NEW b \in Sub!Modes, Sub!Report(q, b), Sub!Undisturbed'  PROVE MInv'
<1>1. Sub!TypeOK /\ q \in Nat /\ now \in Nat /\ MonthLen \in Nat
  BY SubscriptionsAssumption DEF MInv, Billed, Sub!SubscriptionAssumption, Sub!TypeOK
<1>2. UNCHANGED <<now, payer, sweep, crashes>> /\ payer  BY DEF Sub!Report
<1>3. CASE Sub!Live /\ row' = [row EXCEPT !.quantity = q, !.peak = Sub!Max({@, q})] /\ periods' = periods
  <2>1. Sub!Exists /\ row \in Sub!Row  BY <1>1, <1>3, RowFieldsTyped DEF Sub!Live
  <2>2. Sub!Max({row.peak, q}) \in Nat /\ Sub!Max({row.peak, q}) >= q  BY <1>1, <2>1, MaxOfTwo, RowFieldsTyped
  <2>3. row' \in Sub!Row /\ row'.next = row.next /\ row'.lastMode = row.lastMode /\ row'.status = row.status
        /\ row'.quantity = q /\ row'.peak >= q
    BY <1>1, <1>3, <2>1, <2>2 DEF Sub!Row
  <2>4. Sub!Exists' /\ Sub!Live'  BY <1>3, <2>3, NoRowApart DEF Sub!Exists, Sub!Live
  <2>5. Billed'  BY <1>1, <1>2, <1>3, <2>3, <2>4 DEF MInv, Billed, Sub!TypeOK, Sub!ChargedOncePerPeriod,
                    Sub!ElapsedMonthBilledByItsMode, Sub!PeakCoversUsage
  <2>6. OnePast' /\ HeldLast' /\ RowFollows'
    BY <1>2, <1>3, <2>1, <2>3, <2>4 DEF MInv, OnePast, HeldLast, RowFollows, Ph
  <2>7. \A s \in Sweeps : SeenDue(s)' /\ Holding(s)' /\ ReadInForce(s)'
    BY <1>2, <1>3, <2>1, <2>3, <2>4 DEF MInv, SeenDue, Holding, ReadInForce, Ph
  <2> QED  BY <2>5, <2>6, <2>7 DEF MInv
<1>4. CASE ~ Sub!Live /\ (\E l \in Nat : row' = Sub!Fresh(q, b, l)) /\ periods' = << >>
  <2>1. row' \in Sub!Row /\ row'.status = "active" /\ row'.quantity = q /\ row'.peak = q
    BY <1>1, <1>4 DEF Sub!Row, Sub!Fresh
  <2>2. Sub!Exists' /\ Sub!Live'  BY <2>1, NoRowApart DEF Sub!Exists, Sub!Live
  <2>3. Billed'
    <3>1. Sub!TypeOK'  BY <1>1, <1>2, <1>4, <2>1 DEF Sub!TypeOK
    <3>2. Sub!ChargedOncePerPeriod' /\ Sub!ElapsedMonthBilledByItsMode'
      BY <1>4 DEF Sub!ChargedOncePerPeriod, Sub!ElapsedMonthBilledByItsMode
    <3>3. Sub!PeakCoversUsage'  BY <1>1, <2>1 DEF Sub!PeakCoversUsage
    <3> QED  BY <3>1, <3>2, <3>3 DEF Billed
  <2>4. \A s \in Sweeps : Ph(s) \notin Past
    <3>1. CASE Sub!Exists  BY <1>4, <3>1 DEF MInv, OnePast
    <3>2. CASE ~ Sub!Exists  BY <1>2, <3>2 DEF MInv, RowFollows, Past, Claimed
    <3> QED  BY <3>1, <3>2
  <2>5. OnePast' /\ HeldLast' /\ RowFollows'
    BY <1>1, <1>2, <1>4, <2>1, <2>2, <2>4 DEF OnePast, HeldLast, RowFollows, Ph
  <2>6. \A s \in Sweeps : SeenDue(s)' /\ Holding(s)' /\ ReadInForce(s)'
    BY <1>2, <1>4, <2>4 DEF MInv, SeenDue, Holding, ReadInForce, Ph, Past
  <2> QED  BY <2>3, <2>5, <2>6 DEF MInv
<1>5. Sub!Exists => row.life + 1 \in Nat  BY <1>1, RowFieldsTyped
<1> QED  BY <1>3, <1>4, <1>5 DEF Sub!Report

(* Usage stops, the user is deleted, or time passes.                         *)
LEMMA UserKeeps ==
    ASSUME MInv, Sub!ReportZero \/ Sub!DeleteUser \/ Sub!Tick, Sub!Undisturbed'  PROVE MInv'
<1>1. Sub!TypeOK /\ now \in Nat  BY DEF MInv, Billed, Sub!TypeOK
<1>2. CASE Sub!ReportZero
  <2>1. Sub!Exists /\ row \in Sub!Row /\ row.peak \in Nat
        /\ row' = [row EXCEPT !.quantity = 0] /\ UNCHANGED <<now, payer, sweep, periods, crashes>>
    BY <1>1, <1>2, RowFieldsTyped DEF Sub!Live, Sub!ReportZero
  <2>2. row' \in Sub!Row /\ row'.next = row.next /\ row'.lastMode = row.lastMode /\ row'.status = row.status
        /\ row'.quantity = 0 /\ row'.peak = row.peak
    BY <2>1 DEF Sub!Row
  <2>3. Sub!Exists' /\ Sub!Live' = Sub!Live  BY <2>1, <2>2, NoRowApart DEF Sub!Exists, Sub!Live
  <2>4. Billed'  BY <1>1, <2>1, <2>2, <2>3 DEF MInv, Billed, Sub!TypeOK, Sub!ChargedOncePerPeriod,
                    Sub!ElapsedMonthBilledByItsMode, Sub!PeakCoversUsage
  <2>5. OnePast' /\ HeldLast' /\ RowFollows'
    BY <2>1, <2>2, <2>3 DEF MInv, OnePast, HeldLast, RowFollows, Ph
  <2>6. \A s \in Sweeps : SeenDue(s)' /\ Holding(s)' /\ ReadInForce(s)'
    BY <2>1, <2>2, <2>3 DEF MInv, SeenDue, Holding, ReadInForce, Ph
  <2> QED  BY <2>4, <2>5, <2>6 DEF MInv
<1>3. CASE Sub!DeleteUser
  <2>1. payer' = FALSE /\ row' = Sub!NoRow /\ periods' = << >> /\ UNCHANGED <<now, sweep, crashes>>
    BY <1>3 DEF Sub!DeleteUser
  <2>2. ~ Sub!Exists' /\ ~ Sub!Live'  BY <2>1 DEF Sub!Exists, Sub!Live
  <2>3. Billed'
    <3>1. payer' \in BOOLEAN /\ row' \in Sub!Row \cup {Sub!NoRow}  BY <2>1
    <3>4. periods' \in Seq(Sub!Period)  BY <2>1
    <3>3. Sub!TypeOK'  BY <1>1, <2>1, <3>1, <3>4 DEF Sub!TypeOK
    <3>2. Len(periods') = 0 /\ 1..(0 - 1) = {}  BY <2>1
    <3> QED  BY <2>2, <3>3, <3>2 DEF Billed, Sub!ChargedOncePerPeriod, Sub!ElapsedMonthBilledByItsMode, Sub!PeakCoversUsage
  <2>4. OnePast' /\ HeldLast' /\ RowFollows'  BY <2>1, <2>2 DEF OnePast, HeldLast, RowFollows
  <2>5. \A s \in Sweeps : SeenDue(s)' /\ Holding(s)' /\ ReadInForce(s)'
    BY <2>1, <2>2 DEF MInv, SeenDue, Holding, ReadInForce, Ph
  <2> QED  BY <2>3, <2>4, <2>5 DEF MInv
<1>4. CASE Sub!Tick
  <2>1. now' = now + 1 /\ UNCHANGED <<payer, row, sweep, periods, crashes>> /\ \A s \in Sweeps : Ph(s) = "idle"
    BY <1>4 DEF Sub!Tick, Ph, Sub!Phase
  <2>2. Billed'  BY <1>1, <2>1 DEF MInv, Billed, Sub!TypeOK, Sub!ChargedOncePerPeriod,
                    Sub!ElapsedMonthBilledByItsMode, Sub!PeakCoversUsage, Sub!Live, Sub!Exists
  <2>3. OnePast' /\ RowFollows'
    BY <2>1 DEF MInv, OnePast, RowFollows, Ph, Past, Claimed, Sub!Exists
  <2>4. HeldLast'
    <3>1. ASSUME NEW i \in 1..Len(periods)
          PROVE  periods[i].at <= now + 1 /\ (periods[i].by # NoSweep => i = Len(periods) /\ Ph(periods[i].by) \in Claimed)
      BY <1>1, <3>1, PeriodFields DEF MInv, HeldLast
    <3> QED  BY <2>1, <3>1 DEF HeldLast, Ph
  <2>5. \A s \in Sweeps : SeenDue(s)' /\ Holding(s)' /\ ReadInForce(s)'
    BY <2>1 DEF SeenDue, Holding, ReadInForce, Ph, Claimed
  <2> QED  BY <2>2, <2>3, <2>4, <2>5 DEF MInv
<1> QED  BY <1>2, <1>3, <1>4

(* A sweep reads the row and resolves the cost.                              *)
LEMMA ReadKeeps ==
    ASSUME MInv, NEW s \in Sweeps, Sub!Begin(s) \/ Sub!Resolve(s), Sub!Undisturbed'  PROVE MInv'
<1>1. Sub!TypeOK /\ now \in Nat  BY DEF MInv, Billed, Sub!TypeOK
<1>2. UNCHANGED <<now, payer, row, periods, crashes>>  BY DEF Sub!Begin, Sub!Resolve
<1>3. PICK c \in Sub!Call : /\ sweep' = [sweep EXCEPT ![s] = c] /\ c.phase \in {"read", "defer", "cancel", "claim"}
                            /\ \/ c.seen = row /\ Sub!Exists /\ row.next <= now
                               \/ Ph(s) = "read" /\ c.seen = sweep[s].seen
  <2>1. CASE Sub!Begin(s)
    <3>1. Sub!Exists /\ row \in Sub!Row /\ row.next <= now
      BY <1>1, <2>1, RowFieldsTyped DEF Sub!Begin, Sub!Due, Sub!Live
    <3>2. PICK c \in Sub!Call : c = [phase |-> "read", seen |-> row, mode |-> "advance"]
      BY <3>1 DEF Sub!Call, Sub!Modes
    <3> QED  BY <2>1, <3>1, <3>2 DEF Sub!Begin
  <2>2. CASE Sub!Resolve(s)
    <3>1. Ph(s) = "read" /\ sweep[s] \in Sub!Call  BY <1>1, <2>2, SweepFields DEF Sub!Resolve, Sub!Phase, Ph
    <3>2. PICK p \in {"defer", "cancel", "claim"}, m \in Sub!Modes :
            sweep' = [sweep EXCEPT ![s] = [sweep[s] EXCEPT !.phase = p, !.mode = m]]
      <4>1. CASE Sub!Goto(s, "defer") \/ Sub!Goto(s, "cancel")
        <5>1. \A p \in {"defer", "cancel"} : [sweep[s] EXCEPT !.phase = p] = [sweep[s] EXCEPT !.phase = p, !.mode = sweep[s].mode]
          BY <3>1 DEF Sub!Call
        <5> QED  BY <3>1, <4>1, <5>1, <1>1, SweepFields DEF Sub!Goto
      <4>2. CASE \E m \in Sub!Modes : sweep' = [sweep EXCEPT ![s].phase = "claim", ![s].mode = m]
        BY <3>1, <4>2, <1>1 DEF Sub!TypeOK
      <4> QED  BY <2>2, <4>1, <4>2 DEF Sub!Resolve
    <3>3. PICK c \in Sub!Call : c = [sweep[s] EXCEPT !.phase = p, !.mode = m]  BY <3>1 DEF Sub!Call
    <3> QED  BY <3>1, <3>2, <3>3 DEF Sub!Call
  <2> QED  BY <2>1, <2>2
<1>4. \A t \in Sweeps : sweep'[t] = IF t = s THEN c ELSE sweep[t]  BY <1>1, <1>3 DEF Sub!TypeOK
<1>5. \A t \in Sweeps : Ph(t)' \in Past => t # s  BY <1>3, <1>4 DEF Ph, Past, Claimed
<1>6. Ph(s) \notin Past
  BY <1>1, SweepFields DEF Sub!Begin, Sub!Resolve, Ph, Sub!Phase, Past, Claimed
<1>7. Billed'
  <2>1. Sub!TypeOK'  BY <1>1, <1>2, <1>3 DEF Sub!TypeOK
  <2> QED  BY <1>2, <2>1 DEF MInv, Billed, Sub!ChargedOncePerPeriod, Sub!ElapsedMonthBilledByItsMode,
               Sub!PeakCoversUsage, Sub!Live, Sub!Exists
<1>8. OnePast'  BY <1>2, <1>4, <1>5 DEF MInv, OnePast, Ph, Sub!Exists, Sub!Live
<1>9. HeldLast'
  <2>1. ASSUME NEW i \in 1..Len(periods), periods[i].by # NoSweep
        PROVE  i = Len(periods) /\ Ph(periods[i].by)' \in Claimed
    <3>1. i = Len(periods) /\ Ph(periods[i].by) \in Claimed /\ periods[i].by \in Sweeps
      BY <1>1, <2>1, PeriodFields DEF MInv, HeldLast
    <3> QED  BY <1>2, <1>4, <1>6, <3>1 DEF Ph, Past
  <2> QED  BY <1>2, <2>1 DEF MInv, HeldLast
<1>10. RowFollows'
  <2>1. ~ Sub!Exists => ~ payer
    BY <1>1, <1>3 DEF MInv, RowFollows
  <2> QED  BY <1>2, <2>1 DEF MInv, RowFollows, Sub!Exists
<1>11. ASSUME NEW t \in Sweeps  PROVE SeenDue(t)' /\ Holding(t)' /\ ReadInForce(t)'
  <2>1. CASE t = s
    <3>1. Ph(t)' \notin Claimed  BY <1>5, <2>1 DEF Past
    <3>2. c.seen = sweep[s].seen /\ Ph(s) = "read" => SeenDue(s) /\ ReadInForce(s)  BY DEF MInv
    <3> QED  BY <1>2, <1>3, <1>4, <2>1, <3>1, <3>2 DEF SeenDue, Holding, ReadInForce, Ph, Sub!Exists
  <2>2. CASE t # s
    BY <1>2, <1>4, <2>2 DEF MInv, SeenDue, Holding, ReadInForce, Ph, Sub!Exists
  <2> QED  BY <2>1, <2>2
<1> QED  BY <1>7, <1>8, <1>9, <1>10, <1>11 DEF MInv

(* A sweep that ends: it puts the row off, cancels it, settles or dies.      *)
LEMMA EndFacts ==
    ASSUME Sub!TypeOK, NEW s \in Sweeps, Sub!End(s)
    PROVE  /\ sweep' \in [Sweeps -> Sub!Call \cup {Sub!Idle}]
           /\ \A t \in Sweeps : sweep'[t] = IF t = s THEN Sub!Idle ELSE sweep[t]
           /\ Ph(s)' = "idle" /\ \A t \in Sweeps \ {s} : Ph(t)' = Ph(t)
  BY DEF Sub!TypeOK, Sub!End, Sub!Idle, Ph

LEMMA EndKeeps ==
    ASSUME MInv, NEW s \in Sweeps, Sub!Defer(s) \/ Sub!CancelGone(s) \/ Sub!Settle(s), Sub!Undisturbed'
    PROVE  MInv'
<1>1. Sub!TypeOK /\ now \in Nat /\ HourLen \in Nat \ {0}
  BY SubscriptionsAssumption DEF MInv, Billed, Sub!TypeOK, Sub!SubscriptionAssumption
<1>2. UNCHANGED <<now, payer, periods, crashes>> /\ Sub!End(s)  BY DEF Sub!Defer, Sub!CancelGone, Sub!Settle
<1>3. /\ sweep' \in [Sweeps -> Sub!Call \cup {Sub!Idle}]
      /\ \A t \in Sweeps : sweep'[t] = IF t = s THEN Sub!Idle ELSE sweep[t]
      /\ Ph(s)' = "idle" /\ \A t \in Sweeps \ {s} : Ph(t)' = Ph(t)
  BY <1>1, <1>2, EndFacts
<1>4. Ph(s) \in {"defer", "cancel", "settle"}  BY DEF Sub!Defer, Sub!CancelGone, Sub!Settle, Sub!Phase, Ph
<1>5. HeldLast'
  <2>1. ASSUME NEW i \in 1..Len(periods), periods[i].by # NoSweep
        PROVE  i = Len(periods) /\ Ph(periods[i].by)' \in Claimed
    <3>1. i = Len(periods) /\ Ph(periods[i].by) \in Claimed /\ periods[i].by \in Sweeps
      BY <1>1, <2>1, PeriodFields DEF MInv, HeldLast
    <3> QED  BY <1>2, <1>3, <1>4, <3>1 DEF Claimed, Ph
  <2> QED  BY <1>2, <2>1 DEF MInv, HeldLast
<1>6. \A t \in Sweeps : SeenDue(t)'
  BY <1>2, <1>3 DEF MInv, SeenDue, Ph
<1>7. CASE ~ Sub!Exists
  <2>1. row' = row /\ ~ Sub!Exists'
    BY <1>7 DEF Sub!Defer, Sub!CancelGone, Sub!Settle, Sub!Write, Sub!Exists
  <2>2. Billed'
    <3>1. Sub!TypeOK'  BY <1>1, <1>2, <1>3, <2>1 DEF Sub!TypeOK
    <3> QED  BY <1>2, <2>1, <3>1 DEF MInv, Billed, Sub!ChargedOncePerPeriod, Sub!ElapsedMonthBilledByItsMode,
               Sub!PeakCoversUsage, Sub!Live, Sub!Exists
  <2>3. ~ payer  BY <1>4, <1>7 DEF MInv, RowFollows
  <2>4. OnePast' /\ RowFollows' /\ \A t \in Sweeps : Holding(t)' /\ ReadInForce(t)'
    BY <1>2, <1>7, <2>1, <2>3 DEF MInv, OnePast, RowFollows, Holding, ReadInForce
  <2> QED  BY <1>5, <1>6, <2>2, <2>4 DEF MInv
<1>8. ASSUME Sub!Exists, row' \in Sub!Row, row'.lastMode = row.lastMode,
             row'.next = row.next \/ (row.next <= row'.next /\ row'.next = now + HourLen),
             row'.peak >= row'.quantity,
             (\E t \in Sweeps \ {s} : Ph(t) \in Past) => row'.status = row.status
      PROVE  MInv'
  <2>1. Sub!Exists' /\ row.next \in Nat /\ row'.next \in Nat /\ now + HourLen > now
    BY <1>1, <1>8, NoRowApart, RowFieldsTyped DEF Sub!Exists, Sub!Row
  <2>2. Billed'
    <3>1. Sub!TypeOK'  BY <1>1, <1>2, <1>3, <1>8 DEF Sub!TypeOK
    <3> QED  BY <1>2, <1>8, <3>1 DEF MInv, Billed, Sub!ChargedOncePerPeriod, Sub!ElapsedMonthBilledByItsMode,
               Sub!PeakCoversUsage
  <2>3. OnePast'
    <3>1. ASSUME NEW t \in Sweeps, Ph(t)' \in Past  PROVE t # s /\ Ph(t) \in Past
      BY <1>3, <3>1 DEF Past, Claimed
    <3>2. ASSUME NEW t \in Sweeps, Ph(t)' \in Past  PROVE Sub!Live' /\ row'.next > now'
      <4>1. Sub!Live /\ row.next > now /\ row'.status = row.status  BY <1>8, <3>1, <3>2 DEF MInv, OnePast
      <4> QED  BY <1>2, <1>8, <2>1, <4>1 DEF Sub!Live
    <3> QED  BY <1>8, <3>1, <3>2 DEF MInv, OnePast
  <2>4. RowFollows'
    <3>1. periods # << >> => periods[Len(periods)].until <= row'.next
      <4>1. ASSUME periods # << >>  PROVE periods[Len(periods)].until <= row'.next
        <5>1. Len(periods) \in 1..Len(periods)  BY <1>1, <4>1 DEF Sub!TypeOK
        <5>2. periods[Len(periods)].until \in Nat  BY <1>1, <5>1, PeriodFields
        <5>3. periods[Len(periods)].until <= row.next  BY <4>1 DEF MInv, RowFollows
        <5> QED  BY <1>8, <2>1, <5>2, <5>3
      <4> QED  BY <4>1
    <3> QED  BY <1>2, <1>8, <2>1, <3>1 DEF MInv, RowFollows
  <2>5. ASSUME NEW t \in Sweeps  PROVE Holding(t)' /\ ReadInForce(t)'
    <3>1. CASE t = s  BY <1>3, <3>1 DEF Holding, ReadInForce, Claimed
    <3>2. CASE t # s
      <4>1. sweep'[t] = sweep[t] /\ Ph(t)' = Ph(t)  BY <1>3, <3>2
      <4>2. Holding(t)'  BY <1>2, <1>8, <4>1 DEF MInv, Holding
      <4>3. Ph(t) # "idle" => sweep[t].seen.next <= now /\ sweep[t].seen.next \in Nat
        BY <1>1, SweepFields DEF MInv, SeenDue
      <4>4. Ph(t) # "idle" /\ row'.next = sweep[t].seen.next => row'.next = row.next  BY <1>1, <1>8, <2>1, <4>3
      <4> QED  BY <1>2, <1>8, <4>1, <4>2, <4>4 DEF MInv, ReadInForce
    <3> QED  BY <3>1, <3>2
  <2> QED  BY <1>5, <1>6, <2>2, <2>3, <2>4, <2>5 DEF MInv
<1>9. CASE Sub!Defer(s) /\ Sub!Exists
  <2>1. row' = [row EXCEPT !.next = now + HourLen]  BY <1>9 DEF Sub!Defer, Sub!Write
  <2>2. row \in Sub!Row /\ row.next \in Nat  BY <1>1, <1>9, RowFieldsTyped
  <2>3. now + HourLen \in Nat  BY <1>1
  <2>4. row' \in Sub!Row /\ row'.lastMode = row.lastMode /\ row'.next = now + HourLen /\ row'.status = row.status
        /\ row'.peak = row.peak /\ row'.quantity = row.quantity
    BY <2>1, <2>2, <2>3 DEF Sub!Row
  <2>5. row.next \in {sweep[s].seen.next, now + HourLen}
    BY <1>9 DEF MInv, Sub!Undisturbed, Sub!Defer, Sub!Phase, Sub!Seen
  <2>6. sweep[s].seen.next <= now /\ sweep[s].seen.next \in Nat  BY <1>1, <1>4, SweepFields DEF MInv, SeenDue
  <2>7. row.next <= row'.next  BY <1>1, <2>3, <2>4, <2>5, <2>6
  <2>8. row'.peak >= row'.quantity  BY <1>9, <2>4 DEF MInv, RowFollows
  <2> QED  BY <1>8, <1>9, <2>4, <2>7, <2>8
<1>10. CASE Sub!CancelGone(s) /\ Sub!Exists
  <2>1. row' = [row EXCEPT !.status = "canceled"]  BY <1>10 DEF Sub!CancelGone, Sub!Write
  <2>2. row \in Sub!Row /\ row.next \in Nat  BY <1>1, <1>10, RowFieldsTyped
  <2>3. row' \in Sub!Row /\ row'.lastMode = row.lastMode /\ row'.next = row.next /\ row'.status = "canceled"
        /\ row'.peak = row.peak /\ row'.quantity = row.quantity
    BY <2>1, <2>2 DEF Sub!Row
  <2>4. row.next = sweep[s].seen.next
    BY <1>10 DEF MInv, Sub!Undisturbed, Sub!CancelGone, Sub!Phase, Sub!Seen
  <2>5. sweep[s].seen.next <= now /\ sweep[s].seen.next \in Nat  BY <1>1, <1>4, SweepFields DEF MInv, SeenDue
  <2>6. \A t \in Sweeps : Ph(t) \notin Past  BY <1>1, <1>10, <2>4, <2>5 DEF MInv, OnePast
  <2>7. row'.peak >= row'.quantity  BY <1>10, <2>3 DEF MInv, RowFollows
  <2> QED  BY <1>8, <1>10, <2>3, <2>6, <2>7
<1>11. CASE Sub!Settle(s) /\ Sub!Exists
  <2>1. row' = [row EXCEPT !.peak = row.quantity, !.status = IF row.quantity = 0 THEN "canceled" ELSE @]
    BY <1>11 DEF Sub!Settle, Sub!Write, Sub!Settled
  <2>2. row \in Sub!Row /\ row.quantity \in Nat /\ row.status \in {"active", "past_due", "canceled"}
    BY <1>1, <1>11, RowFieldsTyped
  <2>3. row' \in Sub!Row /\ row'.lastMode = row.lastMode /\ row'.next = row.next
        /\ row'.peak = row.quantity /\ row'.quantity = row.quantity
    BY <2>1, <2>2 DEF Sub!Row
  <2>4. Ph(s) \in Past  BY <1>11 DEF Sub!Settle, Sub!Phase, Ph, Past
  <2>5. \A t \in Sweeps \ {s} : Ph(t) \notin Past  BY <1>11, <2>4 DEF MInv, OnePast
  <2>6. row'.peak >= row'.quantity  BY <2>2, <2>3
  <2> QED  BY <1>8, <1>11, <2>3, <2>5, <2>6
<1> QED  BY <1>7, <1>9, <1>10, <1>11

LEMMA LetGoFacts ==
    ASSUME Sub!TypeOK, NEW s \in Sweeps, Sub!LetGo(s)
    PROVE  /\ periods' \in Seq(Sub!Period) /\ Len(periods') = Len(periods)
           /\ periods' # << >> <=> periods # << >>
           /\ \A i \in 1..Len(periods) :
                 /\ periods'[i].at = periods[i].at /\ periods'[i].until = periods[i].until
                 /\ periods'[i].mode = periods[i].mode /\ periods'[i].elapsed = periods[i].elapsed
                 /\ periods'[i].by = IF periods[i].by = s THEN NoSweep ELSE periods[i].by
<1>1. periods \in Seq(Sub!Period) /\ DOMAIN periods = 1..Len(periods) /\ Len(periods) \in Nat
  BY DEF Sub!TypeOK
<1>2. \A i \in 1..Len(periods) : periods'[i] = IF periods[i].by = s THEN [periods[i] EXCEPT !.by = NoSweep] ELSE periods[i]
  BY <1>1 DEF Sub!LetGo
<1>3. \A i \in 1..Len(periods) :
         /\ periods'[i] \in Sub!Period
         /\ periods'[i].at = periods[i].at /\ periods'[i].until = periods[i].until
         /\ periods'[i].mode = periods[i].mode /\ periods'[i].elapsed = periods[i].elapsed
         /\ periods'[i].by = IF periods[i].by = s THEN NoSweep ELSE periods[i].by
  <2> TAKE i \in 1..Len(periods)
  <2>1. PICK p \in Sub!Period : p = periods[i]  BY <1>1
  <2>2. PICK o \in Sweeps \cup {NoSweep} : o = IF p.by = s THEN NoSweep ELSE p.by  BY DEF Sub!Period
  <2>3. PICK n \in Sub!Period : n = [p EXCEPT !.by = o]  BY DEF Sub!Period
  <2>4. n.at = p.at /\ n.until = p.until /\ n.mode = p.mode /\ n.elapsed = p.elapsed /\ n.by = o  BY <2>3 DEF Sub!Period
  <2>5. p.by # s => n = p  BY <2>2, <2>3 DEF Sub!Period
  <2>6. periods'[i] = n  BY <1>2, <2>1, <2>2, <2>3, <2>5
  <2> QED  BY <2>1, <2>2, <2>4, <2>6
<1>4. periods' \in [1..Len(periods) -> Sub!Period]  BY <1>1, <1>3 DEF Sub!LetGo
<1>5. periods' \in Seq(Sub!Period) /\ Len(periods') = Len(periods)  BY <1>1, <1>4
<1>6. periods' # << >> <=> periods # << >>  BY <1>1, <1>5
<1> QED  BY <1>3, <1>5, <1>6

(* One sweep lets go of its period and comes to no other phase past its      *)
(* claim, or stays past it.                                                  *)
LEMMA LettingGoKeeps ==
    ASSUME MInv, NEW s \in Sweeps, Sub!LetGo(s), UNCHANGED <<now, payer, row>>, crashes' \in Nat, Ph(s) # "idle",
           NEW c \in Sub!Call \cup {Sub!Idle}, sweep' = [sweep EXCEPT ![s] = c],
           c = Sub!Idle \/ (Ph(s) \in Past /\ c.phase = "settle" /\ c.seen = sweep[s].seen),
           Sub!Undisturbed'
    PROVE  MInv'
<1>1. Sub!TypeOK /\ now \in Nat  BY DEF MInv, Billed, Sub!TypeOK
<1>2. /\ periods' \in Seq(Sub!Period) /\ Len(periods') = Len(periods) /\ Len(periods) \in Nat
      /\ periods' # << >> <=> periods # << >>
      /\ \A i \in 1..Len(periods) :
            /\ periods'[i].at = periods[i].at /\ periods'[i].until = periods[i].until
            /\ periods'[i].mode = periods[i].mode /\ periods'[i].elapsed = periods[i].elapsed
            /\ periods'[i].by = IF periods[i].by = s THEN NoSweep ELSE periods[i].by
  BY <1>1, LetGoFacts DEF Sub!TypeOK
<1>3. /\ \A t \in Sweeps : sweep'[t] = IF t = s THEN c ELSE sweep[t]
      /\ \A t \in Sweeps \ {s} : Ph(t)' = Ph(t)
      /\ Ph(s)' \in {"idle", "settle"} /\ (Ph(s)' = "settle" => Ph(s) \in Past /\ sweep'[s].seen = sweep[s].seen)
  BY <1>1 DEF Sub!TypeOK, Ph, Sub!Idle
<1>4. Billed'
  <2>1. Sub!TypeOK'  BY <1>1, <1>2 DEF Sub!TypeOK
  <2>2. Sub!ChargedOncePerPeriod' /\ Sub!ElapsedMonthBilledByItsMode'
    <3>1. ASSUME NEW i \in 1..Len(periods) - 1
          PROVE  periods'[i + 1].at >= periods'[i].until /\ (periods'[i + 1].elapsed <=> periods'[i].mode = "arrears")
      <4>1. i \in 1..Len(periods) /\ i + 1 \in 1..Len(periods)  BY <1>2
      <4> QED  BY <1>2, <3>1, <4>1 DEF MInv, Billed, Sub!ChargedOncePerPeriod, Sub!ElapsedMonthBilledByItsMode
    <3> QED  BY <1>2, <3>1 DEF Sub!ChargedOncePerPeriod, Sub!ElapsedMonthBilledByItsMode
  <2> QED  BY <2>1, <2>2 DEF MInv, Billed, Sub!PeakCoversUsage, Sub!Live, Sub!Exists
<1>5. OnePast'
  <2>1. \A t \in Sweeps : Ph(t)' \in Past => Ph(t) \in Past  BY <1>3 DEF Past, Claimed
  <2> QED  BY <2>1 DEF MInv, OnePast, Sub!Live, Sub!Exists
<1>6. HeldLast'
  <2>1. ASSUME NEW i \in 1..Len(periods), periods'[i].by # NoSweep
        PROVE  i = Len(periods') /\ sweep'[periods'[i].by].phase \in Claimed
    <3>1. PICK t \in Sweeps \ {s} : t = periods[i].by /\ t = periods'[i].by  BY <1>1, <1>2, <2>1, PeriodFields
    <3>2. i = Len(periods) /\ Ph(t) \in Claimed  BY <1>2, <2>1, <3>1 DEF MInv, HeldLast
    <3>3. Ph(t)' \in Claimed  BY <1>3, <3>1, <3>2
    <3> QED  BY <1>2, <3>1, <3>2, <3>3 DEF Ph
  <2>2. \A i \in 1..Len(periods) : periods'[i].at <= now'  BY <1>2 DEF MInv, HeldLast
  <2> QED  BY <1>2, <2>1, <2>2 DEF HeldLast, Ph
<1>7. RowFollows'
  <2>1. periods # << >> => Len(periods) \in 1..Len(periods)  BY <1>1 DEF Sub!TypeOK
  <2>2. ~ Sub!Exists /\ payer => \A t \in Sweeps : Ph(t) = "idle"  BY DEF MInv, RowFollows
  <2> QED  BY <1>2, <2>1, <2>2 DEF MInv, RowFollows, Sub!Exists
<1>8. ASSUME NEW t \in Sweeps  PROVE SeenDue(t)' /\ Holding(t)' /\ ReadInForce(t)'
  <2>1. CASE t = s
    <3>1. SeenDue(s) /\ ReadInForce(s)  BY DEF MInv
    <3>2. SeenDue(s)' /\ Holding(s)'  BY <1>3, <3>1 DEF SeenDue, Holding, Ph, Claimed, Past
    <3>3. ReadInForce(s)'  BY <1>2, <1>3, <3>1 DEF ReadInForce, Ph, Sub!Exists
    <3> QED  BY <2>1, <3>2, <3>3
  <2>2. CASE t # s
    <3>1. sweep'[t] = sweep[t] /\ Ph(t)' = Ph(t) /\ SeenDue(t) /\ Holding(t) /\ ReadInForce(t)
      BY <1>3, <2>2 DEF MInv
    <3>2. Holding(t)'
      <4>1. ASSUME Sub!Exists, Ph(t) \in Claimed
            PROVE  /\ periods' # << >> /\ periods'[Len(periods')].by = t
                   /\ Len(periods') > 1 => sweep'[t].seen.lastMode = periods'[Len(periods') - 1].mode
        <5>1. periods # << >> /\ periods[Len(periods)].by = t
              /\ (Len(periods) > 1 => sweep[t].seen.lastMode = periods[Len(periods) - 1].mode)
          BY <3>1, <4>1 DEF Holding
        <5>2. Len(periods) \in 1..Len(periods)  BY <1>1, <5>1 DEF Sub!TypeOK
        <5>3. Len(periods) > 1 => Len(periods) - 1 \in 1..Len(periods)  BY <1>2
        <5> QED  BY <1>2, <2>2, <3>1, <5>1, <5>2, <5>3
      <4> QED  BY <3>1, <4>1 DEF Holding, Sub!Exists
    <3> QED  BY <1>2, <3>1, <3>2 DEF SeenDue, ReadInForce, Sub!Exists
  <2> QED  BY <2>1, <2>2
<1> QED  BY <1>4, <1>5, <1>6, <1>7, <1>8 DEF MInv

LEMMA SpendKeeps ==
    ASSUME MInv, NEW s \in Sweeps, Sub!Spend(s) \/ Sub!Crash(s), Sub!Undisturbed'  PROVE MInv'
<1>1. Sub!TypeOK /\ now \in Nat /\ crashes \in Nat  BY DEF MInv, Billed, Sub!TypeOK
<1>2. CASE Sub!Crash(s)
  <2>1. PICK c \in Sub!Call \cup {Sub!Idle} : c = Sub!Idle  OBVIOUS
  <2>2. crashes' \in Nat /\ Ph(s) # "idle" /\ Sub!LetGo(s) /\ UNCHANGED <<now, payer, row>>
        /\ sweep' = [sweep EXCEPT ![s] = c]
    BY <1>1, <1>2, <2>1 DEF Sub!Crash, Sub!End, Ph, Sub!Phase
  <2> QED  BY <2>1, <2>2, LettingGoKeeps
<1>3. ASSUME Sub!Spend(s)  PROVE Ph(s) = "spend" /\ sweep[s] \in Sub!Call /\ UNCHANGED <<now, payer, row, crashes>>
  BY <1>1, <1>3, SweepFields DEF Sub!Spend, Ph, Sub!Phase
<1>4. CASE Sub!Spend(s) /\ Sub!LetGo(s) /\ Sub!Goto(s, "settle")
  <2>1. PICK c \in Sub!Call : c = [sweep[s] EXCEPT !.phase = "settle"]  BY <1>3, <1>4 DEF Sub!Call
  <2>2. c.phase = "settle" /\ c.seen = sweep[s].seen  BY <1>3, <1>4, <2>1 DEF Sub!Call
  <2>3. sweep' = [sweep EXCEPT ![s] = c]  BY <1>4, <2>1 DEF Sub!Goto
  <2>4. Ph(s) \in Past /\ Ph(s) # "idle" /\ crashes' \in Nat  BY <1>1, <1>3, <1>4 DEF Past, Claimed
  <2> QED  BY <1>3, <1>4, <2>1, <2>2, <2>3, <2>4, LettingGoKeeps
<1>5. CASE Sub!Spend(s) /\ Sub!Goto(s, "rollback") /\ periods' = periods
  <2>1. PICK c \in Sub!Call : c = [sweep[s] EXCEPT !.phase = "rollback"]  BY <1>3, <1>5 DEF Sub!Call
  <2>2. c.phase = "rollback" /\ c.seen = sweep[s].seen  BY <1>3, <1>5, <2>1 DEF Sub!Call
  <2>3. sweep' = [sweep EXCEPT ![s] = c]  BY <1>5, <2>1 DEF Sub!Goto
  <2>4. \A t \in Sweeps : /\ sweep'[t].seen = sweep[t].seen /\ (Ph(t)' = "idle" <=> Ph(t) = "idle")
                         /\ (Ph(t)' \in Past <=> Ph(t) \in Past) /\ (Ph(t)' \in Claimed <=> Ph(t) \in Claimed)
    BY <1>1, <1>3, <1>5, <2>2, <2>3 DEF Ph, Past, Claimed, Sub!TypeOK
  <2>5. Sub!TypeOK'  BY <1>1, <1>3, <1>5, <2>3 DEF Sub!TypeOK
  <2>6. UNCHANGED <<now, payer, row, periods>>  BY <1>3, <1>5
  <2>7. Billed'
    BY <2>5, <2>6 DEF MInv, Billed, Sub!ChargedOncePerPeriod, Sub!ElapsedMonthBilledByItsMode, Sub!PeakCoversUsage,
                      Sub!Live, Sub!Exists
  <2>8. OnePast' /\ RowFollows'
    BY <2>4, <2>6 DEF MInv, OnePast, RowFollows, Sub!Live, Sub!Exists
  <2>9. HeldLast'
    <3>1. ASSUME NEW i \in 1..Len(periods), periods[i].by # NoSweep
          PROVE  i = Len(periods) /\ Ph(periods[i].by)' \in Claimed
      <4>1. PICK t \in Sweeps : t = periods[i].by  BY <1>1, <3>1, PeriodFields
      <4>2. i = Len(periods) /\ Ph(t) \in Claimed  BY <3>1, <4>1 DEF MInv, HeldLast
      <4> QED  BY <2>4, <2>6, <4>1, <4>2 DEF Ph
    <3> QED  BY <2>6, <3>1 DEF MInv, HeldLast
  <2>10. \A t \in Sweeps : SeenDue(t)' /\ Holding(t)' /\ ReadInForce(t)'
    BY <2>4, <2>6 DEF MInv, SeenDue, Holding, ReadInForce, Sub!Exists
  <2> QED  BY <2>7, <2>8, <2>9, <2>10 DEF MInv
<1> QED  BY <1>2, <1>4, <1>5 DEF Sub!Spend

LEMMA RollbackKeeps ==
    ASSUME MInv, NEW s \in Sweeps, Sub!Rollback(s), Sub!Undisturbed'  PROVE MInv'
<1>1. Sub!TypeOK /\ now \in Nat /\ DayLen \in Nat \ {0} /\ Len(periods) \in Nat /\ periods \in Seq(Sub!Period)
  BY SubscriptionsAssumption DEF MInv, Billed, Sub!TypeOK, Sub!SubscriptionAssumption
<1>2. UNCHANGED <<now, payer, crashes>> /\ Sub!End(s) /\ Ph(s) = "rollback"
  BY DEF Sub!Rollback, Ph, Sub!Phase
<1>3. /\ sweep' \in [Sweeps -> Sub!Call \cup {Sub!Idle}]
      /\ \A t \in Sweeps : sweep'[t] = IF t = s THEN Sub!Idle ELSE sweep[t]
      /\ Ph(s)' = "idle" /\ \A t \in Sweeps \ {s} : Ph(t)' = Ph(t)
  BY <1>1, <1>2, EndFacts
<1>4. \A t \in Sweeps : SeenDue(t)'
  BY <1>2, <1>3 DEF MInv, SeenDue, Ph
<1>5. CASE ~ Sub!Exists
  <2>1. row' = row /\ ~ Sub!Exists' /\ periods = << >> /\ periods' = periods
    BY <1>5 DEF Sub!Rollback, Sub!Write, Sub!Exists, Sub!Undone, MInv, RowFollows
  <2>2. Billed'
    <3>1. Sub!TypeOK'  BY <1>1, <1>2, <1>3, <2>1 DEF Sub!TypeOK
    <3> QED  BY <1>2, <2>1, <3>1 DEF MInv, Billed, Sub!ChargedOncePerPeriod, Sub!ElapsedMonthBilledByItsMode,
               Sub!PeakCoversUsage, Sub!Live, Sub!Exists
  <2>3. ~ payer  BY <1>2, <1>5 DEF MInv, RowFollows
  <2>4. OnePast' /\ HeldLast' /\ RowFollows' /\ \A t \in Sweeps : Holding(t)' /\ ReadInForce(t)'
    BY <1>2, <1>5, <2>1, <2>3 DEF MInv, OnePast, HeldLast, RowFollows, Holding, ReadInForce
  <2> QED  BY <1>4, <2>2, <2>4 DEF MInv
<1>6. CASE Sub!Exists
  <2>1. row' = [row EXCEPT !.status = "past_due", !.next = now + DayLen, !.lastMode = sweep[s].seen.lastMode]
    BY <1>6 DEF Sub!Rollback, Sub!Write, Sub!RolledBack, Sub!Seen
  <2>2. row \in Sub!Row /\ row.next \in Nat  BY <1>1, <1>6, RowFieldsTyped
  <2>3. now + DayLen \in Nat /\ now + DayLen > now  BY <1>1
  <2>4. sweep[s].seen.lastMode \in Sub!Modes \cup {"null"}  BY <1>1, <1>2, SweepFields
  <2>5. row' \in Sub!Row /\ row'.lastMode = sweep[s].seen.lastMode /\ row'.next = now + DayLen
        /\ row'.status = "past_due" /\ row'.peak = row.peak /\ row'.quantity = row.quantity
    BY <2>1, <2>2, <2>3, <2>4 DEF Sub!Row
  <2>6. Sub!Exists' /\ Sub!Live  BY <1>2, <1>6, <2>5, NoRowApart DEF Sub!Exists, MInv, OnePast, Past, Claimed
  <2>7. /\ periods # << >> /\ periods[Len(periods)].by = s
        /\ Len(periods) > 1 => sweep[s].seen.lastMode = periods[Len(periods) - 1].mode
    BY <1>2, <1>6 DEF MInv, Holding, Claimed
  <2>8. periods' = SubSeq(periods, 1, Len(periods) - 1)
    BY <1>1, <2>7 DEF Sub!Rollback, Sub!Undone, Sub!Last, Sub!Front
  <2>9. /\ periods' \in Seq(Sub!Period) /\ Len(periods') = Len(periods) - 1 /\ Len(periods) >= 1
        /\ \A i \in 1..Len(periods) - 1 : periods'[i] = periods[i]
    <3>1. Len(periods) >= 1 /\ Len(periods) - 1 \in Nat /\ Len(periods) - 1 <= Len(periods)  BY <1>1, <2>7
    <3>2. Len(periods') = Len(periods) - 1
      <4>1. CASE Len(periods) = 1  BY <1>1, <2>8, <4>1
      <4>2. CASE Len(periods) - 1 >= 1  BY <1>1, <2>8, <4>2
      <4>3. \A l \in Nat : l >= 1 => l = 1 \/ l - 1 >= 1  OBVIOUS
      <4>4. Len(periods) = 1 \/ Len(periods) - 1 >= 1  BY <1>1, <3>1, <4>3
      <4> QED  BY <4>1, <4>2, <4>4
    <3>3. \A i \in 1..Len(periods) - 1 : periods'[i] = periods[i]  BY <1>1, <2>8, <3>1
    <3>4. periods' \in Seq(Sub!Period)  BY <1>1, <2>8, <3>1
    <3> QED  BY <3>1, <3>2, <3>3, <3>4
  <2>10. \A t \in Sweeps : Ph(t)' \notin Past
    <3>1. Ph(s) \in Past  BY <1>2 DEF Past, Claimed
    <3>2. \A t \in Sweeps \ {s} : Ph(t) \notin Past  BY <1>6, <3>1 DEF MInv, OnePast
    <3> QED  BY <1>3, <3>2 DEF Past, Claimed
  <2>11. Billed'
    <3>1. Sub!TypeOK'  BY <1>1, <1>2, <1>3, <2>5, <2>9 DEF Sub!TypeOK
    <3>2. Sub!ChargedOncePerPeriod' /\ Sub!ElapsedMonthBilledByItsMode'
      <4>1. ASSUME NEW i \in 1..Len(periods) - 2
            PROVE  periods'[i + 1].at >= periods'[i].until /\ (periods'[i + 1].elapsed <=> periods'[i].mode = "arrears")
        <5>1. i \in 1..Len(periods) - 1 /\ i + 1 \in 1..Len(periods) - 1  BY <1>1
        <5> QED  BY <2>9, <5>1 DEF MInv, Billed, Sub!ChargedOncePerPeriod, Sub!ElapsedMonthBilledByItsMode
      <4>2. Len(periods') - 1 = Len(periods) - 2  BY <1>1, <2>9
      <4> QED  BY <4>1, <4>2 DEF Sub!ChargedOncePerPeriod, Sub!ElapsedMonthBilledByItsMode
    <3>3. Sub!PeakCoversUsage'  BY <2>5, <2>6 DEF MInv, Billed, Sub!PeakCoversUsage
    <3> QED  BY <3>1, <3>2, <3>3 DEF Billed
  <2>12. OnePast'  BY <2>10 DEF OnePast
  <2>13. HeldLast'
    <3>1. ASSUME NEW i \in 1..Len(periods) - 1  PROVE periods[i].at <= now /\ periods[i].by = NoSweep
      <4>1. i \in 1..Len(periods) /\ i # Len(periods)  BY <1>1
      <4> QED  BY <4>1 DEF MInv, HeldLast
    <3> QED  BY <1>2, <2>9, <3>1 DEF HeldLast
  <2>14. RowFollows'
    <3>1. ASSUME periods' # << >>
          PROVE  row'.lastMode = periods'[Len(periods')].mode /\ periods'[Len(periods')].until <= row'.next
      <4>1. Len(periods) - 1 >= 1 /\ Len(periods) > 1  BY <1>1, <2>9, <3>1
      <4>2. Len(periods) - 1 \in 1..Len(periods) - 1 /\ Len(periods) - 1 \in 1..Len(periods)  BY <1>1, <4>1
      <4>3. periods'[Len(periods')] = periods[Len(periods) - 1]  BY <2>9, <4>2
      <4>4. Len(periods) - 1 + 1 = Len(periods) /\ Len(periods) \in 1..Len(periods)  BY <1>1, <4>1
      <4>5. periods[Len(periods)].at >= periods[Len(periods) - 1].until
        BY <4>2, <4>4 DEF MInv, Billed, Sub!ChargedOncePerPeriod
      <4>6. periods[Len(periods)].at <= now  BY <4>4 DEF MInv, HeldLast
      <4>7. periods[Len(periods)].at \in Nat /\ periods[Len(periods) - 1].until \in Nat
        BY <1>1, <4>2, <4>4, PeriodFields
      <4>8. periods[Len(periods) - 1].until <= now + DayLen  BY <1>1, <2>3, <4>5, <4>6, <4>7
      <4> QED  BY <2>5, <2>7, <4>1, <4>3, <4>8
    <3> QED  BY <1>2, <1>6, <2>5, <2>6, <3>1 DEF MInv, RowFollows
  <2>15. ASSUME NEW t \in Sweeps  PROVE Holding(t)' /\ ReadInForce(t)'
    <3>1. Holding(t)'  BY <2>10 DEF Holding, Past
    <3>2. CASE t = s  BY <1>3, <3>1, <3>2 DEF ReadInForce
    <3>3. CASE t # s
      <4>1. Ph(t) # "idle" => sweep[t].seen.next <= now /\ sweep[t].seen.next \in Nat
        BY <1>1, SweepFields DEF MInv, SeenDue
      <4>2. Ph(t)' # "idle" => row'.next # sweep'[t].seen.next  BY <1>1, <1>3, <2>3, <2>5, <3>3, <4>1
      <4> QED  BY <3>1, <4>2 DEF ReadInForce
    <3> QED  BY <3>1, <3>2, <3>3
  <2> QED  BY <1>4, <2>11, <2>12, <2>13, <2>14, <2>15 DEF MInv
<1> QED  BY <1>5, <1>6

(* The claim that loses finds the due date moved; the one that wins finds no *)
(* other past its claim.                                                     *)
LEMMA ClaimKeeps ==
    ASSUME MInv, NEW s \in Sweeps, Sub!Claim(s), Sub!Undisturbed'  PROVE MInv'
<1>1. Sub!TypeOK /\ now \in Nat /\ Len(periods) \in Nat /\ periods \in Seq(Sub!Period)
  BY DEF MInv, Billed, Sub!TypeOK
<1>2. UNCHANGED <<now, payer, crashes>> /\ Ph(s) = "claim" /\ Ph(s) # "idle"
  BY DEF Sub!Claim, Ph, Sub!Phase
<1>3. /\ sweep[s] \in Sub!Call /\ sweep[s].seen \in Sub!Row /\ sweep[s].mode \in Sub!Modes
      /\ sweep[s].seen.next \in Nat /\ sweep[s].seen.next <= now
      /\ sweep[s].seen.lastMode \in Sub!Modes \cup {"null"}
  BY <1>1, <1>2, SweepFields DEF MInv, SeenDue
<1>4. Ph(s) \notin Past  BY <1>2 DEF Past, Claimed
<1>5. CASE ~ Sub!Unclaimed(s)
  <2>1. Sub!End(s) /\ UNCHANGED <<row, periods>>  BY <1>5 DEF Sub!Claim
  <2>2. /\ sweep' \in [Sweeps -> Sub!Call \cup {Sub!Idle}]
        /\ \A t \in Sweeps : sweep'[t] = IF t = s THEN Sub!Idle ELSE sweep[t]
        /\ Ph(s)' = "idle" /\ \A t \in Sweeps \ {s} : Ph(t)' = Ph(t)
    BY <1>1, <2>1, EndFacts
  <2>3. Billed'
    <3>1. Sub!TypeOK'  BY <1>1, <1>2, <2>1, <2>2 DEF Sub!TypeOK
    <3> QED  BY <1>2, <2>1, <3>1 DEF MInv, Billed, Sub!ChargedOncePerPeriod, Sub!ElapsedMonthBilledByItsMode,
               Sub!PeakCoversUsage, Sub!Live, Sub!Exists
  <2>4. OnePast'
    <3>1. \A t \in Sweeps : Ph(t)' \in Past => t # s /\ Ph(t) \in Past  BY <2>2 DEF Past, Claimed
    <3> QED  BY <1>2, <2>1, <3>1 DEF MInv, OnePast, Sub!Live, Sub!Exists
  <2>5. HeldLast'
    <3>1. ASSUME NEW i \in 1..Len(periods), periods[i].by # NoSweep
          PROVE  i = Len(periods) /\ sweep'[periods[i].by].phase \in Claimed
      <4>1. PICK t \in Sweeps : t = periods[i].by  BY <1>1, <3>1, PeriodFields
      <4>2. i = Len(periods) /\ Ph(t) \in Claimed  BY <3>1, <4>1 DEF MInv, HeldLast
      <4>3. t # s  BY <1>4, <4>2 DEF Past
      <4> QED  BY <2>2, <4>1, <4>2, <4>3 DEF Ph
    <3> QED  BY <1>2, <2>1, <3>1 DEF MInv, HeldLast, Ph
  <2>6. RowFollows'
    <3>1. ~ Sub!Exists => ~ payer  BY <1>2 DEF MInv, RowFollows
    <3> QED  BY <1>2, <2>1, <3>1 DEF MInv, RowFollows, Sub!Exists
  <2>7. ASSUME NEW t \in Sweeps  PROVE SeenDue(t)' /\ Holding(t)' /\ ReadInForce(t)'
    <3>1. CASE t = s  BY <2>2, <3>1 DEF SeenDue, Holding, ReadInForce, Claimed
    <3>2. CASE t # s
      BY <1>2, <2>1, <2>2, <3>2 DEF MInv, SeenDue, Holding, ReadInForce, Ph, Sub!Exists
    <3> QED  BY <3>1, <3>2
  <2> QED  BY <2>3, <2>4, <2>5, <2>6, <2>7 DEF MInv
<1>6. CASE Sub!Unclaimed(s)
  <2>1. Sub!Exists /\ row.next = sweep[s].seen.next  BY <1>6 DEF Sub!Unclaimed, Sub!Seen
  <2>2. PICK n \in Nat, m \in Sub!Modes, by \in {s, NoSweep}, ph \in {"spend", "settle"}, e \in BOOLEAN :
          /\ n = Sub!NextAt(s) /\ m = sweep[s].mode /\ e = Sub!BillsElapsed(s)
          /\ (by # NoSweep => ph = "spend") /\ (ph = "spend" => by = s)
          /\ row' = [row EXCEPT !.next = n, !.lastMode = m, !.status = "active"]
          /\ periods' = Append(periods, [by |-> by, at |-> now, until |-> n, mode |-> m, elapsed |-> e])
          /\ Sub!Goto(s, ph)
    <3>1. Sub!NextAt(s) \in Nat  BY <1>1, <1>2, NextAtPast
    <3>2. Sub!BillsElapsed(s) \in BOOLEAN  BY DEF Sub!BillsElapsed
    <3>3. CASE Sub!Amount(s) > 0  BY <1>3, <1>6, <3>1, <3>2, <3>3 DEF Sub!Claim, Sub!Mode
    <3>4. CASE ~ Sub!Amount(s) > 0  BY <1>3, <1>6, <3>1, <3>2, <3>4 DEF Sub!Claim, Sub!Mode
    <3> QED  BY <3>3, <3>4
  <2>3. n > now  BY <1>1, <1>2, <2>2, NextAtPast
  <2>4. PICK p \in Sub!Period : p = [by |-> by, at |-> now, until |-> n, mode |-> m, elapsed |-> e]
    BY <1>1 DEF Sub!Period
  <2>5. p.by = by /\ p.at = now /\ p.until = n /\ p.mode = m /\ p.elapsed = e  BY <2>4
  <2>6. /\ periods' \in Seq(Sub!Period) /\ Len(periods') = Len(periods) + 1 /\ periods'[Len(periods) + 1] = p
        /\ \A i \in 1..Len(periods) : periods'[i] = periods[i]
        /\ periods' # << >>
    BY <1>1, <2>2, <2>4
  <2>7. row \in Sub!Row /\ row.next \in Nat  BY <1>1, <2>1, RowFieldsTyped
  <2>8. /\ row' \in Sub!Row /\ row'.lastMode = m /\ row'.next = n /\ row'.status = "active"
        /\ row'.peak = row.peak /\ row'.quantity = row.quantity
    BY <2>2, <2>7 DEF Sub!Row
  <2>9. Sub!Exists' /\ Sub!Live'  BY <2>8, NoRowApart DEF Sub!Exists, Sub!Live
  <2>10. PICK c \in Sub!Call : c = [sweep[s] EXCEPT !.phase = ph]  BY <1>3 DEF Sub!Call
  <2>11. c.phase = ph /\ c.seen = sweep[s].seen  BY <1>3, <2>10 DEF Sub!Call
  <2>12. sweep' \in [Sweeps -> Sub!Call \cup {Sub!Idle}] /\ \A t \in Sweeps : sweep'[t] = IF t = s THEN c ELSE sweep[t]
    BY <1>1, <2>2, <2>10 DEF Sub!Goto, Sub!TypeOK
  <2>13. \A t \in Sweeps : Ph(t) \notin Past
    BY <1>1, <1>3, <2>1, <2>7 DEF MInv, OnePast
  <2>14. \A t \in Sweeps : Ph(t)' \in Past => t = s  BY <2>12, <2>13 DEF Ph
  <2>15. \A i \in 1..Len(periods) : periods[i].by = NoSweep
    <3>1. ASSUME NEW i \in 1..Len(periods), periods[i].by # NoSweep  PROVE FALSE
      <4>1. PICK t \in Sweeps : t = periods[i].by  BY <1>1, <3>1, PeriodFields
      <4>2. Ph(t) \in Claimed  BY <3>1, <4>1 DEF MInv, HeldLast
      <4> QED  BY <2>13, <4>2 DEF Past
    <3> QED  BY <3>1
  <2>16. periods # << >> => /\ Len(periods) \in 1..Len(periods)
                            /\ sweep[s].seen.lastMode = periods[Len(periods)].mode
                            /\ periods[Len(periods)].until <= row.next
    <3>1. periods # << >> => Len(periods) \in 1..Len(periods)  BY <1>1
    <3>2. periods # << >> => row.lastMode = periods[Len(periods)].mode /\ periods[Len(periods)].until <= row.next
      BY DEF MInv, RowFollows
    <3>3. periods # << >> => sweep[s].seen.lastMode = row.lastMode  BY <1>2, <2>1 DEF MInv, ReadInForce
    <3> QED  BY <3>1, <3>2, <3>3
  <2>17. Billed'
    <3>1. Sub!TypeOK'  BY <1>1, <1>2, <2>6, <2>8, <2>12 DEF Sub!TypeOK
    <3>2. ASSUME NEW i \in 1..Len(periods)
          PROVE  periods'[i + 1].at >= periods'[i].until /\ (periods'[i + 1].elapsed <=> periods'[i].mode = "arrears")
      <4>1. CASE i = Len(periods)
        <5>1. periods # << >>  BY <1>1, <4>1
        <5>2. periods[i].until <= now
          <6>1. periods[i].until \in Nat  BY <1>1, PeriodFields
          <6> QED  BY <1>1, <1>3, <2>1, <2>16, <4>1, <5>1, <6>1
        <5>3. e <=> periods[i].mode = "arrears"
          <6>1. periods[i].mode \in Sub!Modes /\ sweep[s].seen.lastMode = periods[i].mode
            BY <1>1, <2>16, <4>1, <5>1, PeriodFields
          <6> QED  BY <1>3, <2>2, <6>1 DEF Sub!BillsElapsed, Sub!Mode, Sub!Seen, Sub!Modes
        <5>4. periods'[i + 1].at = now /\ periods'[i + 1].elapsed = e /\ periods'[i] = periods[i]
          BY <2>5, <2>6, <4>1
        <5>5. periods[i].until \in Nat  BY <1>1, PeriodFields
        <5> QED  BY <1>1, <5>2, <5>3, <5>4, <5>5
      <4>2. CASE i # Len(periods)
        <5>1. i \in 1..Len(periods) - 1 /\ i + 1 \in 1..Len(periods)  BY <1>1, <4>2
        <5> QED  BY <2>6, <5>1 DEF MInv, Billed, Sub!ChargedOncePerPeriod, Sub!ElapsedMonthBilledByItsMode
      <4> QED  BY <4>1, <4>2
    <3>3. Len(periods') - 1 = Len(periods)  BY <1>1, <2>6
    <3>4. Sub!ChargedOncePerPeriod' /\ Sub!ElapsedMonthBilledByItsMode'
      BY <3>2, <3>3 DEF Sub!ChargedOncePerPeriod, Sub!ElapsedMonthBilledByItsMode
    <3>5. Sub!PeakCoversUsage'
      <4>1. row.peak >= row.quantity  BY <2>1 DEF MInv, RowFollows
      <4> QED  BY <2>8, <4>1 DEF Sub!PeakCoversUsage
    <3> QED  BY <3>1, <3>4, <3>5 DEF Billed
  <2>18. OnePast'  BY <1>2, <2>3, <2>8, <2>9, <2>14 DEF OnePast
  <2>19. HeldLast'
    <3>1. ASSUME NEW i \in 1..Len(periods')
          PROVE  /\ periods'[i].at <= now
                 /\ periods'[i].by # NoSweep => i = Len(periods') /\ sweep'[periods'[i].by].phase \in Claimed
      <4>1. CASE i \in 1..Len(periods)  BY <2>6, <2>15, <4>1 DEF MInv, HeldLast
      <4>2. CASE i = Len(periods) + 1
        <5>1. periods'[i] = p /\ now <= now  BY <1>1, <2>6, <4>2
        <5>2. by # NoSweep => by = s /\ c.phase \in Claimed  BY <2>2, <2>11 DEF Claimed
        <5> QED  BY <2>5, <2>6, <2>12, <4>2, <5>1, <5>2
      <4> QED  BY <1>1, <2>6, <4>1, <4>2
    <3> QED  BY <1>2, <3>1 DEF HeldLast, Ph
  <2>20. RowFollows'
    <3>1. n <= n /\ periods'[Len(periods')] = p  BY <2>6
    <3>2. payer  BY <2>1 DEF MInv, RowFollows
    <3>3. row.peak >= row.quantity  BY <2>1 DEF MInv, RowFollows
    <3> QED  BY <1>2, <2>5, <2>6, <2>8, <2>9, <3>1, <3>2, <3>3 DEF RowFollows
  <2>21. ASSUME NEW t \in Sweeps  PROVE SeenDue(t)' /\ Holding(t)' /\ ReadInForce(t)'
    <3>1. SeenDue(t) /\ (Ph(t) # "idle" => sweep[t].seen.next \in Nat)  BY <1>1, SweepFields DEF MInv
    <3>2. sweep'[t].seen = sweep[t].seen \/ t # s  BY <2>11, <2>12
    <3>3. SeenDue(t)'  BY <1>2, <1>3, <2>11, <2>12, <3>1 DEF SeenDue, Ph
    <3>4. Ph(t)' # "idle" => row'.next # sweep'[t].seen.next
      BY <1>1, <1>3, <2>3, <2>8, <2>11, <2>12, <3>1 DEF SeenDue, Ph
    <3>5. Holding(t)'
      <4>1. ASSUME Ph(t)' \in Claimed
            PROVE  /\ periods'[Len(periods')].by = t
                   /\ Len(periods') > 1 => sweep'[t].seen.lastMode = periods'[Len(periods') - 1].mode
        <5>1. t = s  BY <2>14, <4>1 DEF Past
        <5>2. ph = "spend"  BY <2>11, <2>12, <4>1, <5>1 DEF Ph, Claimed
        <5>3. periods'[Len(periods')].by = s  BY <2>2, <2>5, <2>6, <5>2
        <5>4. Len(periods') > 1 => /\ periods # << >> /\ Len(periods') - 1 = Len(periods)
                                   /\ periods'[Len(periods)] = periods[Len(periods)]
          BY <1>1, <2>6
        <5> QED  BY <2>11, <2>12, <2>16, <5>1, <5>3, <5>4
      <4> QED  BY <2>6, <4>1 DEF Holding
    <3> QED  BY <3>3, <3>4, <3>5 DEF ReadInForce
  <2> QED  BY <2>17, <2>18, <2>19, <2>20, <2>21 DEF MInv
<1> QED  BY <1>5, <1>6

(* As long as no other sweep bills the row, and no user starts it anew,      *)
(* while a sweep is about to put it off or to end it: for any sweeps,        *)
(* usage, costs, calendar and crashes, a period is claimed only once the one *)
(* before is over, an elapsed month is billed by the mode it was used under, *)
(* and the peak covers the usage.                                            *)
THEOREM MonthsHold == Sub!UndisturbedSpec => []MonthsBilled
<1>1. Sub!Init => MInv
  <2> SUFFICES ASSUME Sub!Init  PROVE MInv
    OBVIOUS
  <2> USE DEF Sub!Init
  <2>1. Sub!TypeOK /\ ~ Sub!Exists /\ periods = << >> /\ Len(periods) = 0
    BY DEF Sub!TypeOK, Sub!Exists
  <2>2. \A s \in Sweeps : Ph(s) = "idle"  BY DEF Ph, Sub!Idle
  <2>3. Billed
    BY <2>1 DEF Billed, Sub!ChargedOncePerPeriod, Sub!ElapsedMonthBilledByItsMode, Sub!PeakCoversUsage, Sub!Live
  <2>4. OnePast /\ HeldLast /\ RowFollows /\ Sub!Undisturbed
    BY <2>1, <2>2 DEF OnePast, HeldLast, RowFollows, Sub!Undisturbed
  <2>5. \A s \in Sweeps : SeenDue(s) /\ Holding(s) /\ ReadInForce(s)
    BY <2>1, <2>2 DEF SeenDue, Holding, ReadInForce
  <2> QED  BY <2>3, <2>4, <2>5 DEF MInv
<1>2. MInv /\ [Sub!Next /\ Sub!Undisturbed']_(Sub!vars) => MInv'
  <2> SUFFICES ASSUME MInv, [Sub!Next /\ Sub!Undisturbed']_(Sub!vars)  PROVE MInv'
    OBVIOUS
  <2>1. CASE UNCHANGED Sub!vars
    <3>1. UNCHANGED <<now, payer, row, sweep, periods, crashes>>  BY <2>1 DEF Sub!vars
    <3>2. Billed'  BY <3>1 DEF MInv, Billed, Sub!TypeOK, Sub!ChargedOncePerPeriod, Sub!ElapsedMonthBilledByItsMode,
                     Sub!PeakCoversUsage, Sub!Live, Sub!Exists
    <3>3. OnePast' /\ HeldLast' /\ RowFollows' /\ Sub!Undisturbed'
      BY <3>1 DEF MInv, OnePast, HeldLast, RowFollows, Sub!Undisturbed, Sub!Live, Sub!Exists, Ph, Sub!Phase, Sub!Seen
    <3>4. \A s \in Sweeps : SeenDue(s)' /\ Holding(s)' /\ ReadInForce(s)'
      BY <3>1 DEF MInv, SeenDue, Holding, ReadInForce, Sub!Exists, Ph
    <3> QED  BY <3>2, <3>3, <3>4 DEF MInv
  <2>2. CASE Sub!Next /\ Sub!Undisturbed'
    BY <2>2, ReportKeeps, UserKeeps, ReadKeeps, EndKeeps, SpendKeeps, RollbackKeeps, ClaimKeeps
       DEF Sub!Next, Sub!SweepStep
  <2> QED  BY <2>1, <2>2
<1>3. MInv => MonthsBilled
  BY DEF MInv, Billed, MonthsBilled, Sub!MonthsBilled
<1> QED  BY <1>1, <1>2, <1>3, PTL DEF Sub!UndisturbedSpec
=============================================================================
