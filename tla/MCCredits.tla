----------------------------- MODULE MCCredits -----------------------------
(***************************************************************************)
(* Instances of Credits: two users and one or two currencies.              *)
(***************************************************************************)
EXTENDS Credits

CONSTANTS u1, u2, credit, diamond

P(c, n) == [currency |-> c, amount |-> n]

Spend(u, parts, rows) == [kind |-> "spend", user |-> u, parts |-> parts, rows |-> rows]

Move(kind, from, to, c, n) ==
    [kind |-> kind, from |-> from, to |-> to, currency |-> c, amount |-> n]

(* u1 can pay 3 credits but not 5 and no diamonds; the pool pays one of     *)
(* two concurrent 4-credit requests, and has few diamonds.                  *)
MCOpening ==
    [a \in Accounts |->
       CASE a = <<u1, credit>>   -> 3
         [] a = <<Pool, credit>> -> 6
         [] a = <<u2, diamond>>  -> 2
         [] OTHER                -> 1]

SpendRequests ==
    { Spend(u1, <<P(credit, 3), P(diamond, 1)>>, 2),
      Spend(u1, <<P(credit, 5), P(diamond, 2)>>, 3),
      Spend(u1, <<P(credit, 4)>>, 1),
      Spend(u2, <<P(credit, 1), P(diamond, 2)>>, 1) }

MoveRequests ==
    { Move("move", u1, u2, credit, 2), Move("move", u2, Pool, diamond, 2),
      Move("move", Pool, u1, credit, 5) }

AdminRequests ==
    { Move("admin", Outside, u1, credit, 2), Move("admin", u1, Outside, credit, 2),
      Move("admin", Pool, u1, credit, 4), Move("admin", u1, u2, credit, 3) }

AllRequests == SpendRequests \cup MoveRequests \cup AdminRequests

PoolSpendOnly == { Spend(u1, <<P(credit, 5), P(diamond, 2)>>, 1) }

ShareOnly == { Move("move", Pool, u1, credit, 5) }
=============================================================================
