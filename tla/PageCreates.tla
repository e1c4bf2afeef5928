---------------------------- MODULE PageCreates ----------------------------
(***************************************************************************)
(* Creates that are counted and paid for, on top of the draft pages        *)
(* (crud.ts POST /pages, features/plugins/api/create.ts,                   *)
(* page-create-evidence.ts, page-duplicate-evidence.ts, limits.ts,         *)
(* features/credits/services.ts), and the single-use token of a form a     *)
(* plugin serves (routes/admin-proxy.ts, core/durable-objects/form-once.ts).*)
(*                                                                         *)
(* The charge is one transaction, the pages another; the answer of either  *)
(* may be lost.  The admin form and the plugin API differ in what they do  *)
(* then, and in whether their batch repeats the checks made before it.     *)
(***************************************************************************)
EXTENDS PageContent

CONSTANTS Tokens,    \* single-use tokens of rendered forms
          Price,     \* of one page of the type
          Funds,     \* what the payer has
          Limit,     \* the type's quota
          MaxPlan,   \* bound: pages of one create
          MaxFaults  \* bound: calls that fail or whose answer is lost

CreatesAssumption == /\ PagesAssumption /\ Limit \in Nat /\ MaxPlan \in Nat \ {0}
                     /\ Price \in Nat /\ Funds \in Nat /\ "none" \notin Tokens

VARIABLES books,  \* by "form", "api": [net, made], what was charged and the pages written (ghost, but for what the payer has left)
          claims, \* tokens held in their Durable Object
          old,    \* tokens past the time they verify in
          forms,  \* token -> [pages, failures]: pages made by its submissions, failures reported (ghost)
          doubts, \* calls whose outcome nobody knows (ghost)
          faults

money == <<books, doubts>>
once == <<claims, old, forms>>
creates == <<money, once, faults>>
Left == Funds - books["form"].net - books["api"].net
Still == UNCHANGED creates
Fault == faults < MaxFaults /\ faults' = faults + 1
NoFault == UNCHANGED faults

\* What a call did and what its caller saw of it; a lost answer may hide either.
Outcomes(may) == {[did |-> may, seen |-> IF may THEN "done" ELSE "refused"],
                  [did |-> may, seen |-> "unknown"], [did |-> FALSE, seen |-> "unknown"]}
Faulty(o) == IF o.seen = "unknown" THEN Fault ELSE NoFault
Doubt(o) == doubts' = IF o.seen = "unknown" THEN doubts + 1 ELSE doubts
Charge(who, n) == books' = [books EXCEPT ![who].net = @ + Price * n]
Over == Cardinality(DOMAIN pages)

\* Reading and planning touch nothing of the content.
Apart == UNCHANGED <<rows, served>> /\ Rest
End(r, q) == IF q.token = "none" THEN Done(r) ELSE Goto(r, [pc |-> "answer"])

-----------------------------------------------------------------------------
\* POST /pages. The quota is counted, the price taken, the slug chosen; the
\* batch checks none of them.
StartNew(r) == Begin(r, [kind |-> "new", pc |-> "count", token |-> "none"]) /\ UNCHANGED rows /\ Rest /\ Still
CheckCreateLimits(r) ==
    /\ At(r, "new", "count")
    /\ IF Over + 1 <= Limit THEN Goto(r, [pc |-> "reserve"]) ELSE Done(r)
    /\ Apart /\ Still
\* reservePageCreate: outside the handler's try, so a failure ends the request
ReserveNew(r) ==
    /\ At(r, "new", "reserve")
    /\ \E o \in Outcomes(Price <= Left) :
        /\ IF o.did THEN Charge("form", 1) ELSE UNCHANGED books
        /\ IF o.seen = "done" THEN Goto(r, [pc |-> "prepare"]) ELSE Done(r)
        /\ Faulty(o) /\ Doubt(o)
    /\ Apart /\ UNCHANGED once
PrepareNew(r) ==
    /\ At(r, "new", "prepare")
    /\ Goto(r, IF allowed THEN [pc |-> "write", slug |-> FreeSlug(0)] ELSE [pc |-> "refund"])
    /\ Apart /\ Still
WriteNew(r) ==
    /\ At(r, "new", "write")
    /\ \E o \in Outcomes(allowed), p \in Fresh :
        /\ IF o.did THEN /\ Created(p, edits + 1, req[r].slug) /\ edits' = edits + 1
                         /\ books' = [books EXCEPT !["form"].made = @ + 1]
                    ELSE UNCHANGED <<rows, books>>
        /\ IF o.seen = "done" THEN Done(r) ELSE Goto(r, [pc |-> "refund"])
        /\ Faulty(o) /\ Doubt(o)
    /\ UNCHANGED served /\ Rest /\ UNCHANGED once
\* whatever was thrown
RefundNew(r) ==
    /\ At(r, "new", "refund") /\ Charge("form", -1) /\ Done(r)
    /\ Apart /\ UNCHANGED <<doubts, once, faults>>

-----------------------------------------------------------------------------
\* createPages and duplicatePluginPages: a plan of ids and slugs, an admission
\* batch, the reservation, then one batch (a copy: one per chunk).
Asks == {"api", "copy", "form"}
StartApi(r) ==
    /\ \E kind \in {"api", "copy"} : Begin(r, [kind |-> kind, pc |-> "plan", token |-> "none"])
    /\ UNCHANGED rows /\ Rest /\ Still
\* allocateSlug: the n lowest free ones; reservedPageIds: ids not in use
LowestFree(n) == {s \in [1..n -> 1..(Cardinality(Pages) + MaxPlan)] :
                    /\ \A i, j \in 1..n : i < j => s[i] < s[j]
                    /\ \A i \in 1..n : s[i] \notin Taken(0) /\ \A t \in 1..(s[i] - 1) : t \in Taken(0) \/ \E j \in 1..n : s[j] = t}
InOrder(ids) == {s \in [1..Cardinality(ids) -> ids] : \A i, j \in DOMAIN s : i < j => s[i] < s[j]}
Planned(r, ids, sources) ==
    \E I \in InOrder(ids), S \in LowestFree(Cardinality(ids)) :
        Goto(r, [pc |-> "admit", plan |-> [i \in 1..Cardinality(ids) |-> [id |-> I[i], slug |-> S[i]]],
                 sources |-> sources, written |-> 0, charged |-> 0])
\* Bound: the lowest or the highest of the ids not in use, so that two plans may collide or not.
NewIds(n) == {ids \in SUBSET (Pages \ born) : Cardinality(ids) = n
              /\ \/ \A i \in ids, j \in (Pages \ born) \ ids : i < j
                 \/ \A i \in ids, j \in (Pages \ born) \ ids : j < i}
Plan(r) ==
    /\ req[r].kind \in Asks /\ req[r].pc = "plan"
    /\ IF req[r].kind = "copy"
       THEN \E n \in {Cardinality(DOMAIN pages)} \ {0} :
                \E ids \in NewIds(IF n < MaxPlan THEN n ELSE MaxPlan) : Planned(r, ids, pages)
       ELSE \E n \in 1..(IF req[r].kind = "api" THEN MaxPlan ELSE 1) : \E ids \in NewIds(n) : Planned(r, ids, << >>)
    /\ Apart /\ Still
Chunk(q) == IF q.kind = "copy" THEN SubSeq(q.plan, q.written + 1, q.written + 1) ELSE q.plan
\* mutant: the slugs are planned free, and not looked for again at the commit
AdmittedUnowned(q) ==
    /\ allowed /\ Over + Len(Chunk(q)) <= Limit
    /\ \A x \in ToSet(Chunk(q)) : x.id \notin DOMAIN pages
    /\ q.kind = "copy" => \A p \in DOMAIN q.sources : p \in DOMAIN pages /\ pages[p] = q.sources[p]
\* admission: authority, ids and slugs absent, the quota, the rows copied
Admitted(q) ==
    /\ allowed /\ Over + Len(Chunk(q)) <= Limit
    /\ \A x \in ToSet(Chunk(q)) : x.id \notin DOMAIN pages /\ x.slug \notin Taken(0)
    /\ q.kind = "copy" => \A p \in DOMAIN q.sources : p \in DOMAIN pages /\ pages[p] = q.sources[p]
PreparePluginPageCreates(r) ==
    LET q == req[r]
    IN  /\ q.kind \in Asks /\ q.pc = "admit"
        /\ IF Admitted(q) /\ Over + Len(q.plan) <= Limit THEN Goto(r, [pc |-> "reserve"]) ELSE End(r, q)
        /\ Apart /\ Still
ReservePageCreates(r) ==
    LET q == req[r] n == Len(q.plan)
    IN  /\ q.kind \in Asks /\ q.pc = "reserve"
        /\ \E o \in Outcomes(Price * n <= Left) :
            /\ IF o.did THEN Charge("api", n) ELSE UNCHANGED books
            /\ IF o.seen = "done" THEN Goto(r, [pc |-> "write", charged |-> n]) ELSE End(r, q)
            /\ Faulty(o) /\ Doubt(o)
        /\ Apart /\ UNCHANGED once
Inserted(chunk, n) ==
    LET at(p) == CHOOSE i \in DOMAIN chunk : chunk[i].id = p
        new == {chunk[i].id : i \in DOMAIN chunk}
    IN  /\ pages' = With(pages, [p \in new |-> [text |-> n, tags |-> n, weight |-> 5, name |-> 1, slug |-> chunk[at(p)].slug]])
        /\ versions' = versions \cup {[Version(p, n) EXCEPT !.id = @ + at(p)] : p \in new}
        /\ born' = born \cup new
\* commitPluginPageCreates. An error of the database itself is a known refusal;
\* any other, once the batch was sent, is not.
CommitPluginPageCreates(r) ==
    LET q == req[r] chunk == Chunk(q) n == Len(chunk)
        finished == q.written + n = Len(q.plan)
    IN  /\ q.kind \in Asks /\ q.pc = "write"
        /\ \E o \in Outcomes(Admitted(q)) :
            /\ IF o.did THEN /\ Inserted(chunk, edits + 1) /\ edits' = edits + 1
                             /\ books' = [books EXCEPT !["api"].made = @ + n]
                             /\ forms' = IF q.token = "none" THEN forms ELSE [forms EXCEPT ![q.token].pages = @ + n]
                        ELSE UNCHANGED <<rows, books, forms>>
            /\ CASE o.seen = "done" -> IF finished THEN End(r, q) ELSE Goto(r, [written |-> q.written + n])
                 [] o.seen = "refused" -> Goto(r, [pc |-> "refund"])
                 [] OTHER -> Goto(r, [pc |-> "withhold"])
            /\ Faulty(o) /\ Doubt(o)
        /\ UNCHANGED <<served, claims, old>> /\ Rest
\* mutant: a failure is refunded whether or not it is known to be one
RefundableAny(q) == q.pc \in {"refund", "withhold"}
Refundable(q) == q.pc = "refund"
\* What a copy has written stays charged; a refund may fail.
Settle(r) ==
    LET q == req[r]
    IN  /\ q.kind \in Asks /\ q.pc \in {"refund", "withhold"}
        /\ IF Refundable(q)
           THEN \/ Charge("api", q.written - q.charged) /\ UNCHANGED <<doubts, faults>>
                \/ Fault /\ doubts' = doubts + 1 /\ UNCHANGED books
           ELSE UNCHANGED <<money, faults>>
        /\ End(r, q) /\ Apart /\ UNCHANGED once

-----------------------------------------------------------------------------
\* A form a plugin serves is submitted, or submitted again; its worker asks for a page.
Submit(r) ==
    /\ \E t \in Tokens : Begin(r, [kind |-> "form", pc |-> "claim", token |-> t, claimed |-> FALSE])
    /\ UNCHANGED rows /\ Rest /\ Still
Used(t) == t \in claims
\* claimFormOnceToken: one transaction of the Durable Object, whose answer may be lost
Claim(r) ==
    LET q == req[r]
    IN  /\ q.kind = "form" /\ q.pc = "claim"
        /\ \/ q.token \in old /\ Goto(r, [pc |-> "disclose"]) /\ UNCHANGED <<claims, faults>>
           \/ q.token \notin old /\ Used(q.token) /\ Done(r) /\ UNCHANGED <<claims, faults>>
           \/ q.token \notin old /\ ~ Used(q.token) /\ claims' = claims \cup {q.token}
              /\ \/ Goto(r, [pc |-> "disclose", claimed |-> TRUE]) /\ NoFault
                 \/ Done(r) /\ Fault
        /\ Apart /\ UNCHANGED <<money, old, forms>>
\* a claim is given back after a failure, unless that call fails in turn
Release(q) == IF q.claimed THEN \/ claims' = claims \ {q.token} /\ NoFault
                                \/ Fault /\ UNCHANGED claims
              ELSE UNCHANGED claims /\ NoFault
\* auditPluginDisclosure refuses, or the request goes to the worker
Disclose(r) ==
    /\ At(r, "form", "disclose")
    /\ \/ Goto(r, [pc |-> "plan"]) /\ UNCHANGED <<claims, faults>>
       \/ Done(r) /\ Release(req[r])
    /\ Apart /\ UNCHANGED <<money, old, forms>>
\* The worker answers as it likes, whatever became of the page, or the answer is lost.
Answer(r) ==
    LET q == req[r]
    IN  /\ At(r, "form", "answer") /\ Done(r)
        /\ \/ UNCHANGED <<claims, forms, faults>>
           \/ Release(q) /\ forms' = [forms EXCEPT ![q.token].failures = @ + 1]
        /\ Apart /\ UNCHANGED <<money, old>>
\* 30 minutes: a token no longer verifies; its claim, made later, may then go
Age == /\ \E t \in Tokens : "age" \in plan.kinds /\ t \notin old /\ old' = old \cup {t}
       /\ UNCHANGED <<rows, req, served, money, claims, forms, faults>> /\ Rest
Alarm == /\ claims \cap old # {} /\ claims' = claims \ old
         /\ UNCHANGED <<rows, req, served, money, old, forms, faults>> /\ Rest

-----------------------------------------------------------------------------
CreatesInit == /\ Init
               /\ books = [who \in {"form", "api"} |-> [net |-> 0, made |-> 0]]
               /\ claims = {} /\ old = {} /\ forms = [t \in Tokens |-> [pages |-> 0, failures |-> 0]]
               /\ doubts = 0 /\ faults = 0
Paying(r) == \/ StartNew(r) \/ CheckCreateLimits(r) \/ ReserveNew(r) \/ PrepareNew(r) \/ WriteNew(r) \/ RefundNew(r)
             \/ StartApi(r) \/ Plan(r) \/ PreparePluginPageCreates(r) \/ ReservePageCreates(r)
             \/ CommitPluginPageCreates(r) \/ Settle(r)
             \/ Submit(r) \/ Claim(r) \/ Disclose(r) \/ Answer(r)
CreatesNext == \/ Next /\ Still
               \/ \E r \in Requests : Paying(r)
               \/ Age \/ Alarm
CreatesSpec == CreatesInit /\ [][CreatesNext]_<<vars, creates>>

-----------------------------------------------------------------------------
\* A page made through the plugin API is paid for, whatever answers are lost,
\* and when nothing was in doubt a request that made fewer pages than it asked
\* for, or none, has paid for no more than it made.
PaidFor(who) == books[who].net >= Price * books[who].made
Quiet == \A r \in Requests : req[r] = Idle
ApiPagesArePaid == /\ PaidFor("api") /\ Left >= 0
                   /\ Quiet /\ doubts = 0 => books["api"].net = Price * books["api"].made

\* What an API create was admitted for still holds when it lands: the quota,
\* one owner of every slug, every page of the chunk or none.
PlansLandAsAdmitted ==
    [][\A r \in Requests : req[r].kind \in Asks /\ req[r].pc = "write" /\ req'[r] # req[r] /\ rows' # rows =>
        /\ Cardinality(DOMAIN pages') <= Limit
        /\ \A x \in ToSet(Chunk(req[r])) : {p \in DOMAIN pages' : pages'[p].slug = x.slug} = {x.id}]_vars

\* However often and however concurrently a form is submitted, it makes one
\* page, and another only after a failure was reported or its token aged.
FormMakesOnePage == \A t \in Tokens \ old : forms[t].pages <= 1 + forms[t].failures
CreatesSound == ApiPagesArePaid /\ FormMakesOnePage
=============================================================================
