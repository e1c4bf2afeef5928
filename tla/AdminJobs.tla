----------------------------- MODULE AdminJobs -----------------------------
(***************************************************************************)
(* Background jobs (features/jobs).  A job is a row of admin_jobs and a    *)
(* message that names it.  Whoever handles a message claims the row, does  *)
(* one slice of a bulk page action (or replays one plugin request), and    *)
(* either requeues the row with its cursor advanced and sends the next     *)
(* message, or completes it.  The queue delivers at least once, a batch    *)
(* may commit though its caller hears of a failure, a handler may die.     *)
(*                                                                         *)
(* Every page of a bulk job is one that its action changes, and the action *)
(* is one of those that write DB: replacing text, tags, trash.             *)
(***************************************************************************)
EXTENDS Integers, FiniteSets

CONSTANTS
    Jobs,
    PluginJobs,  \* those that replay a plugin request
    Pages,       \* page ids
    Workers,     \* requests that enqueue, invocations of the queue consumer
    Limit,       \* BULK_ACTION_PAGE_LIMIT
    Bindings,    \* whether ADMIN_JOBS_QUEUE may be bound
    Faults,      \* the faults of an instance, see Fails
    MaxFaults,   \* bound on faults, one of a kind
    MaxEdits,    \* bound on edits that change what a search finds
    None

ASSUME AdminJobsAssumption ==
    /\ PluginJobs \subseteq Jobs
    /\ Pages \subseteq Nat /\ IsFiniteSet(Pages) /\ Pages # {}
    /\ Limit \in Nat \ {0}
    /\ Bindings \subseteq BOOLEAN
    /\ Faults \subseteq {"duplicate", "commit", "requeue", "send", "dies"}
    /\ MaxFaults \in Nat /\ MaxEdits \in Nat
    /\ \A S \in SUBSET Pages : None # S

VARIABLES
    bound,     \* ADMIN_JOBS_QUEUE is bound
    row,       \* admin_jobs
    sent,      \* messages in the queue
    worker,
    standing,  \* of the job's user: the action granted, revoked, the account deleted
    found,     \* pages the criteria of a job with scope 'all' match
    edits,
    faults,    \* the kinds that have happened
    resolved,  \* history: what the criteria matched when the job first ran
    touched    \* history: how often a job changed a page, or called its plugin

vars == <<bound, row, sent, worker, standing, found, edits, faults, resolved, touched>>

Idle  == [phase |-> "idle"]
NoRow == [status |-> "none", attempts |-> 0, ids |-> {}, cursor |-> 0, updated |-> 0]
Taken(phase, j, message) ==
    [phase |-> phase, job |-> j, message |-> message, claim |-> NoRow, ids |-> None]
Row   == [status: {"none", "queued", "running", "done", "failed"}, attempts: 0..Cardinality(Pages),
          ids: (SUBSET Pages) \cup {None}, cursor: 0..Cardinality(Pages), updated: 0..Cardinality(Pages)]

Init ==
    /\ bound \in Bindings
    /\ row = [j \in Jobs |-> NoRow]
    /\ sent = [j \in Jobs |-> 0]
    /\ worker = [w \in Workers |-> Idle]
    /\ standing = "granted"
    /\ found = Pages
    /\ edits = 0
    /\ faults = {}
    /\ resolved = [j \in Jobs |-> None]
    /\ touched = [j \in Jobs |-> [p \in Pages |-> 0]]

Job(w)       == worker[w].job
Goes(w, to)  == worker' = [worker EXCEPT ![w].phase = to]
Returns(w)   == worker' = [worker EXCEPT ![w] = Idle]
NoFault      == UNCHANGED faults
Fails(kind)  ==
    /\ kind \in Faults \ faults
    /\ Cardinality(faults) < MaxFaults
    /\ faults' = faults \cup {kind}

(* claimedJobSql: the row is as this handler claimed it.                    *)
Unguarded(w) == TRUE                                                \* mutant
Holds(w)     == row[Job(w)] = worker[w].claim

-----------------------------------------------------------------------------
(* createAdvancedSearchBulkActionJob, createPluginAdminActionJob: ids are   *)
(* those selected, or left to the first run.                                *)
Enqueue(w, j, ids) ==
    /\ worker[w] = Idle
    /\ row[j].status = "none"
    /\ j \in PluginJobs => bound /\ ids # None /\ Cardinality(ids) = 1
    /\ row' = [row EXCEPT ![j].status = "queued", ![j].ids = ids]
    /\ resolved' = [resolved EXCEPT ![j] = ids]
    /\ worker' = [worker EXCEPT ![w] = Taken("send", j, FALSE)]
    /\ UNCHANGED <<bound, sent, standing, found, edits, faults, touched>>

(* With no queue the invocation goes on to run the job itself.  When a send *)
(* fails the request that enqueues gives up, a handler comes to the catch   *)
(* of runCmsAdminJob.                                                       *)
Send(w) ==
    /\ worker[w].phase = "send"
    /\ \/ /\ ~bound
          /\ Goes(w, "claim")
          /\ UNCHANGED sent /\ NoFault
       \/ /\ bound
          /\ sent' = [sent EXCEPT ![Job(w)] = @ + 1]
          /\ Returns(w) /\ NoFault
       \/ /\ bound /\ Fails("send")
          /\ IF worker[w].claim = NoRow THEN Returns(w) ELSE Goes(w, "fail")
          /\ UNCHANGED sent
    /\ UNCHANGED <<bound, row, standing, found, edits, resolved, touched>>

Deliver(w, j) ==
    /\ worker[w] = Idle
    /\ sent[j] > 0
    /\ sent' = [sent EXCEPT ![j] = @ - 1]
    /\ worker' = [worker EXCEPT ![w] = Taken("claim", j, TRUE)]
    /\ UNCHANGED <<bound, row, standing, found, edits, faults, resolved, touched>>

(* claimAdminJob                                                            *)
ClaimableNew(j)  == row[j].status = "queued" /\ row[j].attempts = 0  \* mutant
Claimable(j)     == row[j].status = "queued"

Claim(w) ==
    LET claim == [row[Job(w)] EXCEPT !.status = "running", !.attempts = @ + 1] IN
    /\ worker[w].phase = "claim"
    /\ IF Claimable(Job(w))
       THEN /\ row' = [row EXCEPT ![Job(w)] = claim]
            /\ worker' = [worker EXCEPT ![w].phase = "start", ![w].claim = claim, ![w].ids = claim.ids]
       ELSE UNCHANGED row /\ Returns(w)
    /\ UNCHANGED <<bound, sent, standing, found, edits, faults, resolved, touched>>

(* The account and, for bulk actions, the grant are looked up before a      *)
(* slice, and the criteria of scope 'all' evaluated before the first.       *)
Start(w) ==
    LET ids == IF worker[w].ids = None THEN found ELSE worker[w].ids
        may == IF Job(w) \in PluginJobs THEN standing # "deleted" ELSE standing = "granted" IN
    /\ worker[w].phase = "start"
    /\ IF may THEN /\ worker' = [worker EXCEPT ![w].phase = "apply", ![w].ids = ids]
                   /\ resolved' = [resolved EXCEPT ![Job(w)] = IF @ = None THEN ids ELSE @]
              ELSE Goes(w, "fail") /\ UNCHANGED resolved
    /\ UNCHANGED <<bound, row, sent, standing, found, edits, faults, touched>>

(* applyBulkPageAction: the slice is one batch with the claim and the grant *)
(* among its guards.  A plugin request is sent without either.              *)
(* "commit": it fails, with its effect or without it.                       *)
First(ids, n) == {p \in ids : Cardinality({q \in ids : q < p}) < n}
Slice(w) == First(worker[w].ids, worker[w].claim.cursor + Limit) \ First(worker[w].ids, worker[w].claim.cursor)

Permitted(w) == Job(w) \in PluginJobs \/ (Holds(w) /\ standing = "granted")

Apply(w) ==
    /\ worker[w].phase = "apply"
    /\ \/ /\ Permitted(w)
          /\ touched' = [touched EXCEPT ![Job(w)] =
                [p \in Pages |-> IF p \in Slice(w) THEN @[p] + 1 ELSE @[p]]]
          /\ \/ Goes(w, "finish") /\ NoFault
             \/ Goes(w, "fail") /\ Fails("commit")
       \/ /\ Goes(w, "fail") /\ UNCHANGED touched
          /\ IF Permitted(w) THEN Fails("commit") ELSE NoFault
    /\ UNCHANGED <<bound, row, sent, standing, found, edits, resolved>>

(* The body of the next slice, the totals carried along.                    *)
Repeated(w)  == [worker[w].claim EXCEPT !.ids = worker[w].ids]       \* mutant
NextCursor(w) ==
    LET end == worker[w].claim.cursor + Limit
    IN  IF end < Cardinality(worker[w].ids) THEN end ELSE Cardinality(worker[w].ids)
Advanced(w) == [worker[w].claim EXCEPT !.ids = worker[w].ids, !.cursor = NextCursor(w),
                                       !.updated = @ + (NextCursor(w) - worker[w].claim.cursor)]

Finish(w) ==
    LET next == Advanced(w)
        more == next.cursor < Cardinality(worker[w].ids) IN
    /\ worker[w].phase = "finish"
    /\ IF ~Holds(w) THEN UNCHANGED row /\ Returns(w) /\ NoFault
       ELSE /\ row' = [row EXCEPT ![Job(w)] = [next EXCEPT !.status = IF more THEN "queued" ELSE "done"]]
            /\ \/ NoFault /\ IF more THEN Goes(w, "send") ELSE Returns(w)
               \/ Fails("requeue") /\ Goes(w, "fail")
    /\ UNCHANGED <<bound, sent, standing, found, edits, resolved, touched>>

(* The catch of runCmsAdminJob.                                             *)
Fail(w) ==
    /\ worker[w].phase = "fail"
    /\ row' = IF Holds(w) THEN [row EXCEPT ![Job(w)].status = "failed"] ELSE row
    /\ Returns(w)
    /\ UNCHANGED <<bound, sent, standing, found, edits, faults, resolved, touched>>

-----------------------------------------------------------------------------
(* A message is delivered again, a handler dies and its message with it     *)
(* goes back.                                                               *)
Duplicate(j) ==
    /\ bound /\ row[j].status # "none"
    /\ Fails("duplicate")
    /\ sent' = [sent EXCEPT ![j] = @ + 1]
    /\ UNCHANGED <<bound, row, worker, standing, found, edits, resolved, touched>>

Dies(w) ==
    /\ worker[w] # Idle
    /\ Fails("dies")
    /\ sent' = [sent EXCEPT ![Job(w)] = IF worker[w].message THEN @ + 1 ELSE @]
    /\ Returns(w)
    /\ UNCHANGED <<bound, row, standing, found, edits, resolved, touched>>

Revoke ==
    /\ standing' \in CASE standing = "granted" -> {"revoked", "deleted"}
                       [] standing = "revoked" -> {"granted", "deleted"}
                       [] OTHER -> {}
    /\ edits < MaxEdits /\ edits' = edits + 1
    /\ UNCHANGED <<bound, row, sent, worker, found, faults, resolved, touched>>

Edit(p) ==
    /\ edits < MaxEdits /\ edits' = edits + 1
    /\ found' = IF p \in found THEN found \ {p} ELSE found \cup {p}
    /\ UNCHANGED <<bound, row, sent, worker, standing, faults, resolved, touched>>

Handle(w) == Send(w) \/ Claim(w) \/ Start(w) \/ Apply(w) \/ Finish(w) \/ Fail(w)
Receive(w) == \E j \in Jobs : Deliver(w, j)

Next ==
    \/ \E w \in Workers : Handle(w) \/ Receive(w) \/ Dies(w)
    \/ \E w \in Workers, j \in Jobs, ids \in ((SUBSET Pages) \ {{}}) \cup {None} : Enqueue(w, j, ids)
    \/ \E j \in Jobs : Duplicate(j)
    \/ \E p \in Pages : Edit(p)
    \/ Revoke

Spec == Init /\ [][Next]_vars

(* An invocation runs until it returns or dies; the queue keeps delivering. *)
Fairness == \A w \in Workers : WF_vars(Handle(w)) /\ WF_vars(Receive(w))
FairSpec == Spec /\ Fairness

-----------------------------------------------------------------------------
TypeOK ==
    /\ bound \in Bindings /\ faults \subseteq Faults
    /\ row \in [Jobs -> Row]
    /\ sent \in [Jobs -> Nat]
    /\ \A w \in Workers : worker[w] = Idle \/ (worker[w].job \in Jobs /\ worker[w].claim \in Row)
    /\ standing \in {"granted", "revoked", "deleted"}
    /\ found \subseteq Pages
    /\ resolved \in [Jobs -> (SUBSET Pages) \cup {None}]
    /\ touched \in [Jobs -> [Pages -> Nat]]

(* "There is no automatic local replay": whatever is delivered twice, lost  *)
(* or cut off, no page is changed twice by a job and no plugin called twice.*)
TouchedOnce == \A j \in Jobs, p \in Pages : touched[j][p] <= 1

(* A job that says it is done has changed every page it covered when it     *)
(* first ran, none that came to match later, and counts what it changed.    *)
DoneMeansAll ==
    \A j \in Jobs : row[j].status = "done" =>
        /\ {p \in Pages : touched[j][p] > 0} = resolved[j]
        /\ row[j].updated = Cardinality(resolved[j])

JobsSound == TypeOK /\ TouchedOnce /\ DoneMeansAll

(* Completion and failure are final: no late or stale handler reopens or    *)
(* overwrites them, nor advances a cursor that is not its own.              *)
OutcomeIsFinal(j) ==
    /\ row[j].status \in {"done", "failed"} => row'[j] = row[j]
    /\ row[j].cursor <= row'[j].cursor

(* No slice is committed while the user does not hold the grant, though it  *)
(* was looked up before.                                                    *)
RevokedDoesNothing(j) == j \notin PluginJobs /\ touched'[j] # touched[j] => standing = "granted"

StepsAreLicensed == [][\A j \in Jobs : OutcomeIsFinal(j) /\ RevokedDoesNothing(j)]_vars

(* Every job is done or failed in the end, however often its messages are   *)
(* delivered and whatever fails in a slice, unless an invocation died or    *)
(* could not send the job on.                                               *)
JobsSettle ==
    \A j \in Jobs :
        row[j].status = "queued"
            ~> \/ row[j].status \in {"done", "failed"}
               \/ faults \cap {"dies", "requeue", "send"} # {}
=============================================================================
