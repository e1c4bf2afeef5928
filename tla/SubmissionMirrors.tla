------------------------- MODULE SubmissionMirrors -------------------------
(***************************************************************************)
(* What visitors submit and what editors see of it.  A public Worker       *)
(* writes submissions straight into the published database; the CMS        *)
(* mirrors them into draft pages (core/db/submission-ingest.ts), editors   *)
(* pull, publish, unpublish, trash, restore and purge pages, and a purged  *)
(* mirror's source is erased afterwards (core/pages/submission-erasure.ts).*)
(*                                                                         *)
(* The two databases share no transaction: every step below is one await.  *)
(* A page is known by its uuid, here its place in the (created_at, uuid)   *)
(* order the ingest cursor follows.  A page is a submission mirror when    *)
(* its version history says so, a row written AFTER the page row, so a     *)
(* copy is "plain" until then.  The lifecycle batches assert every row     *)
(* they read (module PageLifecycle) and are one step each.  Page ids are   *)
(* left out: a copy pulled while an older insert of the same uuid waits to *)
(* be marked takes that mark, where the code would only mark it by its own.*)
(***************************************************************************)
EXTENDS Integers, FiniteSets

CONSTANTS
    Submitted,   \* uuids of rows visitors submit
    Authored,    \* uuids of pages editors wrote
    Runs,        \* ingest runs: cron ticks and calls of the ingest endpoint
    Requests,    \* editors' requests in flight
    Erasers,     \* erasure passes: cron ticks and the pass after a purge
    Operations,  \* what requests do
    ScanLimit, MaxCreates,   \* SCAN_LIMIT and MAX_CREATES_PER_RUN
    MaxFaults    \* bound on runs, requests and passes that die half-way

Uuids == Submitted \cup Authored

ASSUME MirrorsAssumption ==
    /\ Uuids \subseteq Nat \ {0}
    /\ Submitted \cap Authored = {}
    /\ {ScanLimit, MaxCreates} \subseteq Nat \ {0}
    /\ MaxFaults \in Nat
    /\ Operations \subseteq {"publish", "unpublish", "trash", "restore", "purge", "pull"}

VARIABLES
    live,       \* published row of a uuid: who wrote it
    draft,      \* draft copy of a uuid
    trash,      \* trashed copy
    erasures,   \* submission_erasures
    cursor,     \* the ingest cursor: where it stands, and how long ago a pass ended
    run, request, eraser,
    submitted,  \* uuids visitors have used
    faults

vars == <<live, draft, trash, erasures, cursor, run, request, eraser,
          submitted, faults>>
system  == <<run, request, eraser>>

Copies == {"none", "plain", "mirror"}
Ages   == {"never", "today", "overdue"}
Cursor == [at: Uuids \cup {0}, passed: Ages]
Idle   == [phase |-> "idle"]
Run    == [phase: {"begun", "scanned", "creating", "marking"}, from: Cursor, todo: SUBSET Uuids,
           full: BOOLEAN, last: Uuids \cup {0}, known: SUBSET Uuids, created: Nat]
Request == [phase: {"publish", "withdraw", "pull", "mark"}, row: Uuids]
Pass   == [phase: {"delete", "confirm"}, rows: SUBSET Uuids]

Init ==
    /\ live = [u \in Uuids |-> "absent"]
    /\ draft = [u \in Uuids |-> IF u \in Authored THEN "plain" ELSE "none"]
    /\ trash = [u \in Uuids |-> "none"]
    /\ erasures = [u \in Uuids |-> "none"]
    /\ cursor = [at |-> 0, passed |-> "never"]
    /\ run = [r \in Runs |-> Idle]
    /\ request = [q \in Requests |-> Idle]
    /\ eraser = [e \in Erasers |-> Idle]
    /\ submitted = {}
    /\ faults = 0

-----------------------------------------------------------------------------
(* The public Worker inserts a submission; rows may become visible in       *)
(* another order than their creation times.                                 *)
Submit(u) ==
    /\ u \in Submitted \ submitted
    /\ submitted' = submitted \cup {u}
    /\ live' = [live EXCEPT ![u] = "visitor"]
    /\ UNCHANGED <<draft, trash, erasures, cursor, system, faults>>

-----------------------------------------------------------------------------
(* ingestSubmissions.                                                       *)
BeginRun(r) ==
    /\ run[r].phase = "idle"
    /\ run' = [run EXCEPT ![r] = [phase |-> "begun", from |-> cursor, todo |-> {},
               full |-> FALSE, last |-> cursor.at, known |-> {}, created |-> 0]]
    /\ UNCHANGED <<live, draft, trash, erasures, cursor, request, eraser, submitted, faults>>

(* The oldest published rows past the cursor.                               *)
Past(at) ==
    LET rows == {u \in Uuids : live[u] # "absent" /\ u > at}
    IN  {u \in rows : Cardinality({v \in rows : v < u}) < ScanLimit}

(* Nothing past the cursor: the end of a pass is noted, and a day later the *)
(* scan starts over.                                                        *)
AtEnd(from) == [from EXCEPT !.passed = "today"]
NoRepass    == AtEnd(cursor)                                        \* mutant
Restarted   == [at |-> 0, passed |-> "never"]

ScanNothing(r) ==
    /\ run[r].phase = "begun"
    /\ run' = [run EXCEPT ![r] = Idle]
    /\ LET from == run[r].from IN
       /\ Past(from.at) = {}
       /\ cursor' = CASE from.at = 0 -> cursor
                      [] from.at # 0 /\ from.passed = "never"   -> AtEnd(from)
                      [] from.at # 0 /\ from.passed = "today"   -> cursor
                      [] from.at # 0 /\ from.passed = "overdue" -> Restarted
    /\ UNCHANGED <<live, draft, trash, erasures, request, eraser, submitted, faults>>

Scan(r) ==
    /\ run[r].phase = "begun"
    /\ LET rows == Past(run[r].from.at) IN
       /\ rows # {}
       /\ run' = [run EXCEPT ![r].phase = "scanned", ![r].todo = rows,
                             ![r].full = (Cardinality(rows) = ScanLimit)]
    /\ UNCHANGED <<live, draft, trash, erasures, cursor, request, eraser, submitted, faults>>

(* A uuid that has a draft, is in trash or was purged as a mirror is known. *)
KnownSansErased(u) == draft[u] # "none" \/ trash[u] # "none"        \* mutant
Known(u) == draft[u] # "none" \/ trash[u] # "none" \/ erasures[u] # "none"

PreCheck(r) ==
    /\ run[r].phase = "scanned"
    /\ run' = [run EXCEPT ![r].phase = "creating",
                          ![r].known = {u \in run[r].todo : Known(u)}]
    /\ UNCHANGED <<live, draft, trash, erasures, cursor, request, eraser, submitted, faults>>

(* Rows are taken oldest first.                                             *)
Handling(r, u) ==
    /\ run[r].phase = "creating" /\ run[r].created < MaxCreates
    /\ u \in run[r].todo /\ \A v \in run[r].todo : u <= v
Handled(r, u)  == [run[r] EXCEPT !.todo = @ \ {u}, !.last = u]

(* Known, or INSERT OR IGNORE meets a draft another run made.               *)
Skip(r, u) ==
    /\ Handling(r, u)
    /\ u \in run[r].known \/ draft[u] # "none"
    /\ run' = [run EXCEPT ![r] = Handled(r, u)]
    /\ UNCHANGED <<live, draft, trash, erasures, cursor, request, eraser, submitted, faults>>

Insert(r, u) ==
    /\ Handling(r, u)
    /\ u \notin run[r].known
    /\ draft[u] = "none"
    /\ draft' = [draft EXCEPT ![u] = "plain"]
    /\ run' = [run EXCEPT ![r] = [Handled(r, u) EXCEPT !.phase = "marking"]]
    /\ UNCHANGED <<live, trash, erasures, cursor, request, eraser, submitted, faults>>

(* savePageVersion(..., 'ingest-submission').  The version's page must      *)
(* exist: if it was trashed meanwhile the insert fails and the run ends.    *)
Mark(r) ==
    /\ run[r].phase = "marking"
    /\ LET u == run[r].last IN
       IF draft[u] # "none"
       THEN /\ draft' = [draft EXCEPT ![u] = "mirror"]
            /\ run' = [run EXCEPT ![r].phase = "creating", ![r].created = @ + 1]
       ELSE /\ run' = [run EXCEPT ![r] = Idle]
            /\ UNCHANGED draft
    /\ UNCHANGED <<live, trash, erasures, cursor, request, eraser, submitted, faults>>

(* Where the cursor moves to: past the rows handled, not all rows scanned.  *)
Saved(c) ==
    LET more == c.todo # {} \/ c.full IN
    [at |-> c.last, passed |-> IF c.from.passed # "never" THEN c.from.passed
                               ELSE IF more THEN "never" ELSE "today"]

EndRun(r) ==
    /\ run[r].phase = "creating"
    /\ run[r].todo = {} \/ run[r].created >= MaxCreates
    /\ cursor' = IF run[r].last = run[r].from.at THEN cursor ELSE Saved(run[r])
    /\ run' = [run EXCEPT ![r] = Idle]
    /\ UNCHANGED <<live, draft, trash, erasures, request, eraser, submitted, faults>>

(* REPASS_MS elapse, for the stored time and for the copies runs hold.      *)
DayPasses ==
    LET aged(c) == [c EXCEPT !.passed = IF @ = "today" THEN "overdue" ELSE @] IN
    /\ cursor' = aged(cursor)
    /\ run' = [r \in Runs |-> IF run[r].phase = "idle" THEN Idle
                              ELSE [run[r] EXCEPT !.from = aged(@)]]
    /\ <<cursor', run'>> # <<cursor, run>>
    /\ UNCHANGED <<live, draft, trash, erasures, request, eraser, submitted, faults>>

-----------------------------------------------------------------------------
(* Requests.  publish and unpublish read the mirror flag first and refuse a *)
(* mirror; what they then do to the published row comes later.              *)
Starts(q, op, to) ==
    /\ op \in Operations
    /\ request[q].phase = "idle"
    /\ request' = [request EXCEPT ![q] = to]

StartPublish(q, u) ==
    /\ draft[u] = "plain"
    /\ Starts(q, "publish", [phase |-> "publish", row |-> u])
    /\ UNCHANGED <<live, draft, trash, erasures, cursor, run, eraser, submitted, faults>>

StartUnpublish(q, u) ==
    /\ draft[u] = "plain"
    /\ Starts(q, "unpublish", [phase |-> "withdraw", row |-> u])
    /\ UNCHANGED <<live, draft, trash, erasures, cursor, run, eraser, submitted, faults>>

(* mutatePageLifecycle: a copy moves together with its versions, and merges *)
(* into a copy of the same uuid already there.                              *)
Merged(a, b) == IF "mirror" \in {a, b} THEN "mirror" ELSE "plain"

(* Trash, then withdraw from the targets unless the page was a mirror.      *)
Trash(q, u) ==
    /\ draft[u] # "none"
    /\ Starts(q, "trash", IF draft[u] = "mirror" THEN Idle ELSE [phase |-> "withdraw", row |-> u])
    /\ trash' = [trash EXCEPT ![u] = Merged(draft[u], @)]
    /\ draft' = [draft EXCEPT ![u] = "none"]
    /\ UNCHANGED <<live, erasures, cursor, run, eraser, submitted, faults>>

Restore(q, u) ==
    /\ trash[u] # "none"
    /\ Starts(q, "restore", Idle)
    /\ draft' = [draft EXCEPT ![u] = Merged(trash[u], @)]
    /\ trash' = [trash EXCEPT ![u] = "none"]
    /\ UNCHANGED <<live, erasures, cursor, run, eraser, submitted, faults>>

(* The purge of a mirror records the erasure in the same batch; the pass    *)
(* right after it is an eraser's.                                           *)
Owed(u) == IF trash[u] = "mirror" /\ erasures[u] = "none" THEN "pending" ELSE erasures[u]

Purge(q, u) ==
    /\ trash[u] # "none"
    /\ Starts(q, "purge", Idle)
    /\ erasures' = [erasures EXCEPT ![u] = Owed(u)]
    /\ trash' = [trash EXCEPT ![u] = "none"]
    /\ UNCHANGED <<live, draft, cursor, run, eraser, submitted, faults>>

(* pullPublishedPageToDraft: no draft, a published row.                     *)
StartPull(q, u) ==
    /\ draft[u] = "none"
    /\ live[u] # "absent"
    /\ Starts(q, "pull", [phase |-> "pull", row |-> u])
    /\ UNCHANGED <<live, draft, trash, erasures, cursor, run, eraser, submitted, faults>>

Ends(q, phase) == request[q].phase = phase /\ request' = [request EXCEPT ![q] = Idle]

(* A plain INSERT: fails on a uuid that has a draft by now.                 *)
InsertPulled(q) ==
    /\ request[q].phase = "pull"
    /\ LET u == request[q].row IN
       IF draft[u] = "none"
       THEN /\ request' = [request EXCEPT ![q].phase = "mark"]
            /\ draft' = [draft EXCEPT ![u] = "plain"]
       ELSE /\ request' = [request EXCEPT ![q] = Idle]
            /\ UNCHANGED draft
    /\ UNCHANGED <<live, trash, erasures, cursor, run, eraser, submitted, faults>>

MarkPulled(q) ==
    /\ Ends(q, "mark")
    /\ draft' = [draft EXCEPT ![request[q].row] = IF @ = "none" THEN @ ELSE "mirror"]
    /\ UNCHANGED <<live, trash, erasures, cursor, run, eraser, submitted, faults>>

(* The adapter upserts, or deletes, whatever row has the uuid.              *)
Land(q) ==
    /\ Ends(q, "publish")
    /\ live' = [live EXCEPT ![request[q].row] = "cms"]
    /\ UNCHANGED <<draft, trash, erasures, cursor, run, eraser, submitted, faults>>

Withdraw(q) ==
    /\ Ends(q, "withdraw")
    /\ live' = [live EXCEPT ![request[q].row] = "absent"]
    /\ UNCHANGED <<draft, trash, erasures, cursor, run, eraser, submitted, faults>>

-----------------------------------------------------------------------------
(* eraseSubmissionSources: read what is pending, delete it from the         *)
(* published database, confirm exactly that.                                *)
Pending     == {u \in Uuids : erasures[u] = "pending"}

StartErasing(e) ==
    /\ eraser[e].phase = "idle"
    /\ Pending # {}
    /\ eraser' = [eraser EXCEPT ![e] = [phase |-> "delete", rows |-> Pending]]
    /\ UNCHANGED <<live, draft, trash, erasures, cursor, run, request, submitted, faults>>

Erase(e) ==
    /\ eraser[e].phase = "delete"
    /\ live' = [u \in Uuids |-> IF u \in eraser[e].rows THEN "absent" ELSE live[u]]
    /\ eraser' = [eraser EXCEPT ![e].phase = "confirm"]
    /\ UNCHANGED <<draft, trash, erasures, cursor, run, request, submitted, faults>>

ConfirmedAll(e) == Pending                                          \* mutant
Confirmed(e)    == eraser[e].rows \cap Pending

Confirm(e) ==
    /\ eraser[e].phase = "confirm"
    /\ erasures' = [u \in Uuids |-> IF u \in Confirmed(e) THEN "erased" ELSE erasures[u]]
    /\ eraser' = [eraser EXCEPT ![e] = Idle]
    /\ UNCHANGED <<live, draft, trash, cursor, run, request, submitted, faults>>

-----------------------------------------------------------------------------
(* A run, a request or a pass dies: an exception, an unreachable database,  *)
(* an evicted isolate.  What it had not written yet is never written.       *)
Dies ==
    /\ faults < MaxFaults
    /\ faults' = faults + 1
    /\ \/ \E r \in Runs : /\ run[r].phase # "idle"
                         /\ run' = [run EXCEPT ![r] = Idle]
                         /\ UNCHANGED <<request, eraser>>
       \/ \E q \in Requests : /\ request[q].phase # "idle"
                             /\ request' = [request EXCEPT ![q] = Idle]
                             /\ UNCHANGED <<run, eraser>>
       \/ \E e \in Erasers : /\ eraser[e].phase # "idle"
                            /\ eraser' = [eraser EXCEPT ![e] = Idle]
                            /\ UNCHANGED <<run, request>>
    /\ UNCHANGED <<live, draft, trash, erasures, cursor, submitted>>

RunStep(r) ==
    \/ BeginRun(r) \/ ScanNothing(r) \/ Scan(r) \/ PreCheck(r)
    \/ Mark(r) \/ EndRun(r)
    \/ \E u \in Uuids : Skip(r, u) \/ Insert(r, u)
RequestStep(q) ==
    \/ \E u \in Uuids : \/ StartPublish(q, u) \/ StartUnpublish(q, u) \/ StartPull(q, u)
                      \/ Trash(q, u) \/ Restore(q, u) \/ Purge(q, u)
    \/ InsertPulled(q) \/ MarkPulled(q) \/ Land(q) \/ Withdraw(q)
EraserStep(e) == StartErasing(e) \/ Erase(e) \/ Confirm(e)

Next ==
    \/ \E u \in Submitted : Submit(u)
    \/ \E r \in Runs : RunStep(r)
    \/ \E q \in Requests : RequestStep(q)
    \/ \E e \in Erasers : EraserStep(e)
    \/ DayPasses
    \/ Dies

Spec == Init /\ [][Next]_vars

(* Cron starts a run and an erasure pass every tick and carries them on;    *)
(* days pass.  Nobody has to make a request or to submit anything.          *)
Fairness ==
    /\ \A r \in Runs : WF_vars(RunStep(r))
    /\ \A e \in Erasers : WF_vars(EraserStep(e))
    /\ WF_vars(DayPasses)

FairSpec == Spec /\ Fairness

-----------------------------------------------------------------------------
TypeOK ==
    /\ live \in [Uuids -> {"absent", "visitor", "cms"}]
    /\ draft \in [Uuids -> Copies]
    /\ trash \in [Uuids -> Copies]
    /\ erasures \in [Uuids -> {"none", "pending", "erased"}]
    /\ cursor \in Cursor
    /\ run \in [Runs -> Run \cup {Idle}]
    /\ request \in [Requests -> Request \cup {Idle}]
    /\ eraser \in [Erasers -> Pass \cup {Idle}]
    /\ submitted \subseteq Submitted
    /\ faults \in 0..MaxFaults

(* A confirmed erasure means the source row is gone: nothing that was still *)
(* under way when the page was purged, and nobody who purged another page   *)
(* meanwhile, leaves it behind or brings it back.                           *)
ConfirmedMeansGone ==
    \A u \in Submitted : erasures[u] = "erased" => live[u] = "absent"

MirrorsSound == TypeOK /\ ConfirmedMeansGone

(* What ingest says of itself: it is safe to call concurrently, and a       *)
(* deleted submission must not come back as a new draft, so no run makes a  *)
(* draft of a page that is in trash or was purged as a mirror.              *)
IngestNeverRevives ==
    [][\A r \in Runs, u \in Uuids :
           Insert(r, u) => trash[u] = "none" /\ erasures[u] = "none"]_vars

(* The obligation to erase is never lost between the databases: once an     *)
(* editor has purged a mirror, its source row is eventually gone for good,  *)
(* whatever dies in between.                                                *)
PurgedMirrorsErased ==
    \A u \in Uuids : (erasures[u] = "pending") ~> (erasures[u] = "erased")

(* A page vanished between its insert and its mark, which ends the run      *)
(* before it has saved how far it came.                                     *)
CutShort(r) == Mark(r) /\ draft[run[r].last] = "none"

(* Every submission reaches the editors: it is mirrored, late arrivals the  *)
(* cursor has passed included, unless it is gone or was purged.  Only runs  *)
(* that are cut short again and again, for ever, can keep it from them.     *)
SubmissionsMirrored ==
    <>[][\A r \in Runs : ~CutShort(r)]_vars =>
        \A u \in Submitted :
            (live[u] = "visitor")
                ~> (draft[u] # "none" \/ trash[u] # "none" \/ erasures[u] # "none" \/ live[u] = "absent")

(* Both directions: what visitors leave reaches the editors, and what these *)
(* destroy is destroyed where it came from.                                 *)
MirrorsSettle == SubmissionsMirrored /\ PurgedMirrorsErased
=============================================================================
