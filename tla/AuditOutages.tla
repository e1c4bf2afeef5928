---------------------------- MODULE AuditOutages ----------------------------
(***************************************************************************)
(* Evidence of reads, and what becomes of it when it cannot be written     *)
(* (core/http/access-log.ts, core/db/data-classes.ts, core/db/audit.ts,    *)
(* core/db/audit-outages.ts, features/audit/outages.ts).                   *)
(*                                                                         *)
(* A request announces the pages it read; before its reply, or a call of   *)
(* a plugin, leaves, the announced pages are classified and the classified *)
(* ones recorded: before it where one is health data or where it is a      *)
(* disclosure, after it otherwise.  A write that fails is an incident: an  *)
(* object of a journal outside the database and an alert to a receiver     *)
(* outside both.  A monitor walks the journal and repeats the alerts;      *)
(* people review the incidents.                                            *)
(*                                                                         *)
(* Between two awaited calls anything else may run, and the database, the  *)
(* journal and the receiver may each be down.                              *)
(***************************************************************************)
EXTENDS Integers, FiniteSets, SequencesExt

CONSTANTS Requests, Pages, Reviewers,
          Decisions,  \* what a review may find
          Incidents,  \* numbers, in the order the journal lists its keys
          PageSize,   \* incidents of one tick of the monitor
          MaxBreaks,  \* bound: outages, evictions and lost answers
          None

OutageAssumption == /\ Incidents \subseteq Nat \ {0} /\ PageSize \in Nat \ {0} /\ MaxBreaks \in Nat
                    /\ None \notin Reviewers \X Decisions

VARIABLES policy,  \* class of the container: 0, 1 (pii) or 2 (phi)
          floor,   \* page -> the floor of its own
          trail,   \* audit_events: [by, page]
          req,     \* requests
          down, breaks,
          reports, \* incident -> where recordAuditOutage stands with it
          journal, \* incidents in the journal
          noted,   \* incident -> its alert state: "none", "wait", "delivered"
          received,\* incidents the receiver has
          health,  \* the monitor's stored state
          mon,     \* the monitor
          marker, receipt, \* incident -> the review, in the journal and in the database
          decided, \* reviews ever recorded (ghost)
          saved,   \* reviews answered as saved (ghost)
          old,     \* incidents past the time their receipt is kept
          rev      \* reviewers

evidence == <<policy, floor, trail, req>>
faults == <<down, breaks>>
alerts == <<reports, journal, noted, received>>
monitor == <<health, mon>>
reviews == <<marker, receipt, decided, saved, old, rev>>
vars == <<evidence, faults, alerts, monitor, reviews>>

Up(x) == x \notin down
Fault == breaks < MaxBreaks /\ breaks' = breaks + 1 /\ UNCHANGED down
Class(of, p) == IF of > floor[p] THEN of ELSE floor[p]

Unused == {i \in Incidents : reports[i] = "unused"}
\* recordAuditOutage; beyond the bound on incidents, nothing
Report == IF Unused = {} THEN UNCHANGED reports
          ELSE \E i \in Unused : reports' = [reports EXCEPT ![i] = "put"]
NoReport == UNCHANGED reports

-----------------------------------------------------------------------------
\* Requests that read pages.
Goto(r, q) == req' = [req EXCEPT ![r] = q]
Is(r, pc) == req[r].pc = pc
Idle == [pc |-> "idle", cached |-> None, pending |-> {}, seen |-> {}, rows |-> {}, left |-> {},
         owed |-> {}, call |-> FALSE, called |-> FALSE]

\* what was health data before the request began is owed evidence (ghost)
Begin(r) ==
    /\ Is(r, "idle")
    /\ Goto(r, [req[r] EXCEPT !.pc = "run", !.owed = {p \in Pages : Class(policy, p) = 2}])
    /\ UNCHANGED <<policy, floor, trail, reports>>
\* recordPageReads
Read(r) ==
    /\ Is(r, "run")
    /\ \E p \in Pages \ req[r].seen : Goto(r, [req[r] EXCEPT !.pending = @ \cup {p}, !.seen = @ \cup {p}])
    /\ UNCHANGED <<policy, floor, trail, reports>>
\* a handler that needs the classes itself: they are kept for the request
Peek(r) ==
    /\ Is(r, "run") /\ req[r].cached = None /\ Up("database")
    /\ Goto(r, [req[r] EXCEPT !.cached = policy])
    /\ UNCHANGED <<policy, floor, trail, reports>>
\* flushReadAudit for a disclosure, or of the accessLog middleware for the reply
Flush(r) ==
    /\ Is(r, "run")
    /\ \E call \in BOOLEAN : /\ call => ~ req[r].called /\ req[r].pending # {}
                             /\ Goto(r, [req[r] EXCEPT !.pc = "classify", !.call = call])
    /\ UNCHANGED <<policy, floor, trail, reports>>

\* What leaves: with a call what was announced for it, with the reply all that was read.
Leaving(q) ==
    IF q.call THEN [q EXCEPT !.pc = "run", !.pending = {}, !.rows = {}, !.called = TRUE, !.call = FALSE,
                             !.left = @ \cup q.pending]
    ELSE [q EXCEPT !.pc = "done", !.pending = {}, !.rows = {}, !.left = q.seen]
Refuse(r) == Goto(r, [req[r] EXCEPT !.pc = "refused"])
\* a disclosure asks for the policy anew
Policy(q) == IF q.call \/ q.cached = None THEN policy ELSE q.cached
Rows(r) == {p \in req[r].pending : Class(Policy(req[r]), p) > 0}
\* mutant: whether evidence must come first is read off the container alone
StrictByContainer(q, rows) == q.call \/ (rows # {} /\ Policy(q) = 2)
Strict(q, rows) == q.call \/ \E p \in rows : Class(Policy(q), p) = 2
\* prepareReadAudits: the container's class, then the pages' own floors
PrepareReadAudits(r) ==
    LET q == req[r]
    IN  /\ Is(r, "classify")
        /\ \/ /\ q.pending = {} /\ Goto(r, Leaving(q)) /\ NoReport
           \/ /\ q.pending # {} /\ ~ Up("database") /\ Refuse(r)
              /\ IF q.call \/ q.cached = None THEN Report ELSE NoReport
           \/ /\ q.pending # {} /\ Up("database")
              /\ LET rows == Rows(r) known == [q EXCEPT !.cached = Policy(q)]
                 IN  IF rows = {} THEN Goto(r, Leaving(known))
                     ELSE IF Strict(q, rows) THEN Goto(r, [known EXCEPT !.pc = "write", !.rows = rows])
                     ELSE Goto(r, [Leaving(known) EXCEPT !.pc = "late", !.rows = rows])
              /\ NoReport
        /\ UNCHANGED <<policy, floor, trail>>
Recorded(r) == trail' = trail \cup {[by |-> r, page |-> p] : p \in req[r].rows}
\* writeAuditRows: one batch; its answer may be lost
WriteAuditRows(r) ==
    /\ Is(r, "write")
    /\ \/ Up("database") /\ Recorded(r) /\ Goto(r, Leaving(req[r])) /\ NoReport /\ UNCHANGED faults
       \/ Up("database") /\ Recorded(r) /\ Refuse(r) /\ Report /\ Fault
       \/ ~ Up("database") /\ Refuse(r) /\ Report /\ UNCHANGED <<trail, faults>>
    /\ UNCHANGED <<policy, floor>>
\* the reply has left; the batch runs in waitUntil, where the isolate may end
WriteLate(r) ==
    /\ Is(r, "late") /\ Goto(r, [req[r] EXCEPT !.pc = "done"])
    /\ \/ Up("database") /\ Recorded(r) /\ NoReport /\ UNCHANGED faults
       \/ ~ Up("database") /\ Report /\ UNCHANGED <<trail, faults>>
       \/ NoReport /\ Fault /\ UNCHANGED trail
    /\ UNCHANGED <<policy, floor>>
\* An administrator classifies the container higher, or a page is found to hold more.
\* A reduction is refused.
Raise ==
    /\ \/ \E c \in policy + 1 .. 2 : policy' = c /\ UNCHANGED floor
       \/ \E p \in Pages : \E c \in floor[p] + 1 .. 2 : floor' = [floor EXCEPT ![p] = c] /\ UNCHANGED policy
    /\ UNCHANGED <<trail, req, reports>>

Reading ==
    \/ /\ \/ \E r \in Requests : Begin(r) \/ Read(r) \/ Peek(r) \/ Flush(r) \/ PrepareReadAudits(r)
          \/ Raise
       /\ UNCHANGED faults
    \/ \E r \in Requests : WriteAuditRows(r) \/ WriteLate(r)

-----------------------------------------------------------------------------
\* recordAuditOutage and deliverOutageAlert: every call may be refused, and the
\* isolate may end between them.
Step(i, s) == reports' = [reports EXCEPT ![i] = s]
\* any write of the trail that its caller does not wait for
AfterResponse == ~ Up("database") /\ Unused # {} /\ Report /\ UNCHANGED <<faults, journal, noted, received>>
PutIncident(i) ==
    /\ reports[i] = "put" /\ Step(i, "send")
    /\ journal' = IF Up("journal") THEN journal \cup {i} ELSE journal
    /\ UNCHANGED <<faults, noted, received>>
\* The alert state is read, without it the alert is sent all the same.
Quiet(i) == Up("journal") /\ noted[i] # "none"
Sent(i) == Up("receiver") /\ received' = received \cup {i}
SendAlert(i) ==
    /\ reports[i] = "send"
    /\ \/ Quiet(i) /\ Step(i, "over") /\ UNCHANGED <<received, faults>>
       \/ ~ Quiet(i) /\ Sent(i) /\ Step(i, "sent") /\ UNCHANGED faults
       \/ ~ Quiet(i) /\ Sent(i) /\ Step(i, "unsent") /\ Fault
       \/ ~ Quiet(i) /\ ~ Up("receiver") /\ Step(i, "unsent") /\ UNCHANGED <<received, faults>>
    /\ UNCHANGED <<journal, noted>>
Note(i, ok) == noted' = IF Up("journal") THEN [noted EXCEPT ![i] = IF ok THEN "delivered" ELSE "wait"] ELSE noted
NoteAlert(i) ==
    /\ reports[i] \in {"sent", "unsent"} /\ Note(i, reports[i] = "sent") /\ Step(i, "over")
    /\ UNCHANGED <<faults, journal, received>>
CutReport(i) ==
    /\ reports[i] \in {"put", "send", "sent", "unsent"} /\ Step(i, "over") /\ Fault
    /\ UNCHANGED <<journal, noted, received>>
\* nextAttemptAt passes
Lapse(i) == noted[i] = "wait" /\ noted' = [noted EXCEPT ![i] = "none"]
            /\ UNCHANGED <<faults, journal, received, reports>>
Reporting == AfterResponse \/ \E i \in Incidents : PutIncident(i) \/ SendAlert(i) \/ NoteAlert(i) \/ CutReport(i) \/ Lapse(i)

-----------------------------------------------------------------------------
\* monitorAuditOutages, one tick after another.
Away == [pc |-> "away", prev |-> None, bad |-> {}, queue |-> << >>, next |-> 0, told |-> FALSE]
On(pc) == mon.pc = pc
Tick ==
    /\ On("away")
    /\ mon' = [Away EXCEPT !.pc = "probe", !.prev = IF Up("journal") THEN health ELSE None]
    /\ UNCHANGED <<health, alerts, faults>>
Probe ==
    /\ On("probe")
    /\ mon' = [mon EXCEPT !.pc = "list", !.bad = down \cap {"database", "journal"}]
    /\ UNCHANGED <<health, alerts, faults>>
After(cursor) == {i \in journal : i > cursor}
Listed(cursor) == SetToSortSeq({i \in After(cursor) : Cardinality({j \in After(cursor) : j < i}) < PageSize}, <)
\* mutant: every tick lists from the start
NeverTruncated(page) == 0
\* page.truncated
Cursor(page) == IF page # << >> /\ After(Last(page)) # {} THEN Last(page) ELSE 0
List ==
    /\ On("list")
    /\ IF Up("journal")
       THEN \E page \in {Listed(IF mon.prev = None THEN 0 ELSE mon.prev.cursor)} :
                mon' = [mon EXCEPT !.pc = "scan", !.queue = page, !.next = Cursor(page)]
       ELSE mon' = [mon EXCEPT !.pc = "scan", !.bad = @ \cup {"journal"}]
    /\ UNCHANGED <<health, alerts, faults>>
Onward(bad) == mon' = [mon EXCEPT !.pc = "scan", !.queue = Tail(@), !.bad = @ \cup bad]
Scan ==
    /\ On("scan") /\ mon.queue # << >>
    /\ LET i == Head(mon.queue)
       IN  \/ ~ Up("journal") /\ Onward({"journal"}) /\ UNCHANGED <<received, faults>>
           \/ /\ Up("journal") /\ (marker[i] # None \/ noted[i] = "delivered")
              /\ Onward({}) /\ UNCHANGED <<received, faults>>
           \/ /\ Up("journal") /\ marker[i] = None /\ noted[i] = "wait"
              /\ Onward({"alerts"}) /\ UNCHANGED <<received, faults>>
           \/ /\ Up("journal") /\ marker[i] = None /\ noted[i] = "none"
              /\ \/ Sent(i) /\ mon' = [mon EXCEPT !.pc = "note", !.told = TRUE] /\ UNCHANGED faults
                 \/ Sent(i) /\ mon' = [mon EXCEPT !.pc = "note", !.told = FALSE] /\ Fault
                 \/ ~ Up("receiver") /\ mon' = [mon EXCEPT !.pc = "note", !.told = FALSE] /\ UNCHANGED <<received, faults>>
    /\ UNCHANGED <<health, reports, journal, noted>>
NoteScanned ==
    /\ On("note") /\ Note(Head(mon.queue), mon.told) /\ Onward(IF mon.told THEN {} ELSE {"alerts"})
    /\ UNCHANGED <<health, reports, journal, received, faults>>
\* the heartbeat; a condition that fails and is not as it was is an incident too
Beat ==
    /\ On("scan") /\ mon.queue = << >>
    /\ \E bad \in {mon.bad \cup (down \cap {"receiver"})} :
          /\ mon' = [mon EXCEPT !.pc = "save", !.bad = bad]
          /\ IF bad # {} /\ (mon.prev = None \/ mon.prev.bad # bad) THEN Report ELSE NoReport
    /\ UNCHANGED <<health, journal, noted, received, faults>>
SaveHealth ==
    /\ On("save") /\ mon' = Away
    /\ health' = IF Up("journal") THEN [cursor |-> mon.next, bad |-> mon.bad] ELSE health
    /\ UNCHANGED <<alerts, faults>>
CutTick == ~ On("away") /\ mon' = Away /\ Fault /\ UNCHANGED <<health, alerts>>
Monitoring == Tick \/ Probe \/ List \/ Scan \/ NoteScanned \/ Beat \/ SaveHealth \/ CutTick

-----------------------------------------------------------------------------
\* reconcileOutage: the decision is the receipt of the database; the marker in
\* the journal, which closes the incident, repeats it.
At(v, pc) == rev[v].pc = pc
Turn(v, pc) == rev' = [rev EXCEPT ![v].pc = pc]
Stop(v) == rev' = [rev EXCEPT ![v] = [pc |-> "idle"]]
Mine(v) == <<v, rev[v].choice>>
Nothing == UNCHANGED <<marker, receipt, decided, saved, old>>
\* mutant: a review already recorded is answered as this one
AnyReview(mine, found) == TRUE
Matches(mine, found) == mine = found
Open(v) ==
    /\ At(v, "idle") /\ Up("journal")
    /\ \E i \in journal, d \in Decisions :
          IF marker[i] = None
          THEN /\ rev' = [rev EXCEPT ![v] = [pc |-> "look", at |-> i, choice |-> d]] /\ UNCHANGED saved
          ELSE /\ saved' = IF Matches(<<v, d>>, marker[i]) THEN saved \cup {<<i, <<v, d>>>>} ELSE saved
               /\ UNCHANGED rev
    /\ UNCHANGED <<marker, receipt, decided, old, faults>>
Compare(v, found) == IF found # None /\ Matches(Mine(v), found) THEN Turn(v, "mark") ELSE Stop(v)
\* the receipt, and whether one may have been pruned already
Look(v) ==
    /\ At(v, "look")
    /\ LET i == rev[v].at
       IN  IF ~ Up("database") THEN Stop(v)
           ELSE IF receipt[i] # None THEN Compare(v, receipt[i])
           ELSE IF i \in old THEN Stop(v) ELSE Turn(v, "write")
    /\ Nothing /\ UNCHANGED faults
\* ON CONFLICT(event_id) DO NOTHING; the answer may be lost
Decide(v) ==
    LET i == rev[v].at
    IN  /\ At(v, "write")
        /\ IF Up("database")
           THEN /\ IF receipt[i] = None
                   THEN receipt' = [receipt EXCEPT ![i] = Mine(v)] /\ decided' = decided \cup {<<i, Mine(v)>>}
                   ELSE UNCHANGED <<receipt, decided>>
                /\ \/ Turn(v, "agree") /\ UNCHANGED faults
                   \/ Stop(v) /\ Fault
           ELSE Stop(v) /\ UNCHANGED <<receipt, decided, faults>>
        /\ UNCHANGED <<marker, saved, old>>
Agree(v) ==
    /\ At(v, "agree")
    /\ IF Up("database") THEN Compare(v, receipt[rev[v].at]) ELSE Stop(v)
    /\ Nothing /\ UNCHANGED faults
Mark(v) ==
    LET i == rev[v].at
    IN  /\ At(v, "mark") /\ Stop(v)
        /\ IF Up("journal")
           THEN marker' = [marker EXCEPT ![i] = Mine(v)] /\ saved' = saved \cup {<<i, Mine(v)>>}
           ELSE UNCHANGED <<marker, saved>>
        /\ UNCHANGED <<receipt, decided, old, faults>>
\* Time: an incident's receipts are kept for hotDaysFor("admin_config").
Age == /\ \E i \in journal \ old : old' = old \cup {i}
       /\ UNCHANGED <<marker, receipt, decided, saved, rev, faults>>
\* A receipt is as old as that only long after any request that met its incident without it.
Prune == /\ \E i \in old : /\ receipt[i] # None /\ \A v \in Reviewers : At(v, "idle")
                           /\ receipt' = [receipt EXCEPT ![i] = None]
         /\ UNCHANGED <<marker, decided, saved, old, rev, faults>>
Reviewing == Age \/ Prune \/ \E v \in Reviewers : Open(v) \/ Look(v) \/ Decide(v) \/ Agree(v) \/ Mark(v)

-----------------------------------------------------------------------------
Break == /\ breaks < MaxBreaks /\ breaks' = breaks + 1
         /\ \E x \in {"database", "journal", "receiver"} \ down : down' = down \cup {x}
Mend(x) == x \in down /\ down' = down \ {x} /\ UNCHANGED breaks

Init == /\ policy \in 0..2 /\ floor = [p \in Pages |-> 0] /\ trail = {} /\ req = [r \in Requests |-> Idle]
        /\ down = {} /\ breaks = 0
        /\ reports = [i \in Incidents |-> "unused"] /\ journal = {} /\ received = {}
        /\ noted = [i \in Incidents |-> "none"] /\ health = None /\ mon = Away
        /\ marker = [i \in Incidents |-> None] /\ receipt = [i \in Incidents |-> None]
        /\ decided = {} /\ saved = {} /\ old = {} /\ rev = [v \in Reviewers |-> [pc |-> "idle"]]

ReadingNext == /\ Reading /\ UNCHANGED <<journal, noted, received, monitor, reviews>>
IncidentsNext == \/ Reporting /\ UNCHANGED <<evidence, monitor, reviews>>
                 \/ Monitoring /\ UNCHANGED <<evidence, reviews>>
                 \/ Reviewing /\ UNCHANGED <<evidence, alerts, monitor>>
Outages == /\ Break \/ \E x \in down : Mend(x)
           /\ UNCHANGED <<evidence, alerts, monitor, reviews>>
Next == ReadingNext \/ IncidentsNext \/ Outages
Spec == Init /\ [][Next]_vars
\* What goes down is mended, cron calls the monitor again and again, and time passes.
Mended(x) == Mend(x) /\ UNCHANGED <<evidence, alerts, monitor, reviews>>
Watched == Monitoring /\ breaks' = breaks /\ UNCHANGED <<evidence, reviews>>
Lapsed(i) == Lapse(i) /\ UNCHANGED <<evidence, monitor, reviews>>
FairSpec == /\ Spec /\ WF_vars(Watched)
            /\ \A x \in {"database", "journal", "receiver"} : WF_vars(Mended(x))
            /\ \A i \in Incidents : WF_vars(Lapsed(i))

-----------------------------------------------------------------------------
\* What was health data when a request began leaves, in its reply or in a call of
\* a plugin, only with its evidence in the trail, whatever classifications change
\* meanwhile and whatever fails.
HealthReadsAreRecorded == \A r \in Requests : \A p \in req[r].left \cap req[r].owed : [by |-> r, page |-> p] \in trail

\* An incident is decided once: by one reviewer, in one way, through lost answers,
\* a journal that cannot be written and receipts long pruned; what closes it in the
\* journal and what a reviewer was told is saved are that decision.
OneDecision ==
    /\ \A x, y \in decided : x[1] = y[1] => x = y
    /\ \A i \in Incidents : marker[i] # None => <<i, marker[i]>> \in decided
    /\ saved \subseteq decided

EvidenceSound == HealthReadsAreRecorded /\ OneDecision

\* An incident in the journal is told to the receiver or reviewed, even if the
\* request that met it was cut before it told anyone.
AlertsArrive == \A i \in Incidents : i \in journal ~> (i \in received \/ marker[i] # None)
=============================================================================
