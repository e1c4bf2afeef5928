---------------------------- MODULE AuditArchive ----------------------------
(***************************************************************************)
(* The audit sweep (features/audit/sweep.ts).  A run freezes a segment of  *)
(* the events as an intent, writes it to the bucket, seals it, reads the   *)
(* seals back, hands the checkpoints to the independent receiver and then  *)
(* deletes aged rows up to the last seal it read back.                     *)
(*                                                                         *)
(* Runs overlap when a lease lapses, die between any two statements, and   *)
(* lose answers of the bucket and of the receiver.  One step is one        *)
(* statement of the database, one request, or a read and the statement     *)
(* that follows it when nothing a reader could notice lies between them.   *)
(*                                                                         *)
(* An event is its sequence number.  A segment is the set of its events    *)
(* and stands for its own hash; a rolling hash is the sequence of the      *)
(* segments it covers, so that equal hashes mean equal chains.             *)
(***************************************************************************)
EXTENDS Integers, Sequences, FiniteSets

CONSTANTS Runners,      \* invocations of the scheduled handler
          Events,       \* bound: how many events are recorded
          SegmentSize,  \* SEGMENT_SIZE
          Lapses,       \* bound: leases that run out while their run goes on
          Faults        \* bound: runs that die, requests that fail, damaged objects

ASSUME ArchiveAssumption == Events \in Nat /\ SegmentSize \in Nat \ {0} /\ Lapses \in Nat /\ Faults \in Nat

VARIABLES recorded,     \* the last sequence number given out
          events,       \* audit_events: the rows still there
          intents,      \* audit_archive_intents
          seals,        \* audit_seals
          state,        \* audit_archive_state
          bucket,       \* AUDIT_BUCKET: from the keys written to the segments
          receiver,     \* the receiver's checkpoints, write-once
          orphans,      \* audit_archive_orphans
          run,          \* what each run has read and where it is
          lapsed, faults,
          damaged       \* has an object been damaged?

store == <<recorded, events, intents, seals, state, bucket, receiver, orphans>>
vars == <<recorded, events, intents, seals, state, bucket, receiver, orphans, run, lapsed, faults, damaged>>

None == "none"
MaxOf(S) == IF S = {} THEN 0 ELSE CHOOSE n \in S : \A k \in S : k <= n
MinOf(S) == CHOOSE n \in S : \A k \in S : n <= k
\* ORDER BY seq LIMIT n
FirstRows(S, n) == {e \in S : Cardinality({d \in S : d < e}) < n}

ChainHead == MaxOf({s.last : s \in seals})
HeadHash == IF seals = {} THEN <<>> ELSE (CHOOSE s \in seals : s.last = ChainHead).rolling
Key(i) == <<i.first, i.last>>
\* The intent a run freezes for the rows it read behind cursor.
Segment(cursor, prev, rows) ==
    [cursor |-> cursor, first |-> MinOf(rows), last |-> MaxOf(rows), segment |-> rows,
     prev |-> prev, rolling |-> Append(prev, rows)]
NoIntent == [cursor |-> -1]
IntentAt(cursor) ==
    IF \E i \in intents : i.cursor = cursor THEN CHOOSE i \in intents : i.cursor = cursor ELSE NoIntent

Idle == [pc |-> "idle"]
\* An ArchiveFault: its kind, and the key of the object if it names one.
NoKey == <<>>
ArchiveFault(kind, key) == [kind |-> kind, key |-> key]
NoFault == ArchiveFault(None, NoKey)
Init == /\ recorded = 0 /\ events = {} /\ intents = {} /\ seals = {} /\ orphans = {}
        /\ state = [verified |-> 0, hash |-> <<>>, anchored |-> 0, fault |-> NoFault, lease |-> None]
        /\ bucket = <<>> /\ receiver = {}
        /\ run = [r \in Runners |-> Idle]
        /\ lapsed = 0 /\ faults = 0 /\ damaged = FALSE

-----------------------------------------------------------------------------
\* recordAuditEvent: AUTOINCREMENT, committed in order by the one writer of the database.
Record == /\ recorded < Events
          /\ recorded' = recorded + 1
          /\ events' = events \cup {recorded + 1}
          /\ UNCHANGED <<intents, seals, state, bucket, receiver, orphans, run, lapsed, faults, damaged>>

Goto(r, pc) == run' = [run EXCEPT ![r].pc = pc]
\* A step that throws an ArchiveFault: the first one is reported, and once the
\* bucket is failing only the pruning is left.
Throw(r, kind, key, next) ==
    run' = [run EXCEPT ![r].pc = next,
                       ![r].fault = IF run[r].fault = NoFault THEN ArchiveFault(kind, key) ELSE run[r].fault]
BucketFails(r) == faults < Faults /\ faults' = faults + 1 /\ Throw(r, "bucket-unavailable", NoKey, "prune")

ClaimLease(r) ==
    /\ run[r].pc = "idle" /\ state.lease = None
    /\ state' = [state EXCEPT !.lease = r]
    /\ run' = [run EXCEPT ![r] = [pc |-> "head", read |-> state, fault |-> NoFault,
                                  cursor |-> 0, prev |-> <<>>, intent |-> NoIntent, upto |-> 0]]
    /\ UNCHANGED <<recorded, events, intents, seals, bucket, receiver, orphans, lapsed, faults, damaged>>

ReadHead(r) ==
    /\ run[r].pc = "head"
    /\ run' = [run EXCEPT ![r].pc = "look", ![r].cursor = ChainHead, ![r].prev = HeadHash]
    /\ UNCHANGED <<store, damaged, lapsed, faults>>

\* Drops the intents the head overtook, resumes the one of this position or
\* reads the rows behind it.
Look(r) ==
    LET here == run[r].cursor
        rows == FirstRows({e \in events : e > here}, SegmentSize)
    IN  /\ run[r].pc = "look"
        /\ intents' = {i \in intents : i.cursor >= here}
        /\ \/ /\ IntentAt(here) # NoIntent
              /\ run' = [run EXCEPT ![r].pc = "resume", ![r].intent = IntentAt(here)]
           \/ /\ IntentAt(here) = NoIntent /\ rows # {}
              /\ run' = [run EXCEPT ![r].pc = "freeze", ![r].intent = Segment(here, run[r].prev, rows)]
           \/ /\ IntentAt(here) = NoIntent /\ rows = {}
              /\ Goto(r, "verify")
        /\ UNCHANGED <<recorded, events, seals, state, bucket, receiver, orphans, lapsed, faults, damaged>>

\* Mutant: frozen wherever the head is by now.
MayFreezeAnywhere(i) == IntentAt(i.cursor) = NoIntent
\* INSERT OR IGNORE ... WHERE the head is the cursor
MayFreeze(i) == ChainHead = i.cursor /\ IntentAt(i.cursor) = NoIntent
Freeze(r) ==
    /\ run[r].pc = "freeze"
    /\ intents' = IF MayFreeze(run[r].intent) THEN intents \cup {run[r].intent} ELSE intents
    /\ Goto(r, "reread")
    /\ UNCHANGED <<recorded, events, seals, state, bucket, receiver, orphans, lapsed, faults, damaged>>

Reread(r) ==
    LET i == IntentAt(run[r].cursor)
    IN  /\ run[r].pc = "reread"
        /\ \/ i = NoIntent /\ Goto(r, "verify")
           \/ i # NoIntent /\ i.segment = run[r].intent.segment
              /\ run' = [run EXCEPT ![r].pc = "get", ![r].intent = i]
           \/ i # NoIntent /\ i.segment # run[r].intent.segment
              /\ run' = [run EXCEPT ![r].pc = "resume", ![r].intent = i]
        /\ UNCHANGED <<store, damaged, lapsed, faults>>

\* Resuming a frozen range: its rows must still hash to what was frozen.
Resume(r) ==
    LET i == run[r].intent
    IN  /\ run[r].pc = "resume"
        /\ IF {e \in events : i.first <= e /\ e <= i.last} = i.segment
           THEN Goto(r, "get") ELSE Throw(r, "segment-drift", Key(i), "verify")
        /\ UNCHANGED <<store, damaged, lapsed, faults>>

\* Mutant: any object at the key is taken for a conflict.
GetOnlyNew(r) ==
    LET key == Key(run[r].intent)
    IN  /\ run[r].pc = "get"
        /\ IF key \in DOMAIN bucket THEN Throw(r, "segment-conflict", key, "verify") ELSE Goto(r, "put")
        /\ UNCHANGED <<store, damaged, lapsed, faults>>
\* An object already at the key is adopted or faulted, never overwritten.
Get(r) ==
    LET key == Key(run[r].intent)
    IN  /\ run[r].pc = "get"
        /\ \/ /\ UNCHANGED faults
              /\ \/ key \notin DOMAIN bucket /\ Goto(r, "put")
                 \/ /\ key \in DOMAIN bucket /\ bucket[key].segment = run[r].intent.segment
                    /\ Goto(r, "seal")
                 \/ /\ key \in DOMAIN bucket /\ bucket[key].segment # run[r].intent.segment
                    /\ Throw(r, "segment-conflict", key, "verify")
           \/ BucketFails(r)
        /\ UNCHANGED <<store, damaged, lapsed>>

Written(i) == [segment |-> i.segment, rolling |-> i.rolling]
\* One that fails may have landed.
Put(r) ==
    LET key == Key(run[r].intent)
        landed == [k \in DOMAIN bucket \cup {key} |-> IF k = key THEN Written(run[r].intent) ELSE bucket[k]]
    IN  /\ run[r].pc = "put"
        /\ \/ Goto(r, "seal") /\ bucket' = landed /\ UNCHANGED faults
           \/ BucketFails(r) /\ bucket' \in {bucket, landed}
        /\ UNCHANGED <<recorded, events, intents, seals, state, receiver, orphans, lapsed, damaged>>

\* The seal and the end of its intent, in one batch: the frozen row, only while
\* the head is still the position it extends.
SealOf(i) == [first |-> i.first, last |-> i.last, segment |-> i.segment, prev |-> i.prev, rolling |-> i.rolling]
MaySeal(i) == /\ \E j \in intents : j.cursor = i.cursor /\ j.segment = i.segment
              /\ ChainHead = i.cursor /\ HeadHash = i.prev
Sealed(i, all) == \E s \in all : s.first = i.first /\ s.last = i.last /\ s.segment = i.segment
SealIntent(r) ==
    LET i == run[r].intent
    IN  /\ run[r].pc = "seal"
        /\ seals' = IF MaySeal(i) THEN seals \cup {SealOf(i)} ELSE seals
        /\ intents' = IF Sealed(i, seals') THEN {j \in intents : j.cursor # i.cursor \/ j.segment # i.segment}
                      ELSE intents
        /\ Goto(r, IF MaySeal(i) THEN "verify" ELSE "twin")
        /\ UNCHANGED <<recorded, events, state, bucket, receiver, orphans, lapsed, faults, damaged>>

Twin(r) ==
    /\ run[r].pc = "twin"
    /\ IF Sealed(run[r].intent, seals) THEN Goto(r, "verify") ELSE Throw(r, "seal-conflict", Key(run[r].intent), "verify")
    /\ UNCHANGED <<store, damaged, lapsed, faults>>

\* mutant: only the links are compared
IntactLink(s, prev) ==
    LET key == <<s.first, s.last>>
    IN  s.prev = prev /\ key \in DOMAIN bucket /\ bucket[key].rolling = s.rolling
\* checkSeal: the object reads back as sealed, carries the same link, and extends prev.
Intact(s, prev) ==
    LET key == <<s.first, s.last>>
    IN  /\ s.prev = prev /\ s.rolling = Append(s.prev, s.segment)
        /\ key \in DOMAIN bucket /\ bucket[key] = [segment |-> s.segment, rolling |-> s.rolling]
\* The seals behind what run r knew to be verified that read back in order.
Verified(r) ==
    LET known == run[r].read.verified
        behind == {s \in seals : s.last > known}
        before(s) == {d \in behind : d.last < s.last}
        prev(s) == IF before(s) = {} THEN run[r].read.hash
                   ELSE (CHOOSE d \in before(s) : \A o \in before(s) : o.last <= d.last).rolling
        from(s) == IF before(s) = {} THEN known ELSE MaxOf({d.last : d \in before(s)})
        good(s) == s.first > from(s) /\ Intact(s, prev(s))
    IN  {s \in behind : good(s) /\ \A d \in before(s) : good(d)}
\* The run may lose the bucket at any of them.
AdvanceVerified(r) ==
    LET known == run[r].read.verified
        all == Verified(r)
        behind == {s \in seals : s.last > known}
    IN  /\ run[r].pc = "verify"
        /\ \E upto \in {known} \cup {s.last : s \in all} :
             /\ state' = IF upto # known /\ state.verified = known
                         THEN [state EXCEPT !.verified = upto,
                                            !.hash = (CHOOSE s \in all : s.last = upto).rolling]
                         ELSE state
             /\ IF \E s \in all : s.last > upto
                THEN BucketFails(r)
                ELSE /\ UNCHANGED faults
                     /\ \/ behind = all /\ Goto(r, "anchor")
                        \/ \E s \in behind \ all : /\ \A d \in behind \ all : s.last <= d.last
                                                   /\ Throw(r, "verification-failed", Key(s), "anchor")
        /\ UNCHANGED <<recorded, events, intents, seals, bucket, receiver, orphans, lapsed, damaged>>

\* The verified seals nobody anchored yet, as read now.
ReadAnchors(r) ==
    /\ run[r].pc = "anchor"
    /\ run' = [run EXCEPT ![r].pc = "post", ![r].cursor = run[r].read.anchored, ![r].upto = state.verified]
    /\ UNCHANGED <<store, damaged, lapsed, faults>>

\* Mutant: what is sealed is anchored, read back or not.
PendingSealed(r) == {s \in seals : s.last > run[r].cursor}
Pending(r) == {s \in seals : s.last > run[r].cursor /\ s.last <= run[r].upto}
NextPending(r) == CHOOSE s \in Pending(r) : \A d \in Pending(r) : s.last <= d.last
Checkpoint(s) == [last |-> s.last, prev |-> s.prev, rolling |-> s.rolling]
\* The receiver: write-once per last, and each extends the one before.
Accepts(c) ==
    IF \E d \in receiver : d.last = c.last THEN c \in receiver
    ELSE LET earlier == {d \in receiver : d.last < c.last}
         IN  \/ earlier = {} /\ c.prev = <<>>
             \/ \E d \in earlier : d.rolling = c.prev /\ \A o \in earlier : o.last <= d.last

Post(r) ==
    LET s == NextPending(r) c == Checkpoint(s)
    IN  /\ run[r].pc = "post" /\ Pending(r) # {}
        /\ \/ /\ UNCHANGED faults
              /\ IF Accepts(c)
                 THEN receiver' = receiver \cup {c} /\ run' = [run EXCEPT ![r].cursor = s.last]
                 ELSE UNCHANGED receiver /\ Throw(r, "anchor-conflict", Key(s), "anchored")
           \/ /\ faults < Faults /\ faults' = faults + 1     \* not delivered, or its answer lost
              /\ receiver' \in {receiver, IF Accepts(c) THEN receiver \cup {c} ELSE receiver}
              /\ Goto(r, "anchored")
        /\ UNCHANGED <<recorded, events, intents, seals, state, bucket, orphans, lapsed, damaged>>

Anchored(r) ==
    /\ run[r].pc = "anchored" \/ (run[r].pc = "post" /\ Pending(r) = {})
    /\ state' = IF state.anchored = run[r].read.anchored THEN [state EXCEPT !.anchored = run[r].cursor] ELSE state
    /\ Goto(r, "reconcile")
    /\ UNCHANGED <<recorded, events, intents, seals, bucket, receiver, orphans, lapsed, faults, damaged>>

\* Objects with neither a seal nor an intent behind them are recorded once.
Unknown == DOMAIN bucket \ ({Key(i) : i \in intents} \cup {Key(s) : s \in seals})
ReconcileOrphans(r) ==
    /\ run[r].pc = "reconcile"
    /\ \/ /\ orphans' = orphans \cup Unknown /\ UNCHANGED faults
          /\ \/ Unknown \subseteq orphans /\ Goto(r, "prune")
             \/ \E key \in Unknown \ orphans : Throw(r, "orphan", key, "prune")
       \/ BucketFails(r) /\ orphans' \in {orphans \cup some : some \in SUBSET Unknown}
    /\ UNCHANGED <<recorded, events, intents, seals, state, bucket, receiver, lapsed, damaged>>

\* Rows past their class's hot window go, up to the last seal read back.
Ceiling == state.verified
PruneArchived(r) ==
    /\ run[r].pc = "prune"
    /\ \E aged \in SUBSET {e \in events : e <= Ceiling} : events' = events \ aged
    /\ Goto(r, "report")
    /\ UNCHANGED <<recorded, intents, seals, state, bucket, receiver, orphans, lapsed, faults, damaged>>

\* reportFault, when the fault is not the one this run found reported, of the
\* same kind and key, and the release of the lease, if it is still this run's.
Finish(r) ==
    LET reported == IF run[r].fault = run[r].read.fault THEN state.fault ELSE run[r].fault
    IN  /\ run[r].pc = "report"
        /\ state' = [state EXCEPT !.fault = reported, !.lease = IF state.lease = r THEN None ELSE state.lease]
        /\ run' = [run EXCEPT ![r] = Idle]
        /\ UNCHANGED <<recorded, events, intents, seals, bucket, receiver, orphans, lapsed, faults, damaged>>

-----------------------------------------------------------------------------
\* LEASE_MS is over while its run still goes on.
Lapse == /\ state.lease # None /\ run[state.lease].pc # "idle" /\ lapsed < Lapses
         /\ lapsed' = lapsed + 1 /\ state' = [state EXCEPT !.lease = None]
         /\ UNCHANGED <<recorded, events, intents, seals, bucket, receiver, orphans, run, faults, damaged>>
\* The lease of a run that is gone runs out in any case.
Expire == /\ state.lease # None /\ run[state.lease].pc = "idle"
          /\ state' = [state EXCEPT !.lease = None]
          /\ UNCHANGED <<recorded, events, intents, seals, bucket, receiver, orphans, run, lapsed, faults, damaged>>
Die(r) == /\ run[r].pc # "idle" /\ faults < Faults /\ faults' = faults + 1
          /\ run' = [run EXCEPT ![r] = Idle]
          /\ UNCHANGED <<store, damaged, lapsed>>
\* An object not yet read back is lost, or holds other bytes.
Unread == {k \in DOMAIN bucket : k[2] > state.verified}
Damage == /\ faults < Faults /\ faults' = faults + 1
          /\ \E k \in Unread :
                bucket' \in {[bucket EXCEPT ![k].segment = {}], [j \in DOMAIN bucket \ {k} |-> bucket[j]]}
          /\ damaged' = TRUE
          /\ UNCHANGED <<recorded, events, intents, seals, state, receiver, orphans, run, lapsed>>

Step(r) == \/ ReadHead(r) \/ Look(r) \/ Freeze(r) \/ Reread(r) \/ Resume(r) \/ Get(r) \/ Put(r)
           \/ SealIntent(r) \/ Twin(r) \/ AdvanceVerified(r) \/ ReadAnchors(r) \/ Post(r) \/ Anchored(r)
           \/ ReconcileOrphans(r) \/ PruneArchived(r) \/ Finish(r)
Next == \/ Record \/ Lapse \/ Expire \/ Damage
        \/ \E r \in Runners : ClaimLease(r) \/ Step(r) \/ Die(r)
Spec == Init /\ [][Next]_vars

\* The cron trigger keeps coming, a run it starts goes on unless it dies, and leases run out.
Fairness == /\ WF_vars(\E r \in Runners : ClaimLease(r)) /\ WF_vars(Expire)
            /\ \A r \in Runners : WF_vars(Step(r))
FairSpec == Spec /\ Fairness

-----------------------------------------------------------------------------
\* verifyAuditArchive: each of the newest n seals extends the one before it, the
\* first of them the seal just before the window.
Newest(n) == {s \in seals : Cardinality({d \in seals : d.last > s.last}) < n}
ChainOk(s) ==
    LET before == {d \in seals : d.last < s.last}
    IN  /\ s.prev = IF before = {} THEN <<>> ELSE (CHOOSE d \in before : \A o \in before : o.last <= d.last).rolling
        /\ s.rolling = Append(s.prev, s.segment)
VerifyAuditArchive(n) == \A s \in Newest(n) : ChainOk(s)

\* The chain does not fork: every seal continues the seals before it, row for row,
\* every checkpoint the receiver holds is the link of a seal read back, and an
\* auditor's window confirms the links it covers, however short it is.
Unforked ==
    /\ \A s \in seals :
        LET before == {d \in seals : d.last < s.last}
        IN  /\ s.segment = s.first..s.last /\ s.first = MaxOf({d.last : d \in before}) + 1
            /\ Len(s.rolling) = Cardinality(before) + 1
            /\ \A d \in before : d.rolling = SubSeq(s.rolling, 1, Len(d.rolling))
    /\ \A c \in receiver : c.last <= state.verified /\ c.rolling = SubSeq(state.hash, 1, Len(c.rolling))
    /\ \A n \in 1..Cardinality(seals) : VerifyAuditArchive(n)

\* A crash between two statements leaves no object nobody can account for, and
\* overlapping runs do not accuse each other: a fault that names a conflict is
\* reported only once an object was damaged.
NoFalseAlarm ==
    /\ orphans = {} /\ Unknown = {}
    /\ state.fault.kind \notin {"seal-conflict", "anchor-conflict", "orphan"}
    /\ state.fault.kind \in {"segment-conflict", "verification-failed"} => damaged

\* The archive as AuditChain sees it: what the objects read back so far hold.
ReadBack == [i \in DOMAIN state.hash |->
    bucket[Key(CHOOSE s \in seals : s.rolling = SubSeq(state.hash, 1, i))].segment]
Archive == INSTANCE AuditChain WITH hot <- events, chain <- ReadBack
\* The sweep implements the append-only chain,
KeepsTheChain == Archive!Spec
\* which does not fork, and with the table holds every event, whatever is pruned.
OneChain == Unforked /\ Archive!NothingLost

\* Every recorded event is read back from the archive in the end, unless an object was damaged.
EverythingArchived == \A e \in 1..Events : (recorded >= e) ~> (state.verified >= e \/ damaged)
\* Damage is reported: a tick finds the object of a seal or of an intent lost or
\* altered and says so, unless an overlapping run writes it anew first.
Defective == \/ \E k \in DOMAIN bucket : bucket[k].segment = {}
             \/ \E s \in seals : Key(s) \notin DOMAIN bucket
DamageIsReported == Defective ~> (state.fault # NoFault \/ ~Defective)
\* What is recorded is archived in the end, and what is damaged is reported.
ArchiveKeepsUp == EverythingArchived /\ DamageIsReported
=============================================================================
