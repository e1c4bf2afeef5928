---------------------------- MODULE Publication ----------------------------
(***************************************************************************)
(* Publishing and regulated data (core/publish/index.ts, regulated.ts,     *)
(* audit.ts).  Health data is never published.  A publish reads the page,  *)
(* passes a gate, takes a snapshot, is audited per target, where the gate  *)
(* is checked again, and hands the snapshot to the target; each read is an *)
(* await, and editors and administrators go on (module Sensitivity).       *)
(*                                                                         *)
(* One page, one target; parents and projection of the content are left    *)
(* out, and so is the refusal of submission mirrors (SubmissionMirrors).   *)
(***************************************************************************)
EXTENDS Sensitivity

CONSTANT Jobs   \* publishes under way: requests and job items

VARIABLES
    policyRead,  \* the classification map a publish has cached in its request
    job

publishing == <<policyRead, job>>
allVars    == <<vars, publishing>>

Idle == [phase |-> "idle"]

PublishInit ==
    /\ Init
    /\ policyRead = [j \in Jobs |-> level]
    /\ job = [j \in Jobs |-> Idle]

Refuse(j) == job' = [job EXCEPT ![j] = Idle]

Goes(j, to) == job' = [job EXCEPT ![j].phase = to]

(* A request reads the policy once, whatever it does afterwards.            *)
StartRequest(j) ==
    /\ job[j].phase = "idle"
    /\ policyRead' = [policyRead EXCEPT ![j] = level]
    /\ UNCHANGED <<vars, job>>

(* The page row, read or handed over by a bulk operation.                   *)
Begin(j, p) ==
    /\ job[j].phase = "idle"
    /\ draft[p] # None
    /\ job' = [job EXCEPT ![j] = [phase |-> "begun", page |-> p, type |-> draft[p].type,
                                  was |-> seen[p]]]
    /\ UNCHANGED <<vars, policyRead>>

(* regulatedPages: the floor of the uuid and the class of the type ...      *)
TypeOnly(j)   == policyRead[j][job[j].type] = 2                     \* mutant
Regulated(j)  == floor[job[j].page] = 2 \/ policyRead[j][job[j].type] = 2

CheckPage(j) ==
    /\ job[j].phase = "begun"
    /\ IF Regulated(j) THEN Refuse(j) ELSE Goes(j, "known")
    /\ UNCHANGED <<vars, policyRead>>

(* ... then the taxonomies of the tags it has by now.                       *)
Tagged(p)           == IF draft[p] = None THEN {} ELSE draft[p].tags \cap Existing
RegulatedTags(p, policy) == \E t \in Tagged(p) : policy[group[t]] = 2

CheckTags(j) ==
    /\ job[j].phase = "known"
    /\ IF RegulatedTags(job[j].page, policyRead[j]) THEN Refuse(j) ELSE Goes(j, "cleared")
    /\ UNCHANGED <<vars, policyRead>>

(* buildSnapshots: the tags, with the taxonomy each is in.                  *)
TakeSnapshot(j) ==
    /\ job[j].phase = "cleared"
    /\ job' = [job EXCEPT ![j] =
          [phase |-> "taken", page |-> job[j].page, type |-> job[j].type, was |-> job[j].was,
           groups |-> {group[t] : t \in Tagged(job[j].page)}]]
    /\ UNCHANGED <<vars, policyRead>>

(* auditPublishTransfer, prepareReadAudits: with the policy of the moment,  *)
(* the types and taxonomies of the snapshot, the floor of the row the page  *)
(* id has in pages, and the tags on it.                                     *)
FloorOfRow(p) == IF draft[p] = None THEN 0 ELSE floor[p]

AuditRefuses(j) ==
    LET p == job[j].page IN
    \/ FloorOfRow(p) = 2
    \/ \E c \in {job[j].type} \cup job[j].groups : level[c] = 2
    \/ RegulatedTags(p, level)

Audit(j) ==
    /\ job[j].phase = "taken"
    /\ job' = [job EXCEPT ![j] =
          IF AuditRefuses(j) THEN Idle
          ELSE [phase |-> "audited", page |-> job[j].page, type |-> job[j].type,
                was |-> job[j].was, checked |-> seen[job[j].page],
                trashed |-> draft[job[j].page] = None]]
    /\ policyRead' = [policyRead EXCEPT ![j] = level]
    /\ UNCHANGED vars

Land(j) ==
    /\ job[j].phase = "audited"
    /\ job' = [job EXCEPT ![j] = Idle]
    /\ UNCHANGED <<vars, policyRead>>

PublishNext ==
    \/ Next /\ UNCHANGED publishing
    \/ \E j \in Jobs, p \in Pages : Begin(j, p)
    \/ \E j \in Jobs : StartRequest(j) \/ CheckPage(j) \/ CheckTags(j) \/ TakeSnapshot(j) \/ Audit(j) \/ Land(j)

PublishSpec == PublishInit /\ [][PublishNext]_allVars

-----------------------------------------------------------------------------
(* A page that was ever health data when a publish of it began does not     *)
(* reach a target, however its type, tags and policies have changed since   *)
(* and however long ago the publish read the policy it goes by; nor does    *)
(* one that had become health data when the transfer was checked, if it was *)
(* still a draft.                                                           *)
HealthDataStays ==
    [][\A j \in Jobs : Land(j) =>
           job[j].was < 2 /\ (job[j].checked < 2 \/ job[j].trashed)]_allVars
=============================================================================
