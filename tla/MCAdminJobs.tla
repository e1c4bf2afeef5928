---------------------------- MODULE MCAdminJobs ----------------------------
(***************************************************************************)
(* Background work for TLC, each behaviour one of: the jobs of AdminJobs   *)
(* (two invocations, slices of one page); a request that reads classified  *)
(* pages; two incidents and the monitor; or one incident, the monitor and  *)
(* its reviewers.  They share no state.                                    *)
(***************************************************************************)
EXTENDS AdminJobs, FiniteSetsExt

CONSTANTS Requests, Reviewers, Decisions, Incidents, PageSize, MaxBreaks

VARIABLES part, policy, floor, trail, req, down, breaks, reports, journal, noted, received,
          health, mon, marker, receipt, decided, saved, old, rev

auditVars == <<policy, floor, trail, req, down, breaks, reports, journal, noted, received,
               health, mon, marker, receipt, decided, saved, old, rev>>

Audit == INSTANCE AuditOutages

ASSUME AuditAssumption == Audit!OutageAssumption

PartsInit == /\ Init /\ Audit!Init
             /\ part \in {"jobs", "reads", "alerts", "reviews"}
             /\ part # "reads" => policy = 0
             /\ part # "jobs" => bound
AuditNext == \/ part = "reads" /\ (Audit!ReadingNext \/ Audit!Outages)
             \/ part = "alerts" /\ (Audit!IncidentsNext \/ Audit!Outages) /\ UNCHANGED Audit!reviews
             \/ part = "reviews" /\ (Audit!IncidentsNext \/ Audit!Outages) /\ reports'[Min(Incidents)] = "unused"
PartsNext == /\ UNCHANGED part
             /\ \/ part = "jobs" /\ Next /\ UNCHANGED auditVars
                \/ AuditNext /\ UNCHANGED vars
allVars == <<part, vars, auditVars>>
Told(A) == part \in {"alerts", "reviews"} /\ A /\ UNCHANGED <<part, vars>>
Parts == /\ PartsInit /\ [][PartsNext]_allVars /\ Fairness /\ WF_allVars(Told(Audit!Watched))
         /\ \A x \in {"database", "journal", "receiver"} : WF_allVars(Told(Audit!Mended(x)))
         /\ \A i \in Incidents : WF_allVars(Told(Audit!Lapsed(i)))

EvidenceSound == Audit!EvidenceSound
AlertsArrive == Audit!AlertsArrive
=============================================================================
