---------------------------- MODULE RunLifecycle ----------------------------
(***************************************************************************)
(* What the run queue promises to the people who use it, with no worker,  *)
(* request, lock or heartbeat in sight: the life of the rows of scan_runs *)
(* (docs/architecture/overview.md, "Run lifecycle" and "De-duplication"). *)
(*                                                                         *)
(* A row is queued, may start, is decided and may be deleted.  At most    *)
(* one row of a fingerprint is active, at most MaxConcurrent rows run, a  *)
(* row that waits can only be cancelled, and a decided row never becomes  *)
(* active again.  A decision may be revised by a later one: the code does *)
(* that when a late writer still holds an earlier reading of the row.     *)
(***************************************************************************)
EXTENDS Naturals, FiniteSets

CONSTANTS Runs,          \* identifiers of rows, each used for one row at most
          Fingerprints,  \* hashes of effective configurations
          NoFingerprint, \* the fingerprint of an identifier without a row
          MaxConcurrent  \* settings.max_concurrent_scans

VARIABLES status, fingerprint

lvars == <<status, fingerprint>>

ACTIVE_STATUSES == {"queued", "running"}
FINAL_STATUSES  == {"completed", "partial", "failed", "cancelled", "expired"}
Statuses == {"absent", "deleted"} \cup ACTIVE_STATUSES \cup FINAL_STATUSES

Active(f) == {r \in Runs : status[r] \in ACTIVE_STATUSES /\ fingerprint[r] = f}
Running   == {r \in Runs : status[r] = "running"}

Init == /\ status = [r \in Runs |-> "absent"]
        /\ fingerprint = [r \in Runs |-> NoFingerprint]

Queue(r, f) == /\ status[r] = "absent"
               /\ Active(f) = {}
               /\ status' = [status EXCEPT ![r] = "queued"]
               /\ fingerprint' = [fingerprint EXCEPT ![r] = f]

Start(r) == /\ status[r] = "queued"
            /\ Cardinality(Running) < MaxConcurrent
            /\ status' = [status EXCEPT ![r] = "running"]
            /\ UNCHANGED fingerprint

\* Rows that exist get a final status; one that waits can only be cancelled.
Decide == /\ status' \in [Runs -> Statuses]
          /\ \A r \in Runs : status'[r] # status[r] =>
                /\ status[r] \in ACTIVE_STATUSES \cup FINAL_STATUSES
                /\ status'[r] \in FINAL_STATUSES
                /\ status[r] = "queued" => status'[r] = "cancelled"
          /\ UNCHANGED fingerprint

Delete(r) == /\ status[r] \in FINAL_STATUSES
             /\ status' = [status EXCEPT ![r] = "deleted"]
             /\ fingerprint' = [fingerprint EXCEPT ![r] = NoFingerprint]

Next == \/ \E r \in Runs, f \in Fingerprints : Queue(r, f)
        \/ \E r \in Runs : Start(r) \/ Delete(r)
        \/ Decide

Spec == Init /\ [][Next]_lvars
=============================================================================
