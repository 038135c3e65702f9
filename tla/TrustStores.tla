----------------------------- MODULE TrustStores ----------------------------
(***************************************************************************)
(* Administered trust stores (api/trust_stores.py,                        *)
(* services/trust_stores.py), the profiles that select them (module       *)
(* Versioning, whose contents are here the sets of selected stores) and   *)
(* the scans that pin their versions (services/planner.py).               *)
(*                                                                         *)
(* A store has numbered, immutable versions, each a set of certificates.  *)
(* A publication computes the new set from the current one, then takes    *)
(* the row lock of the store to number and insert it.                     *)
(***************************************************************************)
EXTENDS Versioning

CONSTANTS Stores,            \* technical identifiers, never used again
          Certs,             \* public CA certificates
          Anchors,           \* the self-signed ones
          MaxStoreVersions,  \* bound: versions of a store
          MaxRuns,           \* bound: runs with a snapshot at a time
          NoEditor

ASSUME TrustStoresAssumption ==
  /\ Contents \subseteq SUBSET Stores
  /\ Anchors \subseteq Certs

ASSUME NoEditorAssumption == NoEditor \notin Editors

VARIABLES
  store,      \* rows of trust_stores, trust_store_versions and _certificates
  rowLock,    \* who holds the row lock of each store
  snapshots,  \* what the runs that exist pinned (scan_runs.config_snapshot)
  collisions  \* publications refused because their number was taken

catalogue == <<versions, request, store, rowLock, snapshots, collisions>>

Never == [state |-> "never", active |-> FALSE, versions |-> << >>]
Live(s) == store[s].state = "live"
Selectable(s) == Live(s) /\ store[s].active
Current(s) == store[s].versions[Len(store[s].versions)]  \* current_version

Init == /\ VersioningInit
        /\ store = [s \in Stores |-> Never]
        /\ rowLock = [s \in Stores |-> NoEditor]
        /\ snapshots = {}
        /\ collisions = 0

StoresAlone == UNCHANGED <<store, rowLock, snapshots, collisions>>
ItemsAlone  == UNCHANGED <<versions, snapshots>>
-----------------------------------------------------------------------------
(* Publications. *)

\* create_store: row and first version, one commit; one anchor at least.
create_store(e, s, files) ==
  /\ request[e].pc = "idle"
  /\ store[s] = Never
  /\ files \cap Anchors # {}
  /\ store' = [store EXCEPT ![s] = [state |-> "live", active |-> TRUE, versions |-> << files >>]]
  /\ ItemsAlone /\ UNCHANGED <<request, rowLock, collisions>>

\* publish_version: the certificates to keep are read, without a lock.  The
\* base "empty" drops them all.
publish_version(e, s, remove, files) ==
  /\ request[e].pc = "idle"
  /\ Live(s)
  /\ remove \cup files # {}
  /\ Becomes(e, [pc |-> "lock", store |-> s, remove |-> remove,
                 certs |-> (Current(s) \ remove) \cup files])
  /\ ItemsAlone /\ UNCHANGED <<store, rowLock, collisions>>

Numbering(q) == [pc |-> "flush", store |-> q.store, remove |-> q.remove, certs |-> q.certs,
                 number |-> Len(store[q.store].versions) + 1]

\* Mutated forms: no row lock; a set without an anchor passes.
create_version_no_lock(e) ==
  /\ request[e].pc = "lock"
  /\ LET q == request[e] IN
     IF Live(q.store) /\ q.certs \cap Anchors # {} THEN Becomes(e, Numbering(q)) ELSE Answers(e)
  /\ ItemsAlone /\ UNCHANGED <<store, rowLock, collisions>>
create_version_no_anchor(e) ==
  /\ request[e].pc = "lock"
  /\ rowLock[request[e].store] = NoEditor
  /\ LET q == request[e] IN
     IF Live(q.store)
     THEN Becomes(e, Numbering(q)) /\ rowLock' = [rowLock EXCEPT ![q.store] = e]
     ELSE Answers(e) /\ UNCHANGED rowLock
  /\ ItemsAlone /\ UNCHANGED <<store, collisions>>

\* create_version: the row lock, the check, the next number.  A store that is
\* gone cannot be locked, and the INSERT is refused.
create_version(e) ==
  /\ request[e].pc = "lock"
  /\ rowLock[request[e].store] = NoEditor
  /\ LET q == request[e] IN
     IF Live(q.store) /\ q.certs \cap Anchors # {}
     THEN Becomes(e, Numbering(q)) /\ rowLock' = [rowLock EXCEPT ![q.store] = e]
     ELSE Answers(e) /\ UNCHANGED rowLock
  /\ ItemsAlone /\ UNCHANGED <<store, collisions>>

\* INSERT of the version and its certificates, and the commit; the unique key
\* refuses a number that is taken (and the bound one that is too large).
InsertVersion(e) ==
  /\ request[e].pc = "flush"
  /\ LET q == request[e]
         taken == q.number \in DOMAIN store[q.store].versions
     IN /\ store' = IF taken \/ q.number > MaxStoreVersions THEN store
                    ELSE [store EXCEPT ![q.store].versions = Append(@, q.certs)]
        /\ collisions' = IF taken THEN collisions + 1 ELSE collisions
        /\ rowLock' = [s \in Stores |-> IF rowLock[s] = e THEN NoEditor ELSE rowLock[s]]
  /\ Answers(e)
  /\ ItemsAlone
-----------------------------------------------------------------------------
(* The rows of the stores. *)

\* update_store: activate or deactivate; the UPDATE waits for the row lock.
update_store(e, s) ==
  /\ request[e].pc = "idle"
  /\ Live(s) /\ rowLock[s] = NoEditor
  /\ store' = [store EXCEPT ![s].active = ~@]
  /\ ItemsAlone /\ UNCHANGED <<request, rowLock, collisions>>

\* profile_usage, run_usage_count: any version of a profile, any run.
profile_usage(s) == {i \in Items : \E n \in DOMAIN versions[i] : s \in versions[i][n].content}
run_usage(s) == {x \in snapshots : s \in DOMAIN x.pinned}

\* delete_store: the check ...
delete_store(e, s) ==
  /\ request[e].pc = "idle"
  /\ Live(s)
  /\ profile_usage(s) = {} /\ run_usage(s) = {}
  /\ Becomes(e, [pc |-> "erase", store |-> s])
  /\ ItemsAlone /\ UNCHANGED <<store, rowLock, collisions>>

\* ... and the DELETE, which cascades; that of a row already gone has no effect.
Erase(e) ==
  /\ request[e].pc = "erase"
  /\ LET s == request[e].store IN
     /\ rowLock[s] = NoEditor
     /\ store' = [store EXCEPT ![s] = [state |-> "erased", active |-> FALSE, versions |-> << >>]]
  /\ Answers(e)
  /\ ItemsAlone /\ UNCHANGED <<rowLock, collisions>>
-----------------------------------------------------------------------------
(* Launches. *)

\* build_snapshot: the latest published version of the profile; the stores it
\* selects are resolved one by one.
Plan(i, n, selected, todo, pinned) ==
  [pc |-> "resolve", item |-> i, version |-> n, selected |-> selected,
   todo |-> todo, pinned |-> pinned]

build_snapshot(e, i) ==
  /\ request[e].pc = "idle"
  /\ \E n \in latest_published(i) :
       LET c == versions[i][n].content IN Becomes(e, Plan(i, n, c, c, << >>))
  /\ ItemsAlone /\ UNCHANGED <<store, rowLock, collisions>>

Pin(q, s) == [pc |-> "certificates", item |-> q.item, version |-> q.version,
              selected |-> q.selected, todo |-> q.todo \ {s}, pinned |-> q.pinned,
              store |-> s, number |-> Len(store[s].versions)]

\* Mutated form: a store that cannot be used is passed over.
ResolveStore_skips(e) ==
  /\ request[e].pc = "resolve"
  /\ LET q == request[e] IN
     \E s \in q.todo :
       Becomes(e, IF Selectable(s) THEN Pin(q, s) ELSE [q EXCEPT !.todo = @ \ {s}])
  /\ ItemsAlone /\ UNCHANGED <<store, rowLock, collisions>>

\* resolve_for_snapshot, a selected store: it must be there and active, and
\* its current version is pinned ...
ResolveStore(e) ==
  /\ request[e].pc = "resolve"
  /\ LET q == request[e] IN
     \E s \in q.todo : Becomes(e, IF Selectable(s) THEN Pin(q, s) ELSE Idle)  \* PlanError
  /\ ItemsAlone /\ UNCHANGED <<store, rowLock, collisions>>

\* Mutated form: the certificates are those of the version that is current now.
version_certificates_current(s, n) ==
  IF Live(s) THEN store[s].versions[Len(store[s].versions)] ELSE {}

version_certificates(s, n) ==
  IF n \in DOMAIN store[s].versions THEN store[s].versions[n] ELSE {}

\* ... then its certificates are read; none of them an anchor, no scan.
PinCertificates(e) ==
  /\ request[e].pc = "certificates"
  /\ LET q == request[e]
         certs == version_certificates(q.store, q.number)
         pinned == [s \in DOMAIN q.pinned \cup {q.store} |->
                      IF s = q.store THEN [number |-> q.number, certs |-> certs] ELSE q.pinned[s]]
     IN Becomes(e, IF certs \cap Anchors = {} THEN Idle
                   ELSE Plan(q.item, q.version, q.selected, q.todo, pinned))
  /\ ItemsAlone /\ UNCHANGED <<store, rowLock, collisions>>

\* create_run commits the run with its snapshot (module RunQueue); selected is
\* what its profile version said, kept for the properties.
QueueRun(e) ==
  /\ request[e].pc = "resolve" /\ request[e].todo = {}
  /\ Cardinality(snapshots) < MaxRuns
  /\ snapshots' = snapshots \cup
       {[item |-> request[e].item, version |-> request[e].version,
         selected |-> request[e].selected, pinned |-> request[e].pinned]}
  /\ Answers(e)
  /\ UNCHANGED <<versions, store, rowLock, collisions>>

\* delete_run, purge: a run and its snapshot go.
DeleteRun(x) ==
  /\ snapshots' = snapshots \ {x}
  /\ UNCHANGED <<versions, request, store, rowLock, collisions>>
-----------------------------------------------------------------------------
\* _validate: a profile may only select existing, active stores.
SelectStores(e, i, c) ==
  /\ create_item(e, i, c) \/ new_version(e, i, c)
  /\ \A s \in c : Selectable(s)
  /\ StoresAlone

EditorStep(e) ==
  \/ EditStep(e) /\ StoresAlone
  \/ create_version(e) \/ InsertVersion(e) \/ Erase(e)
  \/ ResolveStore(e) \/ PinCertificates(e) \/ QueueRun(e)

Request(e) ==
  \/ \E i \in Items, c \in Contents : SelectStores(e, i, c)
  \/ \E i, copy \in Items : duplicate(e, i, copy) /\ StoresAlone
  \/ \E i \in Items : publish(e, i) /\ StoresAlone
  \/ \E i \in Items : build_snapshot(e, i)
  \/ \E s \in Stores, files \in SUBSET Certs :
       \/ create_store(e, s, files)
       \/ \E remove \in SUBSET Certs : publish_version(e, s, remove, files)
  \/ \E s \in Stores : update_store(e, s) \/ delete_store(e, s)

Next == \/ \E e \in Editors : EditorStep(e) \/ Request(e)
        \/ \E x \in snapshots : DeleteRun(x)

Spec == Init /\ [][Next]_catalogue
-----------------------------------------------------------------------------
TypeOK ==
  /\ VersioningTypeOK
  /\ \A s \in Stores : /\ store[s].state \in {"never", "live", "erased"}
                       /\ store[s].versions \in Seq(SUBSET Certs)
                       /\ Live(s) <=> store[s].versions # << >>
                       /\ rowLock[s] # NoEditor => request[rowLock[s]].pc = "flush"

\* Every version of a store has a Root CA, although the set is computed from a
\* reading that may be stale when it is inserted (create_version).
EveryVersionHasAnchor ==
  \A s \in Stores : \A n \in DOMAIN store[s].versions : store[s].versions[n] \cap Anchors # {}

\* Concurrent publications get numbers of their own: none is refused (the row
\* lock of create_version; test_concurrent_publications_never_collide).
PublicationsNeverCollide == collisions = 0

\* A run carries every store its profile version selected when it was
\* launched: a store that is disabled or gone is never passed over.
NoSilentDowngrade == \A x \in snapshots : DOMAIN x.pinned = x.selected

\* A run verifies with the certificates of the very version it names, although
\* the number and the certificates are read in two statements and the store
\* may be published, disabled or erased in between (resolve_for_snapshot).
SnapshotsPinVersions ==
  \A x \in snapshots : \A s \in DOMAIN x.pinned :
    Live(s) => x.pinned[s].certs = store[s].versions[x.pinned[s].number]

\* "The current certificates (or none) minus `remove`, plus the uploaded ones"
\* (publish_version): no certificate leaves a store that nobody removed.
OnlyRemovedLeave ==
  [][\A e \in Editors, s \in Stores :
       /\ request[e].pc = "flush" /\ request[e].store = s
       /\ request'[e].pc = "idle"
       => Current(s) \ Current(s)' \subseteq request[e].remove]_catalogue
=============================================================================
