--------------------------- MODULE CatalogueProofs --------------------------
(***************************************************************************)
(* Proofs about TrustStores, for any numbers of people, items, stores and *)
(* certificates.                                                          *)
(***************************************************************************)
EXTENDS TrustStores, FiniteSetTheorems, TLAPS

Version == [status : {"draft", "published", "archived"}, content : Contents]
StoreRow == [state : {"never", "live", "erased"}, active : BOOLEAN, versions : Seq(SUBSET Certs)]

\* Rows have the columns of their tables; only a store that is there has versions.
Rows == /\ versions \in [Items -> Seq(Version)]
        /\ store \in [Stores -> StoreRow]
        /\ \A s \in Stores : Live(s) <=> store[s].versions # << >>
        /\ rowLock \in [Stores -> Editors \cup {NoEditor}]
        /\ DOMAIN request = Editors

\* What an edit or a publication read is a row that still is there.
EditOK(e) ==
  /\ request[e].pc \in {"create", "edit", "number", "insert", "save"} =>
       request[e].item \in Items /\ request[e].content \in Contents
  /\ request[e].pc \in {"save", "publish", "archive"} =>
       request[e].item \in Items /\ request[e].draft \in DOMAIN versions[request[e].item]

\* Who is about to insert a version holds the row lock of a store that is
\* there, and its number is the next one.
LockOK(e) ==
  /\ request[e].pc \in {"lock", "flush", "erase"} => request[e].store \in Stores
  /\ request[e].pc \in {"lock", "flush"} => request[e].certs \subseteq Certs
  /\ request[e].pc = "flush" =>
       /\ rowLock[request[e].store] = e
       /\ Live(request[e].store)
       /\ request[e].number = Len(store[request[e].store].versions) + 1
       /\ request[e].certs \cap Anchors # {}

\* A version that is named exists as long as its store does.
Named(s, n) == /\ s \in Stores
               /\ store[s].state # "never"
               /\ Live(s) => n \in DOMAIN store[s].versions

Pinned(p) == \A s \in DOMAIN p :
               /\ Named(s, p[s].number)
               /\ Live(s) => p[s].certs = store[s].versions[p[s].number]

\* A launch has pinned, or has still to pin, each selected store.
LaunchOK(e) ==
  /\ request[e].pc \in {"resolve", "certificates"} =>
       request[e].selected \subseteq Stores /\ Pinned(request[e].pinned)
  /\ request[e].pc = "resolve" =>
       DOMAIN request[e].pinned \cup request[e].todo = request[e].selected
  /\ request[e].pc = "certificates" =>
       /\ DOMAIN request[e].pinned \cup request[e].todo \cup {request[e].store}
            = request[e].selected
       /\ Named(request[e].store, request[e].number)

RequestInv == \A e \in Editors : EditOK(e) /\ LockOK(e) /\ LaunchOK(e)

SnapshotInv == \A x \in snapshots : DOMAIN x.pinned = x.selected /\ Pinned(x.pinned)

Inv == /\ Rows /\ RequestInv /\ SnapshotInv
       /\ EveryVersionHasAnchor /\ PublicationsNeverCollide
-----------------------------------------------------------------------------
(* How the tables grow. *)

\* Versions of an item are never deleted, and one that is published keeps
\* its item published.
ItemsGrow == \A i \in Items :
  /\ DOMAIN versions[i] \subseteq DOMAIN versions'[i]
  /\ Numbered(i, "published") # {} => Numbered(i, "published")' # {}

\* Neither are those of a store, until the store is erased for good.
StoresGrow == \A s \in Stores :
  store[s].state # "never" =>
    /\ store'[s].state # "never"
    /\ Live(s)' => /\ Live(s)
                   /\ \A n \in DOMAIN store[s].versions :
                        /\ n \in DOMAIN store'[s].versions
                        /\ store'[s].versions[n] = store[s].versions[n]

\* A step of e leaves the records of the others and the rows they locked.
OthersAlone(e) == \A x \in Editors : x # e => request'[x] = request[x]
LocksKept(e) == \A x \in Editors : x # e /\ request[x].pc = "flush" =>
                  /\ store'[request[x].store] = store[request[x].store]
                  /\ rowLock'[request[x].store] = rowLock[request[x].store]

\* A step writes the record of one request only.
LEMMA OneRequest ==
  ASSUME Rows, NEW e \in Editors, NEW r, Becomes(e, r)
  PROVE  /\ DOMAIN request' = Editors
         /\ request'[e] = r
         /\ OthersAlone(e)
BY DEF Rows, Becomes, OthersAlone

\* What a request named stays named, what it pinned stays what it was.
LEMMA NamedStays ==
  ASSUME StoresGrow, NEW s, NEW n, Named(s, n)
  PROVE  Named(s, n)'
BY DEF StoresGrow, Named, Live

LEMMA PinnedStays ==
  ASSUME StoresGrow, NEW p, Pinned(p)
  PROVE  Pinned(p)'
BY DEF StoresGrow, Named, Pinned, Live
-----------------------------------------------------------------------------
(* Steps on the items. *)

\* What the steps of this part leave alone, and what follows.
LEMMA ItemsAloneGrow ==
  ASSUME Rows, versions' = versions
  PROVE  ItemsGrow /\ versions' \in [Items -> Seq(Version)]
BY DEF Rows, ItemsGrow, Numbered

LEMMA InsertItemGrows ==
  ASSUME Rows, RequestInv, NEW e \in Editors, InsertItem(e)
  PROVE  ItemsGrow /\ versions' \in [Items -> Seq(Version)]
<1> DEFINE i == request[e].item
           row == Draft(request[e].content)
<1>1. i \in Items /\ row \in Version
  BY DEF InsertItem, RequestInv, EditOK, Draft, Version
<1>2. CASE versions' = versions
  BY <1>2, ItemsAloneGrow
<1>3. CASE versions[i] = << >> /\ versions' = [versions EXCEPT ![i] = << row >>]
  <2>1. << row >> \in Seq(Version)
    BY <1>1
  <2>2. versions' \in [Items -> Seq(Version)]
    BY <1>1, <1>3, <2>1 DEF Rows
  <2>3. \A j \in Items : j = i \/ versions'[j] = versions[j]
    BY <1>1, <1>3 DEF Rows
  <2>4. DOMAIN versions[i] = {}
    BY <1>3
  <2> QED
    BY <2>2, <2>3, <2>4 DEF ItemsGrow, Numbered
<1> QED
  BY <1>2, <1>3 DEF InsertItem

LEMMA InsertDraftGrows ==
  ASSUME Rows, RequestInv, NEW e \in Editors, InsertDraft(e)
  PROVE  ItemsGrow /\ versions' \in [Items -> Seq(Version)]
<1> DEFINE i == request[e].item
           row == Draft(request[e].content)
<1>1. i \in Items /\ row \in Version
  BY DEF InsertDraft, RequestInv, EditOK, Draft, Version
<1>2. CASE versions' = versions
  BY <1>2, ItemsAloneGrow
<1>3. CASE versions' = [versions EXCEPT ![i] = Append(@, row)]
  <2>1. versions[i] \in Seq(Version)
    BY <1>1 DEF Rows
  <2>2. versions'[i] = Append(versions[i], row)
    BY <1>1, <1>3 DEF Rows
  <2>3. \A j \in Items : j = i \/ versions'[j] = versions[j]
    BY <1>1, <1>3 DEF Rows
  <2>4. versions' \in [Items -> Seq(Version)]
    BY <1>1, <1>3, <2>1 DEF Rows
  <2>5. \A n \in DOMAIN versions[i] : /\ n \in DOMAIN versions'[i]
                                     /\ versions'[i][n] = versions[i][n]
    BY <1>1, <2>1, <2>2
  <2> QED
    BY <2>3, <2>4, <2>5 DEF ItemsGrow, Numbered
<1> QED
  BY <1>2, <1>3 DEF InsertDraft

LEMMA SaveDraftGrows ==
  ASSUME Rows, RequestInv, NEW e \in Editors, SaveDraft(e)
  PROVE  ItemsGrow /\ versions' \in [Items -> Seq(Version)]
<1> DEFINE i == request[e].item
           n == request[e].draft
           c == request[e].content
<1>1. i \in Items /\ n \in DOMAIN versions[i] /\ c \in Contents
  BY DEF SaveDraft, RequestInv, EditOK
<1>2. CASE versions' = versions
  BY <1>2, ItemsAloneGrow
<1>3. CASE versions' = [versions EXCEPT ![i][n].content = c]
  <2> DEFINE row == [versions[i][n] EXCEPT !.content = c]
  <2>1. versions[i] \in Seq(Version)
    BY <1>1 DEF Rows
  <2>2. versions[i][n] \in Version
    BY <1>1, <2>1
  <2>3. row \in Version /\ row.status = versions[i][n].status
    BY <1>1, <2>2 DEF Version
  <2>4. versions' = [versions EXCEPT ![i] = [versions[i] EXCEPT ![n] = row]]
    BY <1>3
  <2>5. [versions[i] EXCEPT ![n] = row] \in Seq(Version)
    BY <1>1, <2>1, <2>3
  <2>6. versions' \in [Items -> Seq(Version)]
    BY <1>1, <2>4, <2>5 DEF Rows
  <2>7. \A j \in Items : j = i \/ versions'[j] = versions[j]
    BY <1>1, <2>4 DEF Rows
  <2>8. versions'[i] = [versions[i] EXCEPT ![n] = row]
    BY <1>1, <2>4 DEF Rows
  <2>9. /\ DOMAIN versions'[i] = DOMAIN versions[i]
        /\ \A k \in DOMAIN versions[i] : versions'[i][k].status = versions[i][k].status
    BY <1>1, <2>1, <2>3, <2>8
  <2> QED
    BY <2>6, <2>7, <2>9 DEF ItemsGrow, Numbered
<1> QED
  BY <1>2, <1>3 DEF SaveDraft

\* What is archived was published, but the draft that replaces it is published
\* by the same commit.
LEMMA CommitPublishGrows ==
  ASSUME Rows, RequestInv, NEW e \in Editors, CommitPublish(e)
  PROVE  ItemsGrow /\ versions' \in [Items -> Seq(Version)]
<1>0. PICK i \in Items : \E n, old :
        n \in DOMAIN versions[i] /\ versions' = [versions EXCEPT ![i] = Publish(i, n, old)]
  BY DEF CommitPublish, RequestInv, EditOK
<1>1. PICK n, old :
        n \in DOMAIN versions[i] /\ versions' = [versions EXCEPT ![i] = Publish(i, n, old)]
  BY <1>0
<1> DEFINE new == Publish(i, n, old)
<1>2. versions' = [versions EXCEPT ![i] = new]
  BY <1>1
<1>3. versions[i] \in Seq(Version)
  BY <1>1 DEF Rows
<1>4. \A k \in DOMAIN versions[i] : versions[i][k] \in Version
  BY <1>3
<1>5. \A k \in DOMAIN versions[i] : new[k] \in Version
  <2> TAKE k \in DOMAIN versions[i]
  <2>1. /\ [versions[i][k] EXCEPT !.status = "published"] \in Version
        /\ [versions[i][k] EXCEPT !.status = "archived"] \in Version
    BY <1>4 DEF Version
  <2> QED
    BY <1>4, <2>1 DEF Publish
<1>6. DOMAIN new = DOMAIN versions[i] /\ new \in [DOMAIN versions[i] -> Version]
  BY <1>5 DEF Publish
<1>7. new \in Seq(Version)
  BY <1>3, <1>6
<1>8. new[n].status = "published"
  BY <1>1, <1>4 DEF Publish, Version
<1>9. versions' \in [Items -> Seq(Version)]
  BY <1>1, <1>2, <1>7 DEF Rows
<1>10. versions'[i] = new /\ \A j \in Items : j = i \/ versions'[j] = versions[j]
  BY <1>1, <1>2 DEF Rows
<1>11. n \in Numbered(i, "published")'
  BY <1>1, <1>6, <1>8, <1>10 DEF Numbered
<1> QED
  BY <1>6, <1>9, <1>10, <1>11 DEF ItemsGrow, Numbered
-----------------------------------------------------------------------------
(* Steps on the stores. *)

\* Well-formed rows of the stores, each version with a Root CA, no refusal.
StoreRows == /\ store \in [Stores -> StoreRow]
             /\ \A s \in Stores : Live(s) <=> store[s].versions # << >>
             /\ rowLock \in [Stores -> Editors \cup {NoEditor}]
             /\ EveryVersionHasAnchor /\ PublicationsNeverCollide

LEMMA StoresAloneGrow ==
  ASSUME Inv, NEW e \in Editors, UNCHANGED <<store, rowLock, collisions>>
  PROVE  StoresGrow /\ StoreRows' /\ LocksKept(e)
<1>1. StoresGrow /\ LocksKept(e)
  BY DEF StoresGrow, LocksKept, Live
<1> QED
  BY <1>1 DEF Inv, Rows, StoreRows, EveryVersionHasAnchor, PublicationsNeverCollide, Live

LEMMA CreateStoreGrows ==
  ASSUME Inv, NEW e \in Editors, NEW s \in Stores, NEW files \in SUBSET Certs,
         create_store(e, s, files)
  PROVE  StoresGrow /\ StoreRows' /\ LocksKept(e)
<1> DEFINE row == [state |-> "live", active |-> TRUE, versions |-> << files >>]
<1> USE DEF Inv
<1>1. store \in [Stores -> StoreRow] /\ store' = [store EXCEPT ![s] = row] /\ store[s] = Never
  BY DEF Rows, create_store
<1>2. row \in StoreRow
  BY DEF StoreRow
<1>3. store'[s] = row /\ \A t \in Stores : t # s => store'[t] = store[t]
  BY <1>1
<1>4. store' \in [Stores -> StoreRow]
  BY <1>1, <1>2
<1>5. StoresGrow
  BY <1>1, <1>3 DEF StoresGrow, Never, Live
<1>6. LocksKept(e)
  <2>1. ~Live(s) /\ rowLock' = rowLock
    BY <1>1 DEF Live, Never, create_store
  <2>2. \A x \in Editors : request[x].pc = "flush" =>
          request[x].store \in Stores /\ request[x].store # s
    BY <2>1 DEF RequestInv, LockOK
  <2> QED
    BY <1>3, <2>1, <2>2 DEF LocksKept
<1>7. EveryVersionHasAnchor'
  <2>1. \A n \in DOMAIN row.versions : row.versions[n] \cap Anchors # {}
    BY DEF create_store
  <2> QED
    BY <1>3, <2>1 DEF EveryVersionHasAnchor
<1>8. \A t \in Stores : Live(t)' <=> store'[t].versions # << >>
  <2>1. row.state = "live" /\ row.versions # << >>
    OBVIOUS
  <2>2. \A t \in Stores : Live(t) <=> store[t].versions # << >>
    BY DEF Rows
  <2> QED
    BY <1>3, <2>1, <2>2 DEF Live
<1> QED
  BY <1>4, <1>5, <1>6, <1>7, <1>8
  DEF StoreRows, Rows, create_store, PublicationsNeverCollide

LEMMA InsertVersionGrows ==
  ASSUME Inv, NEW e \in Editors, InsertVersion(e)
  PROVE  StoresGrow /\ StoreRows' /\ LocksKept(e)
<1> USE DEF Inv
<1>1. PICK s \in Stores : s = request[e].store
  BY DEF InsertVersion, RequestInv, LockOK
<1>2. PICK certs \in SUBSET Certs : certs = request[e].certs
  BY DEF InsertVersion, RequestInv, LockOK
<1>3. /\ Live(s) /\ rowLock[s] = e
      /\ request[e].number = Len(store[s].versions) + 1
      /\ certs \cap Anchors # {}
  BY <1>1, <1>2 DEF InsertVersion, RequestInv, LockOK
<1>4. store \in [Stores -> StoreRow] /\ store[s].versions \in Seq(SUBSET Certs)
  BY DEF Rows, StoreRow
<1>5. request[e].number \notin DOMAIN store[s].versions
  BY <1>3, <1>4
<1>6. collisions' = 0
  BY <1>1, <1>5 DEF InsertVersion, PublicationsNeverCollide
<1>7. rowLock' = [t \in Stores |-> IF rowLock[t] = e THEN NoEditor ELSE rowLock[t]]
  BY DEF InsertVersion
<1>8. \/ store' = store
      \/ store' = [store EXCEPT ![s].versions = Append(@, certs)]
  BY <1>1, <1>2 DEF InsertVersion
<1>9. \A t \in Stores : t # s => store'[t] = store[t]
  BY <1>4, <1>8
<1>10. LocksKept(e)
  <2> SUFFICES ASSUME NEW x \in Editors, x # e, request[x].pc = "flush"
               PROVE  /\ store'[request[x].store] = store[request[x].store]
                      /\ rowLock'[request[x].store] = rowLock[request[x].store]
    BY DEF LocksKept
  <2>1. request[x].store \in Stores /\ rowLock[request[x].store] = x
    BY DEF RequestInv, LockOK
  <2>2. request[x].store # s
    BY <1>3, <2>1
  <2> QED
    BY <1>7, <1>9, <2>1, <2>2
<1>11. CASE store' = store
  BY <1>6, <1>7, <1>10, <1>11
  DEF Rows, StoresGrow, StoreRows, Live, EveryVersionHasAnchor, PublicationsNeverCollide
<1>12. CASE store' = [store EXCEPT ![s].versions = Append(@, certs)]
  <2> DEFINE vs == store[s].versions
             row == [store[s] EXCEPT !.versions = Append(vs, certs)]
  <2>1. store' = [store EXCEPT ![s] = row]
    BY <1>12
  <2>2. Append(vs, certs) \in Seq(SUBSET Certs) /\ Append(vs, certs) # << >>
    BY <1>4
  <2>3. /\ row \in StoreRow /\ row.state = store[s].state
        /\ row.versions = Append(vs, certs)
    BY <1>4, <2>2 DEF StoreRow
  <2>4. store' \in [Stores -> StoreRow] /\ store'[s] = row
    BY <1>4, <2>1, <2>3
  <2>5. \A n \in DOMAIN vs : n \in DOMAIN row.versions /\ row.versions[n] = vs[n]
    BY <1>4, <2>3
  <2>6. StoresGrow
    BY <1>9, <2>3, <2>4, <2>5 DEF StoresGrow, Live
  <2>7. \A n \in DOMAIN row.versions : n \in DOMAIN vs \/ row.versions[n] = certs
    BY <1>4, <2>3
  <2>8. \A n \in DOMAIN row.versions : row.versions[n] \cap Anchors # {}
    BY <1>3, <2>5, <2>7 DEF EveryVersionHasAnchor
  <2>9. EveryVersionHasAnchor'
    BY <1>9, <2>4, <2>8 DEF EveryVersionHasAnchor
  <2>10. \A t \in Stores : Live(t)' <=> store'[t].versions # << >>
    BY <1>3, <1>9, <2>2, <2>3, <2>4 DEF Rows, Live
  <2>11. rowLock' \in [Stores -> Editors \cup {NoEditor}]
    BY <1>7 DEF Rows
  <2> QED
    BY <1>6, <1>10, <2>4, <2>6, <2>9, <2>10, <2>11 DEF StoreRows, PublicationsNeverCollide
<1> QED
  BY <1>8, <1>11, <1>12

LEMMA UpdateStoreGrows ==
  ASSUME Inv, NEW e \in Editors, NEW s \in Stores, update_store(e, s)
  PROVE  StoresGrow /\ StoreRows' /\ LocksKept(e)
<1> DEFINE row == [store[s] EXCEPT !.active = ~@]
<1> USE DEF Inv
<1>1. store \in [Stores -> StoreRow] /\ store' = [store EXCEPT ![s] = row]
  BY DEF Rows, update_store
<1>2. store[s] \in StoreRow
  BY <1>1
<1>3. row.state = store[s].state /\ row.versions = store[s].versions /\ row \in StoreRow
  BY <1>2 DEF StoreRow
<1>4. store'[s] = row /\ \A t \in Stores : t # s => store'[t] = store[t]
  BY <1>1
<1>5. \A t \in Stores : /\ store'[t].state = store[t].state
                       /\ store'[t].versions = store[t].versions
  BY <1>3, <1>4
<1>6. LocksKept(e)
  <2>1. rowLock[s] = NoEditor /\ rowLock' = rowLock
    BY DEF update_store
  <2>2. \A x \in Editors : request[x].pc = "flush" =>
          request[x].store \in Stores /\ request[x].store # s
    BY <2>1, NoEditorAssumption DEF RequestInv, LockOK
  <2> QED
    BY <1>4, <2>1, <2>2 DEF LocksKept
<1>7. store' \in [Stores -> StoreRow]
  BY <1>1, <1>3
<1>8. StoresGrow
  BY <1>5 DEF StoresGrow, Live
<1>9. EveryVersionHasAnchor'
  BY <1>5 DEF EveryVersionHasAnchor
<1> QED
  BY <1>5, <1>6, <1>7, <1>8, <1>9 DEF StoreRows, Rows, Live, update_store, PublicationsNeverCollide

LEMMA EraseGrows ==
  ASSUME Inv, NEW e \in Editors, Erase(e)
  PROVE  StoresGrow /\ StoreRows' /\ LocksKept(e)
<1> DEFINE row == [state |-> "erased", active |-> FALSE, versions |-> << >>]
<1> USE DEF Inv
<1>1. PICK s \in Stores : s = request[e].store
  BY DEF Erase, RequestInv, LockOK
<1>2. store \in [Stores -> StoreRow] /\ store' = [store EXCEPT ![s] = row]
  BY <1>1 DEF Rows, Erase
<1>3. row \in StoreRow
  BY DEF StoreRow
<1>4. store'[s] = row /\ \A t \in Stores : t # s => store'[t] = store[t]
  BY <1>2
<1>5. LocksKept(e)
  <2>1. rowLock[s] = NoEditor /\ rowLock' = rowLock
    BY <1>1 DEF Erase
  <2>2. \A x \in Editors : request[x].pc = "flush" =>
          request[x].store \in Stores /\ request[x].store # s
    BY <2>1, NoEditorAssumption DEF RequestInv, LockOK
  <2> QED
    BY <1>4, <2>1, <2>2 DEF LocksKept
<1>6. store' \in [Stores -> StoreRow]
  BY <1>2, <1>3
<1>7. StoresGrow
  BY <1>4 DEF StoresGrow, Live
<1>8. EveryVersionHasAnchor'
  BY <1>4 DEF EveryVersionHasAnchor
<1>9. \A t \in Stores : Live(t)' <=> store'[t].versions # << >>
  BY <1>4 DEF Rows, Live
<1> QED
  BY <1>5, <1>6, <1>7, <1>8, <1>9 DEF StoreRows, Rows, Erase, PublicationsNeverCollide

\* create_version only takes a lock that nobody holds.
LEMMA CreateVersionGrows ==
  ASSUME Inv, NEW e \in Editors, create_version(e)
  PROVE  StoresGrow /\ StoreRows' /\ LocksKept(e)
<1> USE DEF Inv
<1>1. PICK s \in Stores : s = request[e].store
  BY DEF create_version, RequestInv, LockOK
<1>2. rowLock[s] = NoEditor /\ store' = store /\ collisions' = collisions
  BY <1>1 DEF create_version
<1>3. rowLock' = rowLock \/ rowLock' = [rowLock EXCEPT ![s] = e]
  BY <1>1 DEF create_version
<1>4. \A t \in Stores : t # s => rowLock'[t] = rowLock[t]
  BY <1>3 DEF Rows
<1>5. LocksKept(e)
  <2>1. \A x \in Editors : request[x].pc = "flush" =>
          request[x].store \in Stores /\ request[x].store # s
    BY <1>2, NoEditorAssumption DEF RequestInv, LockOK
  <2> QED
    BY <1>2, <1>4, <2>1 DEF LocksKept
<1>6. rowLock' \in [Stores -> Editors \cup {NoEditor}]
  BY <1>3 DEF Rows
<1>7. EveryVersionHasAnchor' /\ PublicationsNeverCollide' /\ StoresGrow
  BY <1>2 DEF EveryVersionHasAnchor, PublicationsNeverCollide, StoresGrow, Live
<1> QED
  BY <1>2, <1>5, <1>6, <1>7 DEF StoreRows, Rows, Live
-----------------------------------------------------------------------------
(* What a request holds after its step. *)

RequestOK(e) == EditOK(e) /\ LockOK(e) /\ LaunchOK(e)
OneStep(e) == DOMAIN request' = Editors /\ OthersAlone(e) /\ RequestOK(e)'

LEMMA AnsweredOK ==
  ASSUME Rows, NEW e \in Editors, Answers(e)
  PROVE  OneStep(e)
<1>1. DOMAIN request' = Editors /\ request'[e] = Idle /\ OthersAlone(e)
  BY OneRequest DEF Answers
<1> QED
  BY <1>1 DEF OneStep, RequestOK, EditOK, LockOK, LaunchOK, Idle

LEMMA FirstEditOK ==
  ASSUME Inv, NEW e \in Editors, NEW i \in Items, NEW c \in Contents,
         create_item(e, i, c) \/ new_version(e, i, c)
  PROVE  OneStep(e)
<1>1. PICK pc \in {"create", "edit"} : Becomes(e, [pc |-> pc, item |-> i, content |-> c])
  BY DEF create_item, new_version
<1>2. /\ DOMAIN request' = Editors /\ OthersAlone(e)
      /\ request'[e] = [pc |-> pc, item |-> i, content |-> c]
  BY <1>1, OneRequest DEF Inv
<1> QED
  BY <1>2 DEF OneStep, RequestOK, EditOK, LockOK, LaunchOK

LEMMA DuplicateOK ==
  ASSUME Inv, NEW e \in Editors, NEW i \in Items, NEW copy \in Items, duplicate(e, i, copy)
  PROVE  OneStep(e)
<1> DEFINE c == versions[i][Len(versions[i])].content
<1>1. versions[i] \in Seq(Version) /\ versions[i] # << >>
  BY DEF Inv, Rows, duplicate
<1>2. versions[i][Len(versions[i])] \in Version
  BY <1>1
<1>3. c \in Contents
  BY <1>2 DEF Version
<1>4. /\ DOMAIN request' = Editors /\ OthersAlone(e)
      /\ request'[e] = [pc |-> "create", item |-> copy, content |-> c]
  BY OneRequest DEF Inv, duplicate
<1> QED
  BY <1>3, <1>4 DEF OneStep, RequestOK, EditOK, LockOK, LaunchOK

LEMMA PublishOK ==
  ASSUME Inv, NEW e \in Editors, NEW i \in Items, publish(e, i)
  PROVE  OneStep(e)
<1>1. CASE Answers(e)
  BY <1>1, AnsweredOK DEF Inv
<1>2. CASE \E n \in Numbered(i, "draft") : Becomes(e, [pc |-> "publish", item |-> i, draft |-> n])
  <2>1. PICK n \in DOMAIN versions[i] : Becomes(e, [pc |-> "publish", item |-> i, draft |-> n])
    BY <1>2 DEF Numbered
  <2>2. /\ DOMAIN request' = Editors /\ OthersAlone(e)
        /\ request'[e] = [pc |-> "publish", item |-> i, draft |-> n]
    BY <2>1, OneRequest DEF Inv
  <2>3. versions' = versions
    BY DEF publish
  <2> QED
    BY <2>2, <2>3 DEF OneStep, RequestOK, EditOK, LockOK, LaunchOK
<1> QED
  BY <1>1, <1>2 DEF publish

LEMMA FindDraftOK ==
  ASSUME Inv, NEW e \in Editors, FindDraft(e)
  PROVE  OneStep(e)
<1>1. PICK i \in Items, c \in Contents : i = request[e].item /\ c = request[e].content
  BY DEF FindDraft, Inv, RequestInv, EditOK
<1>2. CASE Answers(e)
  BY <1>2, AnsweredOK DEF Inv
<1>3. CASE Becomes(e, [pc |-> "number", item |-> i, content |-> c])
  <2>1. /\ DOMAIN request' = Editors /\ OthersAlone(e)
        /\ request'[e] = [pc |-> "number", item |-> i, content |-> c]
    BY <1>3, OneRequest DEF Inv
  <2> QED
    BY <2>1 DEF OneStep, RequestOK, EditOK, LockOK, LaunchOK
<1>4. CASE \E n \in Numbered(i, "draft") :
             Becomes(e, [pc |-> "save", item |-> i, content |-> c,
                         draft |-> n, read |-> versions[i][n].content])
  <2>1. PICK n \in DOMAIN versions[i] :
          Becomes(e, [pc |-> "save", item |-> i, content |-> c,
                      draft |-> n, read |-> versions[i][n].content])
    BY <1>4 DEF Numbered
  <2>2. /\ DOMAIN request' = Editors /\ OthersAlone(e)
        /\ request'[e] = [pc |-> "save", item |-> i, content |-> c,
                          draft |-> n, read |-> versions[i][n].content]
    BY <2>1, OneRequest DEF Inv
  <2>3. versions' = versions
    BY DEF FindDraft
  <2> QED
    BY <2>2, <2>3 DEF OneStep, RequestOK, EditOK, LockOK, LaunchOK
<1> QED
  BY <1>1, <1>2, <1>3, <1>4 DEF FindDraft

LEMMA LastNumberOK ==
  ASSUME Inv, NEW e \in Editors, LastNumber(e)
  PROVE  OneStep(e)
<1>1. PICK i \in Items, c \in Contents : i = request[e].item /\ c = request[e].content
  BY DEF LastNumber, Inv, RequestInv, EditOK
<1>2. /\ DOMAIN request' = Editors /\ OthersAlone(e)
      /\ request'[e] = [pc |-> "insert", item |-> i, content |-> c,
                        number |-> Len(versions[i]) + 1]
  BY <1>1, OneRequest DEF Inv, LastNumber
<1> QED
  BY <1>2 DEF OneStep, RequestOK, EditOK, LockOK, LaunchOK

LEMMA ReadPublishedOK ==
  ASSUME Inv, NEW e \in Editors, ReadPublished(e)
  PROVE  OneStep(e)
<1>1. PICK i \in Items : i = request[e].item
  BY DEF ReadPublished, Inv, RequestInv, EditOK
<1>2. PICK n \in DOMAIN versions[i] : n = request[e].draft
  BY <1>1 DEF ReadPublished, Inv, RequestInv, EditOK
<1>3. /\ DOMAIN request' = Editors /\ OthersAlone(e)
      /\ request'[e] = [pc |-> "archive", item |-> i, draft |-> n,
                        old |-> Numbered(i, "published")]
  BY <1>1, <1>2, OneRequest DEF Inv, ReadPublished
<1>4. versions' = versions
  BY DEF ReadPublished
<1> QED
  BY <1>3, <1>4 DEF OneStep, RequestOK, EditOK, LockOK, LaunchOK

\* A step of an edit or a publication after its first.
LEMMA EditStepOK ==
  ASSUME Inv, NEW e \in Editors, EditStep(e)
  PROVE  /\ OneStep(e) /\ ItemsGrow /\ versions' \in [Items -> Seq(Version)]
<1> USE DEF Inv
<1>1. CASE InsertItem(e)
  BY <1>1, InsertItemGrows, AnsweredOK DEF InsertItem
<1>2. CASE InsertDraft(e)
  BY <1>2, InsertDraftGrows, AnsweredOK DEF InsertDraft
<1>3. CASE SaveDraft(e)
  BY <1>3, SaveDraftGrows, AnsweredOK DEF SaveDraft
<1>4. CASE CommitPublish(e)
  BY <1>4, CommitPublishGrows, AnsweredOK DEF CommitPublish
<1>5. CASE FindDraft(e)
  BY <1>5, FindDraftOK, ItemsAloneGrow DEF FindDraft
<1>6. CASE LastNumber(e)
  BY <1>6, LastNumberOK, ItemsAloneGrow DEF LastNumber
<1>7. CASE ReadPublished(e)
  BY <1>7, ReadPublishedOK, ItemsAloneGrow DEF ReadPublished
<1> QED
  BY <1>1, <1>2, <1>3, <1>4, <1>5, <1>6, <1>7 DEF EditStep
-----------------------------------------------------------------------------
(* The same for requests on stores and for launches. *)

LEMMA PublishVersionOK ==
  ASSUME Inv, NEW e \in Editors, NEW s \in Stores,
         NEW remove \in SUBSET Certs, NEW files \in SUBSET Certs,
         publish_version(e, s, remove, files)
  PROVE  OneStep(e)
<1> DEFINE certs == (Current(s) \ remove) \cup files
<1>1. store[s].versions \in Seq(SUBSET Certs) /\ store[s].versions # << >>
  BY DEF Inv, Rows, StoreRow, publish_version
<1>2. certs \subseteq Certs
  BY <1>1 DEF Current
<1>3. /\ DOMAIN request' = Editors /\ OthersAlone(e)
      /\ request'[e] = [pc |-> "lock", store |-> s, remove |-> remove, certs |-> certs]
  BY OneRequest DEF Inv, publish_version
<1> QED
  BY <1>2, <1>3 DEF OneStep, RequestOK, EditOK, LockOK, LaunchOK

\* The next number is right because the row lock is held from here on.
LEMMA CreateVersionOK ==
  ASSUME Inv, NEW e \in Editors, create_version(e)
  PROVE  OneStep(e)
<1>1. PICK s \in Stores : s = request[e].store
  BY DEF create_version, Inv, RequestInv, LockOK
<1>2. PICK certs \in SUBSET Certs : certs = request[e].certs
  BY DEF create_version, Inv, RequestInv, LockOK
<1>3. CASE Answers(e)
  BY <1>3, AnsweredOK DEF Inv
<1>4. CASE /\ Live(s) /\ certs \cap Anchors # {}
           /\ Becomes(e, Numbering(request[e]))
           /\ rowLock' = [rowLock EXCEPT ![s] = e]
  <2>1. /\ DOMAIN request' = Editors /\ OthersAlone(e)
        /\ request'[e] = Numbering(request[e])
    BY <1>4, OneRequest DEF Inv
  <2>2. PICK q : q = request'[e]
    OBVIOUS
  <2>3. /\ q.pc = "flush" /\ q.store = s /\ q.certs = certs
        /\ q.number = Len(store[s].versions) + 1
    BY <1>1, <1>2, <2>1, <2>2 DEF Numbering
  <2>4. rowLock'[s] = e /\ store' = store
    BY <1>4 DEF Inv, Rows, create_version
  <2> QED
    BY <1>4, <2>1, <2>2, <2>3, <2>4 DEF OneStep, RequestOK, EditOK, LockOK, LaunchOK, Live
<1> QED
  BY <1>1, <1>2, <1>3, <1>4 DEF create_version

LEMMA DeleteStoreOK ==
  ASSUME Inv, NEW e \in Editors, NEW s \in Stores, delete_store(e, s)
  PROVE  OneStep(e)
<1>1. /\ DOMAIN request' = Editors /\ OthersAlone(e)
      /\ request'[e] = [pc |-> "erase", store |-> s]
  BY OneRequest DEF Inv, delete_store
<1> QED
  BY <1>1 DEF OneStep, RequestOK, EditOK, LockOK, LaunchOK

LEMMA BuildSnapshotOK ==
  ASSUME Inv, NEW e \in Editors, NEW i \in Items, build_snapshot(e, i)
  PROVE  OneStep(e)
<1>1. PICK n \in DOMAIN versions[i] :
        Becomes(e, Plan(i, n, versions[i][n].content, versions[i][n].content, << >>))
  BY DEF build_snapshot, latest_published, Numbered
<1>2. PICK c : c = versions[i][n].content
  OBVIOUS
<1>3. c \subseteq Stores
  <2>1. versions[i] \in Seq(Version)
    BY DEF Inv, Rows
  <2>2. versions[i][n] \in Version
    BY <2>1
  <2> QED
    BY <1>2, <2>2, TrustStoresAssumption DEF Version
<1>4. /\ DOMAIN request' = Editors /\ OthersAlone(e)
      /\ request'[e] = Plan(i, n, c, c, << >>)
  BY <1>1, <1>2, OneRequest DEF Inv
<1>5. PICK q : q = request'[e]
  OBVIOUS
<1>6. /\ q.pc = "resolve" /\ q.selected = c /\ q.todo = c
      /\ q.pinned = << >> /\ DOMAIN q.pinned = {}
  BY <1>4, <1>5 DEF Plan
<1>7. Pinned(q.pinned)'
  BY <1>6 DEF Pinned
<1> QED
  BY <1>3, <1>4, <1>5, <1>6, <1>7 DEF OneStep, RequestOK, EditOK, LockOK, LaunchOK

LEMMA ResolveStoreOK ==
  ASSUME Inv, NEW e \in Editors, ResolveStore(e)
  PROVE  OneStep(e)
<1>1. PICK r : r = request[e]
  OBVIOUS
<1>2. /\ r.pc = "resolve" /\ r.selected \subseteq Stores /\ Pinned(r.pinned)
      /\ DOMAIN r.pinned \cup r.todo = r.selected
  BY <1>1 DEF ResolveStore, Inv, RequestInv, LaunchOK
<1>3. CASE Answers(e)
  BY <1>3, AnsweredOK DEF Inv
<1>4. CASE \E s \in r.todo : Selectable(s) /\ Becomes(e, Pin(r, s))
  <2>1. PICK s \in r.todo : Selectable(s) /\ Becomes(e, Pin(r, s))
    BY <1>4
  <2>2. DOMAIN request' = Editors /\ OthersAlone(e) /\ request'[e] = Pin(r, s)
    BY <2>1, OneRequest DEF Inv
  <2>3. PICK q : q = request'[e]
    OBVIOUS
  <2>4. /\ q.pc = "certificates" /\ q.selected = r.selected /\ q.todo = r.todo \ {s}
        /\ q.pinned = r.pinned /\ q.store = s /\ q.number = Len(store[s].versions)
    BY <2>2, <2>3 DEF Pin
  <2>5. s \in Stores /\ Live(s) /\ store[s].versions \in Seq(SUBSET Certs)
        /\ store[s].versions # << >>
    BY <1>2, <2>1 DEF Selectable, Inv, Rows, StoreRow
  <2>6. Len(store[s].versions) \in DOMAIN store[s].versions
    BY <2>5
  <2>7. Named(q.store, q.number) /\ Pinned(q.pinned)
    BY <1>2, <2>4, <2>5, <2>6 DEF Named, Live
  <2>8. store' = store
    BY DEF ResolveStore
  <2>9. Named(q.store, q.number)' /\ Pinned(q.pinned)'
    BY <2>7, <2>8 DEF Named, Pinned, Live
  <2>10. DOMAIN q.pinned \cup q.todo \cup {q.store} = q.selected
    BY <1>2, <2>1, <2>4
  <2> QED
    BY <1>2, <2>2, <2>3, <2>4, <2>9, <2>10 DEF OneStep, RequestOK, EditOK, LockOK, LaunchOK
<1> QED
  BY <1>1, <1>3, <1>4 DEF ResolveStore, Answers, Becomes

\* The certificates are those of the number that was pinned: the version is
\* still there, or the store is gone and there are none.
LEMMA PinCertificatesOK ==
  ASSUME Inv, NEW e \in Editors, PinCertificates(e)
  PROVE  OneStep(e)
<1>1. PICK r : r = request[e]
  OBVIOUS
<1>2. PICK s, n : s = r.store /\ n = r.number
  OBVIOUS
<1>3. /\ r.pc = "certificates" /\ r.selected \subseteq Stores /\ Pinned(r.pinned)
      /\ DOMAIN r.pinned \cup r.todo \cup {s} = r.selected
      /\ Named(s, n)
  BY <1>1, <1>2 DEF PinCertificates, Inv, RequestInv, LaunchOK
<1> DEFINE certs == version_certificates(s, n)
           pinned == [t \in DOMAIN r.pinned \cup {s} |->
                        IF t = s THEN [number |-> n, certs |-> certs] ELSE r.pinned[t]]
<1>4. CASE Answers(e)
  BY <1>4, AnsweredOK DEF Inv
<1>5. CASE Becomes(e, Plan(r.item, r.version, r.selected, r.todo, pinned))
  <2>1. /\ DOMAIN request' = Editors /\ OthersAlone(e)
        /\ request'[e] = Plan(r.item, r.version, r.selected, r.todo, pinned)
    BY <1>5, OneRequest DEF Inv
  <2>2. PICK q : q = request'[e]
    OBVIOUS
  <2>3. /\ q.pc = "resolve" /\ q.selected = r.selected /\ q.todo = r.todo
        /\ q.pinned = pinned
    BY <2>1, <2>2 DEF Plan
  <2>4. DOMAIN pinned = DOMAIN r.pinned \cup {s}
    OBVIOUS
  <2>5. Live(s) => certs = store[s].versions[n]
    BY <1>3 DEF version_certificates, Named
  <2>6. Pinned(pinned)
    BY <1>3, <2>5 DEF Pinned
  <2>7. Pinned(q.pinned)'
    BY <2>3, <2>6 DEF PinCertificates, Pinned, Named, Live
  <2>8. DOMAIN q.pinned \cup q.todo = q.selected
    BY <1>3, <2>3, <2>4
  <2> QED
    BY <1>3, <2>1, <2>2, <2>3, <2>7, <2>8 DEF OneStep, RequestOK, EditOK, LockOK, LaunchOK
<1> QED
  BY <1>1, <1>2, <1>4, <1>5 DEF PinCertificates, Answers
-----------------------------------------------------------------------------
(* The invariant. *)

\* What every step of a request amounts to.
Moves(e) == /\ ItemsGrow /\ versions' \in [Items -> Seq(Version)]
            /\ StoresGrow /\ StoreRows' /\ LocksKept(e)
            /\ OneStep(e)

LEMMA OthersStayOK ==
  ASSUME Inv, NEW e \in Editors, Moves(e), NEW x \in Editors, x # e
  PROVE  RequestOK(x)'
<1> DEFINE q == request[x]
<1>1. request'[x] = request[x]
  BY DEF Moves, OneStep, OthersAlone
<1>2. EditOK(x) /\ LockOK(x) /\ LaunchOK(x)
  BY DEF Inv, RequestInv
<1>3. EditOK(x)'
  BY <1>1, <1>2 DEF EditOK, Moves, ItemsGrow
<1>4. LockOK(x)'
  BY <1>1, <1>2 DEF LockOK, Moves, LocksKept, Live
<1>5. LaunchOK(x)'
  <2>1. PICK r : r = request[x]
    OBVIOUS
  <2>2. r.pc \in {"resolve", "certificates"} => Pinned(r.pinned)'
    BY <1>2, <2>1, PinnedStays DEF LaunchOK, Moves
  <2>3. r.pc = "certificates" => Named(r.store, r.number)'
    BY <1>2, <2>1, NamedStays DEF LaunchOK, Moves
  <2>4. request'[x] = r
    BY <1>1, <2>1
  <2> QED
    BY <1>2, <2>1, <2>2, <2>3, <2>4 DEF LaunchOK
<1> QED
  BY <1>3, <1>4, <1>5 DEF RequestOK

LEMMA MovesKeepInv ==
  ASSUME Inv, NEW e \in Editors, Moves(e), SnapshotInv'
  PROVE  Inv'
<1>1. Rows' /\ EveryVersionHasAnchor' /\ PublicationsNeverCollide'
  BY DEF Moves, StoreRows, Rows, OneStep
<1>2. RequestInv'
  BY OthersStayOK DEF RequestInv, RequestOK, Moves, OneStep
<1> QED
  BY <1>1, <1>2 DEF Inv

LEMMA SnapshotsStay ==
  ASSUME SnapshotInv, StoresGrow, snapshots' \subseteq snapshots
  PROVE  SnapshotInv'
<1> SUFFICES ASSUME NEW x \in snapshots
             PROVE  DOMAIN x.pinned = x.selected /\ Pinned(x.pinned)'
  BY DEF SnapshotInv
<1>1. DOMAIN x.pinned = x.selected /\ Pinned(x.pinned)
  BY DEF SnapshotInv
<1> QED
  BY <1>1, PinnedStays

LEMMA EditorMoves ==
  ASSUME Inv, NEW e \in Editors, EditorStep(e)
  PROVE  Moves(e) /\ SnapshotInv'
<1> USE DEF Inv
<1>1. CASE EditStep(e) /\ StoresAlone
  BY <1>1, EditStepOK, StoresAloneGrow, SnapshotsStay DEF StoresAlone, Moves
<1>2. CASE create_version(e)
  BY <1>2, CreateVersionGrows, CreateVersionOK, ItemsAloneGrow, SnapshotsStay
  DEF create_version, ItemsAlone, Moves
<1>3. CASE InsertVersion(e)
  BY <1>3, InsertVersionGrows, AnsweredOK, ItemsAloneGrow, SnapshotsStay
  DEF InsertVersion, ItemsAlone, Moves
<1>4. CASE Erase(e)
  BY <1>4, EraseGrows, AnsweredOK, ItemsAloneGrow, SnapshotsStay
  DEF Erase, ItemsAlone, Moves
<1>5. CASE ResolveStore(e)
  BY <1>5, StoresAloneGrow, ResolveStoreOK, ItemsAloneGrow, SnapshotsStay
  DEF ResolveStore, ItemsAlone, Moves
<1>6. CASE PinCertificates(e)
  BY <1>6, StoresAloneGrow, PinCertificatesOK, ItemsAloneGrow, SnapshotsStay
  DEF PinCertificates, ItemsAlone, Moves
<1>7. CASE QueueRun(e)
  <2>1. Moves(e)
    BY <1>7, StoresAloneGrow, AnsweredOK, ItemsAloneGrow DEF QueueRun, Moves
  <2>2. PICK r : r = request[e]
    OBVIOUS
  <2> DEFINE x == [item |-> r.item, version |-> r.version,
                   selected |-> r.selected, pinned |-> r.pinned]
  <2>3. snapshots' = snapshots \cup {x} /\ r.pc = "resolve" /\ r.todo = {}
    BY <1>7, <2>2 DEF QueueRun
  <2>4. Pinned(r.pinned) /\ DOMAIN r.pinned \cup r.todo = r.selected
    BY <2>2, <2>3 DEF RequestInv, LaunchOK
  <2>5. DOMAIN x.pinned = x.selected /\ Pinned(x.pinned)'
    BY <2>1, <2>3, <2>4, PinnedStays DEF Moves
  <2>6. \A y \in snapshots : DOMAIN y.pinned = y.selected /\ Pinned(y.pinned)'
    BY <2>1, PinnedStays DEF Moves, SnapshotInv
  <2>7. SnapshotInv'
    BY <2>3, <2>5, <2>6 DEF SnapshotInv
  <2> QED
    BY <2>1, <2>7
<1> QED
  BY <1>1, <1>2, <1>3, <1>4, <1>5, <1>6, <1>7 DEF EditorStep

LEMMA UnchangedRequestOK ==
  ASSUME Inv, NEW e \in Editors, StoresGrow, ItemsGrow, LocksKept(e),
         UNCHANGED request, request[e].pc = "idle"
  PROVE  OneStep(e)
BY DEF Inv, Rows, OneStep, OthersAlone, RequestOK, EditOK, LockOK, LaunchOK

LEMMA RequestMoves ==
  ASSUME Inv, NEW e \in Editors, Request(e)
  PROVE  Moves(e) /\ SnapshotInv'
<1> USE DEF Inv
<1>1. CASE \E i \in Items, c \in Contents : SelectStores(e, i, c)
  <2>1. PICK i \in Items, c \in Contents : SelectStores(e, i, c)
    BY <1>1
  <2>2. (create_item(e, i, c) \/ new_version(e, i, c)) /\ StoresAlone
    BY <2>1 DEF SelectStores
  <2>3. versions' = versions
    BY <2>2 DEF create_item, new_version
  <2> QED
    BY <2>2, <2>3, FirstEditOK, StoresAloneGrow, ItemsAloneGrow, SnapshotsStay
    DEF StoresAlone, Moves
<1>2. CASE \E i, copy \in Items : duplicate(e, i, copy) /\ StoresAlone
  BY <1>2, DuplicateOK, StoresAloneGrow, ItemsAloneGrow, SnapshotsStay
  DEF duplicate, StoresAlone, Moves
<1>3. CASE \E i \in Items : publish(e, i) /\ StoresAlone
  BY <1>3, PublishOK, StoresAloneGrow, ItemsAloneGrow, SnapshotsStay
  DEF publish, StoresAlone, Moves
<1>4. CASE \E i \in Items : build_snapshot(e, i)
  BY <1>4, BuildSnapshotOK, StoresAloneGrow, ItemsAloneGrow, SnapshotsStay
  DEF build_snapshot, ItemsAlone, Moves
<1>5. CASE \E s \in Stores, files \in SUBSET Certs : create_store(e, s, files)
  <2>1. PICK s \in Stores, files \in SUBSET Certs : create_store(e, s, files)
    BY <1>5
  <2>2. StoresGrow /\ StoreRows' /\ LocksKept(e)
    BY <2>1, CreateStoreGrows
  <2>3. /\ versions' = versions /\ snapshots' = snapshots
        /\ request' = request /\ request[e].pc = "idle"
    BY <2>1 DEF create_store, ItemsAlone
  <2>4. ItemsGrow /\ versions' \in [Items -> Seq(Version)]
    BY <2>3, ItemsAloneGrow
  <2> QED
    BY <2>2, <2>3, <2>4, UnchangedRequestOK, SnapshotsStay DEF Moves
<1>6. CASE \E s \in Stores, files \in SUBSET Certs, remove \in SUBSET Certs :
             publish_version(e, s, remove, files)
  BY <1>6, PublishVersionOK, StoresAloneGrow, ItemsAloneGrow, SnapshotsStay
  DEF publish_version, ItemsAlone, Moves
<1>7. CASE \E s \in Stores : update_store(e, s)
  <2>1. PICK s \in Stores : update_store(e, s)
    BY <1>7
  <2>2. StoresGrow /\ StoreRows' /\ LocksKept(e)
    BY <2>1, UpdateStoreGrows
  <2>3. /\ versions' = versions /\ snapshots' = snapshots
        /\ request' = request /\ request[e].pc = "idle"
    BY <2>1 DEF update_store, ItemsAlone
  <2>4. ItemsGrow /\ versions' \in [Items -> Seq(Version)]
    BY <2>3, ItemsAloneGrow
  <2> QED
    BY <2>2, <2>3, <2>4, UnchangedRequestOK, SnapshotsStay DEF Moves
<1>8. CASE \E s \in Stores : delete_store(e, s)
  BY <1>8, DeleteStoreOK, StoresAloneGrow, ItemsAloneGrow, SnapshotsStay
  DEF delete_store, ItemsAlone, Moves
<1> QED
  BY <1>1, <1>2, <1>3, <1>4, <1>5, <1>6, <1>7, <1>8 DEF Request
-----------------------------------------------------------------------------
(* The theorems. *)

LEMMA InitInv == Init => Inv
<1> SUFFICES ASSUME Init PROVE Inv
  OBVIOUS
<1> USE DEF Init, VersioningInit
<1>1. << >> \in Seq(Version) /\ << >> \in Seq(SUBSET Certs)
  OBVIOUS
<1>2. Never \in StoreRow /\ DOMAIN Never.versions = {}
  BY <1>1 DEF Never, StoreRow
<1>3. Rows
  BY <1>1, <1>2 DEF Rows, Live, Never
<1>4. RequestInv
  BY DEF RequestInv, EditOK, LockOK, LaunchOK, Idle
<1>5. EveryVersionHasAnchor
  BY <1>2 DEF EveryVersionHasAnchor
<1> QED
  BY <1>3, <1>4, <1>5 DEF Inv, SnapshotInv, PublicationsNeverCollide

LEMMA SameCatalogue ==
  ASSUME Inv, UNCHANGED <<versions, request, store, rowLock, collisions>>,
         snapshots' \subseteq snapshots
  PROVE  Inv'
<1> USE DEF Inv
<1>1. StoresGrow
  BY DEF StoresGrow, Live
<1>2. SnapshotInv'
  BY <1>1, SnapshotsStay
<1>3. Rows' /\ EveryVersionHasAnchor' /\ PublicationsNeverCollide'
  BY DEF Rows, EveryVersionHasAnchor, PublicationsNeverCollide, Live
<1>4. RequestInv'
  BY DEF RequestInv, EditOK, LockOK, LaunchOK, Pinned, Named, Live
<1> QED
  BY <1>2, <1>3, <1>4

LEMMA NextInv ==
  ASSUME Inv, [Next]_catalogue
  PROVE  Inv'
<1>1. CASE UNCHANGED catalogue
  BY <1>1, SameCatalogue DEF catalogue
<1>2. CASE \E e \in Editors : EditorStep(e) \/ Request(e)
  BY <1>2, EditorMoves, RequestMoves, MovesKeepInv
<1>3. CASE \E x \in snapshots : DeleteRun(x)
  BY <1>3, SameCatalogue DEF DeleteRun
<1> QED
  BY <1>1, <1>2, <1>3 DEF Next

\* The inductive invariant of the catalogue: rows are well formed; what a
\* request read and will write is still a row; who is about to insert a
\* version holds the lock and the next number; what a launch pinned is still
\* what it was, or its store is gone.
THEOREM CatalogueInvariant == Spec => []Inv
<1>1. Inv /\ [Next]_catalogue => Inv'
  BY NextInv
<1> QED
  BY <1>1, InitInv, PTL DEF Spec

\* No version of a trust store lacks a Root CA, whatever publications overlap.
THEOREM AnchorsAlways == Spec => []EveryVersionHasAnchor
<1>1. Inv => EveryVersionHasAnchor
  BY DEF Inv
<1> QED
  BY <1>1, CatalogueInvariant, PTL

\* The row lock gives each publication a number of its own.
THEOREM NumbersAreTheirOwn == Spec => []PublicationsNeverCollide
<1>1. Inv => PublicationsNeverCollide
  BY DEF Inv
<1> QED
  BY <1>1, CatalogueInvariant, PTL

\* A run is launched with every store its profile version selected, or not.
THEOREM NoDowngrade == Spec => []NoSilentDowngrade
<1>1. Inv => NoSilentDowngrade
  BY DEF Inv, SnapshotInv, NoSilentDowngrade
<1> QED
  BY <1>1, CatalogueInvariant, PTL

\* A run carries the certificates of the versions it names.
THEOREM SnapshotsAreConsistent == Spec => []SnapshotsPinVersions
<1>1. Inv => SnapshotsPinVersions
  BY DEF Inv, SnapshotInv, Pinned, SnapshotsPinVersions
<1> QED
  BY <1>1, CatalogueInvariant, PTL

\* An item that was published stays so, whatever edits and publications
\* interleave.
THEOREM PublishedForGood == Spec => StaysPublished
<1> DEFINE Step == \A i \in Items :
                     Numbered(i, "published") # {} => Numbered(i, "published")' # {}
<1>1. Inv /\ [Next]_catalogue => [Step]_versions
  <2> SUFFICES ASSUME Inv, [Next]_catalogue, versions' # versions PROVE Step
    OBVIOUS
  <2>1. PICK e \in Editors : EditorStep(e) \/ Request(e)
    BY DEF Next, catalogue, DeleteRun
  <2>2. ItemsGrow
    BY <2>1, EditorMoves, RequestMoves DEF Moves
  <2> QED
    BY <2>2 DEF ItemsGrow
<1> QED
  BY <1>1, CatalogueInvariant, PTL DEF Spec, StaysPublished
-----------------------------------------------------------------------------
(* The bound of the model, and who holds a row lock. *)

VersionsBounded == \A i \in Items : Len(versions[i]) <= MaxVersions

\* Only an insertion that is about to commit holds the row of a store.
LocksHeld == \A s \in Stores : rowLock[s] # NoEditor => request[rowLock[s]].pc = "flush"

\* While there is room for a version, no item has used it up.
LEMMA RoomBounds ==
  ASSUME Rows, Room, NEW i \in Items
  PROVE  Len(versions[i]) < MaxVersions
<1> DEFINE Of(j) == {j} \X DOMAIN versions[j]
           All == {Of(j) : j \in Items}
<1>1. \A j \in Items : Len(versions[j]) \in Nat /\ DOMAIN versions[j] = 1..Len(versions[j])
  BY DEF Rows
<1>2. \A j \in Items : IsFiniteSet(Of(j)) /\ Cardinality(Of(j)) = Len(versions[j])
  <2> TAKE j \in Items
  <2>0. PICK n \in Nat : n = Len(versions[j]) /\ DOMAIN versions[j] = 1..n
    BY <1>1
  <2>1. IsFiniteSet(1..n) /\ Cardinality(1..n) = n
    BY FS_Interval
  <2>2. IsFiniteSet({j}) /\ Cardinality({j}) = 1
    BY FS_Singleton
  <2>3. IsFiniteSet({j} \X (1..n)) /\ Cardinality({j} \X (1..n)) = Cardinality({j}) * Cardinality(1..n)
    BY <2>1, <2>2, FS_Product
  <2> QED BY <2>0, <2>1, <2>2, <2>3
<1>3. IsFiniteSet(All)
  <2> DEFINE f == [j \in Items |-> Of(j)]
  <2>1. f \in Surjection(Items, All)
    BY DEF Surjection
  <2> QED BY <2>1, FS_Surjection, VersioningAssumption
<1>4. IsFiniteSet(UNION All)
  BY <1>2, <1>3, FS_UNION
<1>5. Of(i) \subseteq UNION All
  OBVIOUS
<1>6. Cardinality(Of(i)) <= Cardinality(UNION All)
  BY <1>4, <1>5, FS_Subset
<1>7. Cardinality(UNION All) < MaxVersions
  BY DEF Room
<1>8. Cardinality(UNION All) \in Nat
  BY <1>4, FS_CardinalityType
<1> QED BY <1>1, <1>2, <1>6, <1>7, <1>8, VersioningAssumption

\* Only a commit adds a version, one, and only if there is room.
LEMMA EditBounded ==
  ASSUME Rows, RequestInv, VersionsBounded, NEW e \in Editors, EditStep(e)
  PROVE  VersionsBounded'
<1>1. CASE versions' = versions
  BY <1>1 DEF VersionsBounded
<1>2. ASSUME NEW i \in Items, NEW v, versions' = [versions EXCEPT ![i] = v], Len(v) <= MaxVersions
      PROVE  VersionsBounded'
  BY <1>2 DEF VersionsBounded, Rows
<1>3. CASE InsertItem(e)
  <2> DEFINE i == request[e].item
             v == << Draft(request[e].content) >>
  <2>1. i \in Items
    BY <1>3 DEF InsertItem, RequestInv, EditOK
  <2>2. Len(v) <= MaxVersions
    BY VersioningAssumption
  <2> QED BY <1>1, <1>2, <1>3, <2>1, <2>2 DEF InsertItem
<1>4. CASE InsertDraft(e)
  <2> DEFINE i == request[e].item
             v == Append(versions[i], Draft(request[e].content))
  <2>1. i \in Items
    BY <1>4 DEF InsertDraft, RequestInv, EditOK
  <2>2. versions[i] \in Seq(Version)
    BY <2>1 DEF Rows
  <2>3. Room => Len(versions[i]) < MaxVersions
    BY <2>1, RoomBounds
  <2>4. Len(v) = Len(versions[i]) + 1
    BY <2>2
  <2>5. Room => Len(v) <= MaxVersions
    BY <2>2, <2>3, <2>4, VersioningAssumption
  <2>6. versions' = versions \/ (Room /\ versions' = [versions EXCEPT ![i] = v])
    BY <1>4 DEF InsertDraft
  <2> QED BY <1>1, <1>2, <2>1, <2>5, <2>6
<1>5. CASE SaveDraft(e)
  <2>1. PICK q : q = request[e]
    OBVIOUS
  <2>2. q.item \in Items /\ q.draft \in DOMAIN versions[q.item]
    BY <1>5, <2>1 DEF SaveDraft, RequestInv, EditOK
  <2> DEFINE v == [versions[q.item] EXCEPT ![q.draft].content = q.content]
  <2>3. versions[q.item] \in Seq(Version)
    BY <2>2 DEF Rows
  <2>4. Len(v) = Len(versions[q.item])
    BY <2>2, <2>3
  <2>5. versions' = versions \/ versions' = [versions EXCEPT ![q.item] = v]
    BY <1>5, <2>1 DEF SaveDraft
  <2> QED BY <1>1, <1>2, <2>2, <2>4, <2>5 DEF VersionsBounded
<1>6. CASE CommitPublish(e)
  <2>1. PICK q : q = request[e]
    OBVIOUS
  <2>2. q.item \in Items
    BY <1>6, <2>1 DEF CommitPublish, RequestInv, EditOK
  <2> DEFINE v == Publish(q.item, q.draft, q.old)
  <2>3. DOMAIN v = 1..Len(versions[q.item]) /\ Len(versions[q.item]) \in Nat
    BY <2>2 DEF Rows, Publish
  <2>4. v = [n \in 1..Len(versions[q.item]) |-> v[n]]
    BY <2>3 DEF Publish
  <2>5. Len(v) = Len(versions[q.item])
    BY <2>3, <2>4
  <2>6. versions' = [versions EXCEPT ![q.item] = v]
    BY <1>6, <2>1 DEF CommitPublish
  <2> QED BY <1>2, <2>2, <2>5, <2>6 DEF VersionsBounded
<1> QED BY <1>1, <1>3, <1>4, <1>5, <1>6 DEF EditStep, FindDraft, LastNumber, ReadPublished

LEMMA BoundedStep ==
  ASSUME Inv, VersionsBounded, [Next]_catalogue
  PROVE  VersionsBounded'
<1>1. CASE versions' = versions
  BY <1>1 DEF VersionsBounded
<1>2. CASE \E e \in Editors : EditStep(e)
  BY <1>2, EditBounded DEF Inv
<1>3. ASSUME NEW e \in Editors, EditorStep(e), ~EditStep(e) PROVE versions' = versions
  BY <1>3 DEF EditorStep, create_version, InsertVersion, Erase, ResolveStore, PinCertificates,
              QueueRun, ItemsAlone
<1>4. ASSUME NEW e \in Editors, Request(e) PROVE versions' = versions
  BY <1>4 DEF Request, SelectStores, create_item, new_version, duplicate, publish, build_snapshot,
              create_store, publish_version, update_store, delete_store, ItemsAlone
<1> QED BY <1>1, <1>2, <1>3, <1>4 DEF Next, DeleteRun, catalogue

\* Steps that lock nothing, of a request that holds nothing.
LEMMA LocksStay ==
  ASSUME Rows, LocksHeld, NEW e \in Editors, OthersAlone(e), request[e].pc # "flush",
         rowLock' = rowLock
  PROVE  LocksHeld'
BY NoEditorAssumption DEF Rows, LocksHeld, OthersAlone

LEMMA EditorLocks ==
  ASSUME Inv, LocksHeld, NEW e \in Editors, EditorStep(e)
  PROVE  LocksHeld'
<1>0. Rows /\ OthersAlone(e)
  BY EditorMoves DEF Inv, Moves, OneStep
<1>1. CASE create_version(e)
  <2>1. CASE UNCHANGED rowLock
    BY <1>0, <1>1, <2>1, LocksStay DEF create_version
  <2>2. CASE ~UNCHANGED rowLock
    <3>1. PICK s : s = request[e].store /\ rowLock' = [rowLock EXCEPT ![s] = e]
      BY <1>1, <2>2 DEF create_version
    <3>2. Becomes(e, Numbering(request[e]))
      BY <1>1, <2>2 DEF create_version
    <3>3. request'[e].pc = "flush"
      BY <1>0, <3>2, OneRequest DEF Numbering
    <3>4. request[e].pc = "lock"
      BY <1>1 DEF create_version
    <3>5. ASSUME NEW t \in Stores, rowLock'[t] # NoEditor PROVE request'[rowLock'[t]].pc = "flush"
      <4>1. CASE rowLock'[t] = e
        BY <3>3, <4>1
      <4>2. CASE rowLock'[t] # e
        <5>1. rowLock'[t] = rowLock[t] /\ rowLock[t] \in Editors
          BY <1>0, <3>1, <3>5, <4>2 DEF Rows
        <5> QED BY <1>0, <3>5, <4>2, <5>1 DEF OthersAlone, LocksHeld
      <4> QED BY <4>1, <4>2
    <3> QED BY <3>5 DEF LocksHeld
  <2> QED BY <2>1, <2>2
<1>2. CASE InsertVersion(e)
  <2>1. rowLock' = [s \in Stores |-> IF rowLock[s] = e THEN NoEditor ELSE rowLock[s]]
    BY <1>2 DEF InsertVersion
  <2>2. ASSUME NEW t \in Stores, rowLock'[t] # NoEditor PROVE request'[rowLock'[t]].pc = "flush"
    <3>1. rowLock'[t] = rowLock[t] /\ rowLock[t] \in Editors /\ rowLock[t] # e
      BY <1>0, <2>1, <2>2 DEF Rows
    <3> QED BY <1>0, <2>2, <3>1 DEF OthersAlone, LocksHeld
  <2> QED BY <2>2 DEF LocksHeld
<1>3. CASE EditStep(e) /\ StoresAlone
  <2>1. request[e].pc # "flush"
    BY <1>3 DEF EditStep, InsertItem, FindDraft, LastNumber, InsertDraft, SaveDraft,
                ReadPublished, CommitPublish
  <2> QED BY <1>0, <1>3, <2>1, LocksStay DEF StoresAlone
<1>4. CASE Erase(e) \/ ResolveStore(e) \/ PinCertificates(e) \/ QueueRun(e)
  <2>1. request[e].pc # "flush" /\ rowLock' = rowLock
    BY <1>4 DEF Erase, ResolveStore, PinCertificates, QueueRun
  <2> QED BY <1>0, <2>1, LocksStay
<1> QED BY <1>1, <1>2, <1>3, <1>4 DEF EditorStep

LEMMA RequestLocks ==
  ASSUME Inv, LocksHeld, NEW e \in Editors, Request(e)
  PROVE  LocksHeld'
<1>0. Rows /\ OthersAlone(e)
  BY RequestMoves DEF Inv, Moves, OneStep
<1>1. request[e].pc # "flush" /\ rowLock' = rowLock
  BY DEF Request, SelectStores, create_item, new_version, duplicate, publish, build_snapshot,
         create_store, publish_version, update_store, delete_store, StoresAlone
<1> QED BY <1>0, <1>1, LocksStay

LEMMA LocksStep ==
  ASSUME Inv, LocksHeld, [Next]_catalogue
  PROVE  LocksHeld'
<1>1. CASE \E e \in Editors : EditorStep(e) \/ Request(e)
  BY <1>1, EditorLocks, RequestLocks
<1>2. CASE UNCHANGED <<rowLock, request>>
  BY <1>2 DEF LocksHeld
<1> QED BY <1>1, <1>2 DEF Next, DeleteRun, catalogue

\* The rows stay in their columns, no item has more versions than the bound,
\* and a row of a store is only locked by an insertion that is about to commit
\* (create_version): nobody leaves a lock behind.
THEOREM TypeCorrect == Spec => []TypeOK
<1> DEFINE TypeInv == VersionsBounded /\ LocksHeld
<1>1. Init => TypeInv
  BY VersioningAssumption DEF Init, VersioningInit, VersionsBounded, LocksHeld
<1>2. Inv /\ TypeInv /\ [Next]_catalogue => TypeInv'
  BY BoundedStep, LocksStep
<1>3. Inv /\ TypeInv => TypeOK
  <2> SUFFICES ASSUME Inv, TypeInv PROVE TypeOK
    OBVIOUS
  <2>1. VersioningTypeOK
    BY DEF Inv, Rows, VersioningTypeOK, VersionsBounded, Version
  <2> QED BY <2>1 DEF Inv, Rows, StoreRow, TypeOK, LocksHeld
<1> QED BY <1>1, <1>2, <1>3, CatalogueInvariant, PTL DEF Spec
=============================================================================
