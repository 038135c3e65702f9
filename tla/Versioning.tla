------------------------------ MODULE Versioning ----------------------------
(***************************************************************************)
(* Versioned items: cryptographic policies and scan profiles              *)
(* (api/policies.py).  An item has numbered versions, each a draft,       *)
(* published or archived; editing saves the draft or starts one, and      *)
(* publishing archives what was published.  A launched scan takes the     *)
(* latest published version (services/planner.py).                        *)
(*                                                                         *)
(* A request reads the rows in several statements and writes them in one  *)
(* commit, by the objects its session read: READ COMMITTED, no lock, and  *)
(* an object that was read once keeps the attributes of that reading.     *)
(***************************************************************************)
EXTENDS Naturals, Sequences, FiniteSets

CONSTANTS Items,        \* policies and profiles
          Contents,     \* what a version may say
          Editors,      \* operators, each with one request in flight at most
          MaxVersions   \* bound: versions of all items

ASSUME VersioningAssumption == MaxVersions \in Nat \ {0} /\ IsFiniteSet(Items)

VARIABLES
  versions,  \* rows of policy_versions and scan_profile_versions, by item:
             \* version n is the n-th, and no row is ever deleted
  request    \* the HTTP request of each editor

Idle == [pc |-> "idle"]
Draft(c) == [status |-> "draft", content |-> c]

\* The bound: a commit that would pass it is refused.
Room == Cardinality(UNION {{i} \X DOMAIN versions[i] : i \in Items}) < MaxVersions

Numbered(i, status) == {n \in DOMAIN versions[i] : versions[i][n].status = status}

VersioningInit == /\ versions = [i \in Items |-> << >>]
                  /\ request = [e \in Editors |-> Idle]

Becomes(e, r) == request' = [request EXCEPT ![e] = r]
Answers(e) == Becomes(e, Idle)
-----------------------------------------------------------------------------
\* create_item: the content is validated, the item and its first draft follow.
create_item(e, i, c) ==
  /\ request[e].pc = "idle"
  /\ versions[i] = << >>
  /\ Becomes(e, [pc |-> "create", item |-> i, content |-> c])
  /\ UNCHANGED versions

\* duplicate: the latest version, whatever its status, is the first draft.
duplicate(e, i, copy) ==
  /\ request[e].pc = "idle"
  /\ versions[i] # << >> /\ versions[copy] = << >>
  /\ Becomes(e, [pc |-> "create", item |-> copy,
                 content |-> versions[i][Len(versions[i])].content])
  /\ UNCHANGED versions

\* The commit of both; a name that is taken is refused.
InsertItem(e) ==
  /\ request[e].pc = "create"
  /\ LET i == request[e].item IN
     versions' = IF versions[i] # << >> \/ ~Room THEN versions
                 ELSE [versions EXCEPT ![i] = << Draft(request[e].content) >>]
  /\ Answers(e)

\* new_version: the content is validated ...
new_version(e, i, c) ==
  /\ request[e].pc = "idle"
  /\ versions[i] # << >>
  /\ Becomes(e, [pc |-> "edit", item |-> i, content |-> c])
  /\ UNCHANGED versions

\* ... then the draft is looked for: none, one, or an error (scalar_one_or_none).
FindDraft(e) ==
  /\ request[e].pc = "edit"
  /\ LET i == request[e].item
         c == request[e].content
     IN \/ /\ Numbered(i, "draft") = {}
           /\ Becomes(e, [pc |-> "number", item |-> i, content |-> c])
        \/ \E n \in Numbered(i, "draft") :
             /\ Numbered(i, "draft") = {n}
             /\ Becomes(e, [pc |-> "save", item |-> i, content |-> c,
                            draft |-> n, read |-> versions[i][n].content])
        \/ /\ Cardinality(Numbered(i, "draft")) > 1
           /\ Answers(e)
  /\ UNCHANGED versions

\* max(version), another statement.
LastNumber(e) ==
  /\ request[e].pc = "number"
  /\ Becomes(e, [pc |-> "insert", item |-> request[e].item, content |-> request[e].content,
                 number |-> Len(versions[request[e].item]) + 1])
  /\ UNCHANGED versions

\* The commit of a new draft; uq_policy_version refuses a number that is taken.
InsertDraft(e) ==
  /\ request[e].pc = "insert"
  /\ LET i == request[e].item IN
     versions' = IF request[e].number \in DOMAIN versions[i] \/ ~Room THEN versions
                 ELSE [versions EXCEPT ![i] = Append(@, Draft(request[e].content))]
  /\ Answers(e)

\* The commit of an edited draft: its content if it differs from what was
\* read, whatever the row has become since.
SaveDraft(e) ==
  /\ request[e].pc = "save"
  /\ LET q == request[e] IN
     versions' = IF q.content = q.read THEN versions
                 ELSE [versions EXCEPT ![q.item][q.draft].content = q.content]
  /\ Answers(e)

\* publish: the draft is read ...
publish(e, i) ==
  /\ request[e].pc = "idle"
  /\ versions[i] # << >>
  /\ \/ \E n \in Numbered(i, "draft") :
          /\ Numbered(i, "draft") = {n}
          /\ Becomes(e, [pc |-> "publish", item |-> i, draft |-> n])
     \/ /\ Cardinality(Numbered(i, "draft")) # 1  \* refused, or raises
        /\ Answers(e)
  /\ UNCHANGED versions

\* ... then what is published now ...
ReadPublished(e) ==
  /\ request[e].pc = "publish"
  /\ Becomes(e, [pc |-> "archive", item |-> request[e].item, draft |-> request[e].draft,
                 old |-> Numbered(request[e].item, "published")])
  /\ UNCHANGED versions

\* Mutated form: the old versions are archived last.
Publish_first(i, draft, old) ==
  [n \in DOMAIN versions[i] |->
     IF n \in old THEN [versions[i][n] EXCEPT !.status = "archived"]
     ELSE IF n = draft THEN [versions[i][n] EXCEPT !.status = "published"]
     ELSE versions[i][n]]

\* ... archived first, so that a draft published meanwhile stays so.
Publish(i, draft, old) ==
  [n \in DOMAIN versions[i] |->
     IF n = draft THEN [versions[i][n] EXCEPT !.status = "published"]
     ELSE IF n \in old THEN [versions[i][n] EXCEPT !.status = "archived"]
     ELSE versions[i][n]]

CommitPublish(e) ==
  /\ request[e].pc = "archive"
  /\ LET q == request[e] IN
     versions' = [versions EXCEPT ![q.item] = Publish(q.item, q.draft, q.old)]
  /\ Answers(e)
-----------------------------------------------------------------------------
\* What a request does after its first statement.
EditStep(e) == \/ InsertItem(e) \/ FindDraft(e) \/ LastNumber(e) \/ InsertDraft(e)
               \/ SaveDraft(e) \/ ReadPublished(e) \/ CommitPublish(e)

\* latest_published: the version a scan launched now would use.
latest_published(i) ==
  {n \in Numbered(i, "published") : \A m \in Numbered(i, "published") : m <= n}

VersioningNext ==
  \E e \in Editors :
    \/ EditStep(e)
    \/ \E i \in Items, c \in Contents : create_item(e, i, c) \/ new_version(e, i, c)
    \/ \E i, copy \in Items : duplicate(e, i, copy)
    \/ \E i \in Items : publish(e, i)

VersioningSpec == VersioningInit /\ [][VersioningNext]_<<versions, request>>
-----------------------------------------------------------------------------
VersioningTypeOK ==
  /\ DOMAIN versions = Items
  /\ \A i \in Items :
       /\ versions[i] \in Seq([status : {"draft", "published", "archived"}, content : Contents])
       /\ Len(versions[i]) <= MaxVersions

\* An item that was published once is never left without a published version,
\* however publications and edits interleave: a definition that uses it can
\* always be launched (publish, latest_published).
StaysPublished ==
  [][\A i \in Items : Numbered(i, "published") # {} => Numbered(i, "published")' # {}]_versions

\* "Published versions are never modified" (docs/user/policies-and-profiles.md,
\* new_version).
PublishedNeverModified ==
  [][\A i \in Items : \A n \in DOMAIN versions[i] :
       versions[i][n].status # "draft" => versions'[i][n].content = versions[i][n].content]_versions
=============================================================================
