---------------------------- MODULE Replication ----------------------------
(***************************************************************************)
(* How the signed versions of one record reach the other nodes.            *)
(*                                                                         *)
(* The authority publishes documents as VersionTree says.  Each publish,   *)
(* and each call of the retry endpoint, starts a push task that POSTs one  *)
(* document to the endpoints its policy selects, one after the other, and  *)
(* keeps a replication job for each.  A peer verifies what it is sent,     *)
(* reads its row, compares versions and stores the document.  A peer's     *)
(* resolver also fetches the record from the authority, and stores what it *)
(* got over the row it read before it asked.  Sessions hold what they have *)
(* read, and an UPDATE writes the columns in which the new values differ   *)
(* from what the session has read.                                         *)
(***************************************************************************)
EXTENDS Integers, FiniteSets

CONSTANTS
  Peer,          \* the nodes other than the authority
  Policy,        \* availability policies: [visibility, allowed] records
  Task,          \* slots for the push tasks that run at once
  None,          \* no document, no row, no task, nothing read
  MaxDocuments   \* bound: documents the authority issues

ASSUME PolicyAssumption ==
  Policy \subseteq [visibility: {"public", "restricted"}, allowed: SUBSET Peer]

VARIABLES
  record,    \* the authority's row: the current document
  issued,    \* every document the authority has stored
  task,      \* per slot, the push task: [doc, todo, at]
  job,       \* per slot and peer, the status of the latest replication job
  sync,      \* per slot and peer, the receive_sync handler of that POST
  replica,   \* per peer, its row: [doc, version]
  resolver,  \* per peer, its _resolve_one session: [row, got]
  held       \* per peer, the highest version its row ever had

authorityVars == <<record, issued>>
pushVars == <<task, job>>
peerVars == <<sync, replica, resolver, held>>
vars == <<authorityVars, pushVars, peerVars>>

-----------------------------------------------------------------------------
Document ==
  [stamp: Nat \ {0}, version: Nat \ {0}, policy: Policy]

\* A row of the table records: the columns record_json and version.
Row == [doc: Document, version: Nat \ {0}]

\* No row and no peer are told from a row and a peer.
ASSUME AbsenceAssumption == None \notin Row /\ None \notin Peer

RowOf(doc) == [doc |-> doc, version |-> doc.version]

\* The access check of receive_sync.
MayHold(p, doc) ==
  doc.policy.visibility = "public" \/ p \in doc.policy.allowed

\* replication_endpoints: alive are the peers whose gossip status is alive.
Endpoints(doc, alive) ==
  IF doc.policy.visibility = "public" THEN alive ELSE doc.policy.allowed

\* A wrong Updated: the version is a column the session wrote before.
UpdatedDocOnly(base, doc, stored) == [doc |-> doc, version |-> stored.version]

\* The UPDATE of a session that has read the row base, with doc's values, on
\* the row as it is stored now.
Updated(base, doc, stored) ==
  [doc |-> IF doc = base.doc THEN stored.doc ELSE doc,
   version |-> IF doc.version = base.version THEN stored.version ELSE doc.version]

NoSync == [state |-> "none", base |-> None]

Init ==
  /\ record = None
  /\ issued = {}
  /\ task = [t \in Task |-> None]
  /\ job = [t \in Task |-> [p \in Peer |-> "none"]]
  /\ sync = [t \in Task |-> [p \in Peer |-> NoSync]]
  /\ replica = [p \in Peer |-> None]
  /\ resolver = [p \in Peer |-> None]
  /\ held = [p \in Peer |-> 0]

-----------------------------------------------------------------------------
(* The authority. *)

\* create_task(_push_to_peers(doc))
StartPush(t, doc, alive) ==
  /\ task[t] = None
  /\ task' = [task EXCEPT ![t] =
                [doc |-> doc, todo |-> Endpoints(doc, alive), at |-> None]]
  /\ job' = [job EXCEPT ![t] = [p \in Peer |-> "none"]]

\* A wrong Publish: the push starts before a commit that fails.
PublishUncommitted(t, version, policy, alive) ==
  /\ Cardinality(issued) < MaxDocuments
  /\ StartPush(t, [stamp |-> Cardinality(issued) + 1, version |-> version,
                   policy |-> policy], alive)
  /\ UNCHANGED <<authorityVars, peerVars>>

\* A write handler commits a document and starts its push.  The document's
\* parent is any issued one: RecordStore does not promise more.
Publish(t, version, policy, alive) ==
  /\ Cardinality(issued) < MaxDocuments
  /\ LET doc == [stamp |-> Cardinality(issued) + 1, version |-> version,
                 policy |-> policy]
     IN  /\ record' = doc
         /\ issued' = issued \union {doc}
         /\ StartPush(t, doc, alive)
  /\ UNCHANGED peerVars

NextVersions == IF issued = {} THEN {1} ELSE {d.version + 1 : d \in issued}

\* retry_replication: push the row as it is now.
Retry(t, alive) ==
  /\ record # None
  /\ StartPush(t, record, alive)
  /\ UNCHANGED <<authorityVars, peerVars>>

\* The job of the next endpoint is stored as pending, and the POST begins.
OpenJob(t, p) ==
  /\ task[t] # None
  /\ task[t].at = None
  /\ p \in task[t].todo
  /\ sync[t][p] = NoSync
  /\ task' = [task EXCEPT ![t] = [doc |-> @.doc, todo |-> @.todo \ {p}, at |-> p]]
  /\ job' = [job EXCEPT ![t][p] = "pending"]
  /\ UNCHANGED <<authorityVars, peerVars>>

\* A wrong CloseJob: the job succeeds once the request has been sent.
CloseJobOnceSent(t, p, status) ==
  /\ task[t] # None
  /\ task[t].at = p
  /\ status = "succeeded"
  /\ job' = [job EXCEPT ![t][p] = status]
  /\ task' = [task EXCEPT ![t].at = None]
  /\ sync' = [sync EXCEPT ![t][p] =
                IF @.state \in {"accepted", "refused"} THEN NoSync ELSE @]
  /\ UNCHANGED <<authorityVars, replica, resolver, held>>

\* The POST has ended with the peer's answer, or without one: the peer cannot
\* be reached, or does not answer within the client's five seconds.
CloseJob(t, p, status) ==
  /\ task[t] # None
  /\ task[t].at = p
  /\ \/ sync[t][p].state = "accepted" /\ status = "succeeded"
     \/ sync[t][p].state # "accepted" /\ status = "failed"
  /\ job' = [job EXCEPT ![t][p] = status]
  /\ task' = [task EXCEPT ![t].at = None]
  /\ sync' = [sync EXCEPT ![t][p] =
                IF @.state \in {"accepted", "refused"} THEN NoSync ELSE @]
  /\ UNCHANGED <<authorityVars, replica, resolver, held>>

\* The task ends: nothing is left to do, or an exception ends it early.
EndPush(t) ==
  /\ task[t] # None
  /\ task' = [task EXCEPT ![t] = None]
  /\ sync' = [sync EXCEPT ![t] = [p \in Peer |->
                IF @[p].state \in {"accepted", "refused"} THEN NoSync ELSE @[p]]]
  /\ UNCHANGED <<authorityVars, job, replica, resolver, held>>

\* The authority's process dies: its tasks are gone, its tables are not.
AuthorityCrash ==
  /\ task' = [t \in Task |-> None]
  /\ sync' = [t \in Task |-> [p \in Peer |->
                IF sync[t][p].state \in {"accepted", "refused"} THEN NoSync
                ELSE sync[t][p]]]
  /\ UNCHANGED <<authorityVars, job, replica, resolver, held>>

-----------------------------------------------------------------------------
(* receive_sync on peer p, for the POST of task slot t. *)

\* The request arrives: its handler keeps the document it was sent.
Arrive(t, p) ==
  /\ task[t] # None
  /\ task[t].at = p
  /\ sync[t][p] = NoSync
  /\ sync' = [sync EXCEPT ![t][p] =
                [state |-> "verifying", base |-> None, doc |-> task[t].doc]]
  /\ UNCHANGED <<authorityVars, pushVars, replica, resolver, held>>

\* The handler answers; nobody listens once the client has given up.
Answer(t, p, answer) ==
  sync' = [sync EXCEPT ![t][p] =
             IF task[t] # None /\ task[t].at = p
               THEN [state |-> answer, base |-> None] ELSE NoSync]

\* An answer other than 2xx: no proof, no access, or an error in the database.
Refuse(t, p) ==
  /\ sync[t][p].state \in {"verifying", "selected"}
  /\ Answer(t, p, "refused")
  /\ UNCHANGED <<authorityVars, pushVars, replica, resolver, held>>

\* The proof verifies and the policy grants access: the row is read.
Select(t, p) ==
  /\ sync[t][p].state = "verifying"
  /\ MayHold(p, sync[t][p].doc)
  /\ IF replica[p] # None /\ sync[t][p].doc.version <= replica[p].version
       THEN Answer(t, p, "accepted")
       ELSE sync' = [sync EXCEPT ![t][p] =
                       [state |-> "selected", base |-> replica[p], doc |-> @.doc]]
  /\ UNCHANGED <<authorityVars, pushVars, replica, resolver, held>>

\* The row of peer p, read as base, is written with doc's values.  An INSERT
\* of a row that exists by now fails.
Put(p, base, doc) ==
  /\ base = None => replica[p] = None
  /\ LET row == IF base = None THEN RowOf(doc) ELSE Updated(base, doc, replica[p])
     IN  /\ replica' = [replica EXCEPT ![p] = row]
         /\ held' = [held EXCEPT ![p] = IF row.version > @ THEN row.version ELSE @]

CommitSync(t, p) ==
  /\ sync[t][p].state = "selected"
  /\ Put(p, sync[t][p].base, sync[t][p].doc)
  /\ Answer(t, p, "accepted")
  /\ UNCHANGED <<authorityVars, pushVars, resolver>>

-----------------------------------------------------------------------------
(* _resolve_one on peer p, when its row is absent or past the cache's time *)
(* to live.                                                                *)

BeginResolve(p) ==
  /\ resolver[p] = None
  /\ resolver' = [resolver EXCEPT ![p] = [row |-> replica[p], got |-> None]]
  /\ UNCHANGED <<authorityVars, pushVars, sync, replica, held>>

\* A wrong Fetch: the GET is answered whatever the policy is.
FetchAny(p) ==
  /\ resolver[p] # None
  /\ resolver[p].got = None
  /\ record # None
  /\ resolver' = [resolver EXCEPT ![p].got = record]
  /\ UNCHANGED <<authorityVars, pushVars, sync, replica, held>>

\* The authority answers the anonymous GET with its row, if that is public.
Fetch(p) ==
  /\ resolver[p] # None
  /\ resolver[p].got = None
  /\ record # None
  /\ record.policy.visibility = "public"
  /\ resolver' = [resolver EXCEPT ![p].got = record]
  /\ UNCHANGED <<authorityVars, pushVars, sync, replica, held>>


\* The document is stored unless it is older than the row the session read.
CommitResolve(p) ==
  /\ resolver[p] # None
  /\ resolver[p].got # None
  /\ IF resolver[p].row # None /\ resolver[p].got.version < resolver[p].row.version
       THEN UNCHANGED <<replica, held>>
       ELSE Put(p, resolver[p].row, resolver[p].got)
  /\ resolver' = [resolver EXCEPT ![p] = None]
  /\ UNCHANGED <<authorityVars, pushVars, sync>>

\* No answer, 403, or an error in the database: the row is kept, and served
\* as verified_stale.
EndResolve(p) ==
  /\ resolver[p] # None
  /\ resolver' = [resolver EXCEPT ![p] = None]
  /\ UNCHANGED <<authorityVars, pushVars, sync, replica, held>>

\* The process of peer p dies: its sessions are gone, its table is not, and
\* the clients of its handlers see their connections end.
PeerCrash(p) ==
  /\ sync' = [t \in Task |-> [sync[t] EXCEPT ![p] =
                IF @.state \in {"verifying", "selected"}
                  THEN IF task[t] # None /\ task[t].at = p
                         THEN [state |-> "refused", base |-> None] ELSE NoSync
                  ELSE @]]
  /\ resolver' = [resolver EXCEPT ![p] = None]
  /\ UNCHANGED <<authorityVars, pushVars, replica, held>>

-----------------------------------------------------------------------------
Next ==
  \/ \E t \in Task, policy \in Policy, alive \in SUBSET Peer :
       \E version \in NextVersions : Publish(t, version, policy, alive)
  \/ \E t \in Task, alive \in SUBSET Peer : Retry(t, alive)
  \/ \E t \in Task, p \in Peer :
       \/ OpenJob(t, p)
       \/ \E status \in {"succeeded", "failed"} : CloseJob(t, p, status)
       \/ Arrive(t, p)
       \/ Refuse(t, p)
       \/ Select(t, p)
       \/ CommitSync(t, p)
  \/ \E t \in Task : EndPush(t)
  \/ AuthorityCrash
  \/ \E p \in Peer :
       BeginResolve(p) \/ Fetch(p) \/ CommitResolve(p) \/ EndResolve(p) \/ PeerCrash(p)

Spec == Init /\ [][Next]_vars

\* Somebody keeps asking the peers for the record, whose cached copies expire.
\* A request that is made again and again is answered at last, and the handlers
\* and the resolver end what they have begun: every call has a timeout.
\* Nothing is assumed of pushes: they may all be lost.
Fairness ==
  \A p \in Peer :
    /\ WF_vars(BeginResolve(p))
    /\ SF_vars(Fetch(p))
    /\ SF_vars(CommitResolve(p))
    /\ WF_vars(resolver[p] # None /\ (Fetch(p) \/ CommitResolve(p) \/ EndResolve(p)))
    /\ \A t \in Task : WF_vars(Refuse(t, p) \/ Select(t, p) \/ CommitSync(t, p))

FairSpec == Spec /\ Fairness

-----------------------------------------------------------------------------
(* Properties *)

SyncState == {"none", "verifying", "selected", "accepted", "refused"}

\* Every variable has its type, and whatever a task, a handler, a resolver or
\* a row holds is a document the authority issued.
TypeOK ==
  /\ issued \in SUBSET Document
  /\ record \in issued \union {None}
  /\ \A t \in Task :
       task[t] = None \/ task[t] \in [doc: issued, todo: SUBSET Peer,
                                     at: Peer \union {None}]
  /\ job \in [Task -> [Peer -> {"none", "pending", "succeeded", "failed"}]]
  /\ \A t \in Task, p \in Peer :
       /\ sync[t][p].state \in SyncState
       /\ sync[t][p].base # None => sync[t][p].base.doc \in issued
       /\ sync[t][p].state \in {"verifying", "selected"} => sync[t][p].doc \in issued
  /\ \A p \in Peer :
       /\ replica[p] # None => replica[p] \in Row /\ replica[p].doc \in issued
       /\ resolver[p] # None => resolver[p].got \in issued \union {None}
  /\ held \in [Peer -> Nat]

\* No version number was issued twice.
Forkless == \A d, e \in issued : d.version = e.version => d = e

\* A peer stores a restricted document only if the document's policy names it,
\* however its pushes, the resolver and changes of the policy interleave
\* (README.md: replicated only to allowed_nodes).
GrantRespected ==
  \A p \in Peer : replica[p] # None => MayHold(p, replica[p].doc)

\* The version column of a peer's row is the version of the document in it,
\* though concurrent sessions each write only the columns they changed: while
\* no version number is used twice.
ColumnsAgreeWithoutFork ==
  Forkless => \A p \in Peer :
    replica[p] # None => replica[p].version = replica[p].doc.version

\* A job that succeeded tells the truth: the peer's row has had the version
\* that was pushed, or a later one, even if the answer came from a handler
\* that found its row newer or wrote over one that changed under it.
SucceededMeansHeld ==
  \A t \in Task, p \in Peer :
    task[t] # None /\ job[t][p] = "succeeded" => held[p] >= task[t].doc.version

\* The record has settled on a public document with the highest version.
Settled ==
  /\ record # None
  /\ record.policy.visibility = "public"
  /\ \A d \in issued : d.version <= record.version


=============================================================================
