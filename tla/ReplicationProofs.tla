-------------------------- MODULE ReplicationProofs --------------------------
(***************************************************************************)
(* Proofs about Replication, for every set of peers, policies and push     *)
(* tasks, and every bound on the documents.                                *)
(***************************************************************************)
EXTENDS Replication, FiniteSetTheorems, TLAPS

PushTask == [doc: issued, todo: SUBSET Peer, at: Peer \union {None}]

\* A row whose document was issued.
IssuedRow == [doc: issued, version: Nat \ {0}]

\* What is known of a receive_sync handler: while it works, the document it
\* was sent and the row it read; nothing before and after that.
Handling == [state: {"verifying", "selected"}, base: IssuedRow \union {None}, doc: issued]

Resting == [state: {"none", "accepted", "refused"}, base: {None}]

Resolving == [row: IssuedRow \union {None}, got: issued \union {None}]

Types ==
  /\ issued \in SUBSET Document /\ IsFiniteSet(issued)
  /\ record \in issued \union {None}
  /\ task \in [Task -> PushTask \union {None}]
  /\ job \in [Task -> [Peer -> {"none", "pending", "succeeded", "failed"}]]
  /\ sync \in [Task -> [Peer -> Handling \union Resting]]
  /\ replica \in [Peer -> IssuedRow \union {None}]
  /\ resolver \in [Peer -> Resolving \union {None}]
  /\ held \in [Peer -> Nat]

\* The client of handler (t, p) has not given up.
Waits(t, p) == task[t] # None /\ task[t].at = p

Working(t, p) == sync[t][p].state \in {"verifying", "selected"}

Agrees(r) == Forkless => r.version = r.doc.version

\* A row that a session has read is still there, and was not mixed.
ReadOK(p, base) == base # None => replica[p] # None /\ Agrees(base)

\* Handler (t, p) works for the task that waits for it; what it is about to
\* store is granted and newer than the row it read; it answers accepted only
\* when the peer's row has reached the version it was sent.
SyncOK(t, p) ==
  /\ Working(t, p) /\ Waits(t, p) => sync[t][p].doc = task[t].doc
  /\ sync[t][p].state = "selected" =>
       /\ MayHold(p, sync[t][p].doc)
       /\ ReadOK(p, sync[t][p].base)
       /\ sync[t][p].base # None => sync[t][p].base.version < sync[t][p].doc.version
  /\ sync[t][p].state = "accepted" => Waits(t, p) /\ held[p] >= task[t].doc.version

\* The row of a peer is granted, not mixed, and accounted for in held.
RowOK(p) ==
  replica[p] # None =>
    MayHold(p, replica[p].doc) /\ Agrees(replica[p]) /\ held[p] >= replica[p].version

\* What the resolver got, it may hold.
ResolverOK(p) ==
  resolver[p] # None =>
    /\ ReadOK(p, resolver[p].row)
    /\ resolver[p].got # None => MayHold(p, resolver[p].got)

PeersOK ==
  /\ \A t \in Task, p \in Peer : SyncOK(t, p)
  /\ \A p \in Peer : RowOK(p) /\ ResolverOK(p)

Inv == Types /\ PeersOK /\ SucceededMeansHeld

-----------------------------------------------------------------------------
(* Types *)

\* Nothing is issued, stored or under way.
LEMMA InitInv == Init => Inv
<1> SUFFICES ASSUME Init PROVE Inv
  OBVIOUS
<1>1. Types
  BY FS_EmptySet DEF Init, Types, Resting, NoSync
<1>2. \A t \in Task, p \in Peer : SyncOK(t, p)
  BY DEF Init, NoSync, SyncOK, Working
<1>3. \A p \in Peer : RowOK(p) /\ ResolverOK(p)
  BY DEF Init, RowOK, ResolverOK
<1>4. SucceededMeansHeld
  BY DEF Init, SucceededMeansHeld
<1> QED BY <1>1, <1>2, <1>3, <1>4 DEF Inv, PeersOK

\* A push goes to peers.
LEMMA EndpointsArePeers ==
  ASSUME NEW doc \in Document, NEW alive \in SUBSET Peer
  PROVE  Endpoints(doc, alive) \subseteq Peer
BY PolicyAssumption DEF Document, Endpoints

\* The task that is started for doc.
LEMMA StartPushTypes ==
  ASSUME Types, NEW t \in Task, NEW doc \in issued', NEW alive \in SUBSET Peer,
         issued' \in SUBSET Document, issued \subseteq issued', StartPush(t, doc, alive)
  PROVE  /\ task' \in [Task -> PushTask' \union {None}]
         /\ job' \in [Task -> [Peer -> {"none", "pending", "succeeded", "failed"}]]
<1>1. [doc |-> doc, todo |-> Endpoints(doc, alive), at |-> None] \in PushTask'
  BY EndpointsArePeers DEF PushTask
<1>2. PushTask \subseteq PushTask'
  BY DEF PushTask
<1> QED BY <1>1, <1>2 DEF StartPush, Types

\* What a commit on a peer leaves in its row: doc, or what is stored already.
LEMMA PutRow ==
  ASSUME Types, NEW p \in Peer, NEW base \in IssuedRow \union {None}, NEW doc \in issued,
         base # None => replica[p] # None, Put(p, base, doc)
  PROVE  \E row \in IssuedRow :
           /\ replica' = [replica EXCEPT ![p] = row] /\ row # None
           /\ row = IF base = None THEN RowOf(doc) ELSE Updated(base, doc, replica[p])
           /\ held' \in [Peer -> Nat] /\ held'[p] >= row.version
           /\ \A q \in Peer : held'[q] >= held[q]
<1> DEFINE row == IF base = None THEN RowOf(doc) ELSE Updated(base, doc, replica[p])
<1>1. doc \in Document /\ doc.version \in Nat \ {0}
  BY DEF Types, Document
<1>2. row \in IssuedRow
  BY <1>1 DEF Types, RowOf, Updated, IssuedRow
<1>3. row \in Row
  BY <1>2 DEF IssuedRow, Row, Types
<1>4. row # None /\ row.version \in Nat
  BY <1>3, AbsenceAssumption DEF Row
<1>5. /\ replica' = [replica EXCEPT ![p] = row]
      /\ held' = [held EXCEPT ![p] = IF row.version > @ THEN row.version ELSE @]
  BY DEF Put
<1> HIDE DEF row
<1>6. /\ held' \in [Peer -> Nat] /\ held'[p] >= row.version
      /\ \A q \in Peer : held'[q] >= held[q]
  BY <1>4, <1>5 DEF Types
<1> QED BY <1>2, <1>4, <1>5, <1>6 DEF row

\* The answer of a handler whose client is or is not waiting.
LEMMA AnswerTypes ==
  ASSUME Types, NEW t \in Task, NEW p \in Peer, NEW answer \in {"accepted", "refused"},
         Answer(t, p, answer)
  PROVE  /\ sync' \in [Task -> [Peer -> Handling \union Resting]]
         /\ \A s \in Task, q \in Peer : <<s, q>> # <<t, p>> => sync'[s][q] = sync[s][q]
         /\ sync'[t][p].state = IF Waits(t, p) THEN answer ELSE "none"
<1> DEFINE entry == IF task[t] # None /\ task[t].at = p
                      THEN [state |-> answer, base |-> None] ELSE NoSync
<1>1. entry \in Resting /\ entry.state = IF Waits(t, p) THEN answer ELSE "none"
  BY DEF Resting, NoSync, Waits
<1>2. sync' = [sync EXCEPT ![t][p] = entry]
  BY DEF Answer
<1> HIDE DEF entry
<1> QED BY <1>1, <1>2 DEF Types

-----------------------------------------------------------------------------
(* Steps of the authority. *)

\* While documents are added, rows that agree go on to agree.
LEMMA AgreesGrows ==
  ASSUME issued \subseteq issued'
  PROVE  Forkless' => Forkless
BY DEF Forkless

\* Publish and Retry: a task starts in a free slot, for an issued document.
LEMMA StartPushKeeps ==
  ASSUME Inv, NEW t \in Task, NEW doc \in issued', NEW alive \in SUBSET Peer,
         issued' \in SUBSET Document, IsFiniteSet(issued'), issued \subseteq issued',
         record' \in issued', StartPush(t, doc, alive), UNCHANGED peerVars
  PROVE  Inv'
<1>1. Types'
  <2>1. /\ task' \in [Task -> PushTask' \union {None}]
        /\ job' \in [Task -> [Peer -> {"none", "pending", "succeeded", "failed"}]]
    BY StartPushTypes DEF Inv
  <2>2. IssuedRow \subseteq IssuedRow'
    BY DEF IssuedRow
  <2>3. Handling \subseteq Handling' /\ Resolving \subseteq Resolving'
    BY <2>2 DEF Handling, Resolving
  <2>4. Resting' = Resting
    BY DEF Resting
  <2> QED BY <2>1, <2>2, <2>3, <2>4 DEF Inv, Types, peerVars
<1>2. Forkless' => Forkless
  BY AgreesGrows
<1>3. /\ task[t] = None /\ task'[t].at = None
      /\ \A s \in Task \ {t} : task'[s] = task[s] /\ job'[s] = job[s]
      /\ \A p \in Peer : job'[t][p] = "none"
  BY DEF StartPush, Inv, Types
<1>4. ASSUME NEW s \in Task, NEW p \in Peer
      PROVE  SyncOK(s, p)'
  <2>1. SyncOK(s, p)
    BY DEF Inv, PeersOK
  <2>2. ReadOK(p, sync[s][p].base) => ReadOK(p, sync[s][p].base)'
    BY <1>2 DEF ReadOK, Agrees, peerVars
  <2>3. CASE s = t
    <3>1. ~Waits(s, p) /\ ~Waits(s, p)'
      BY <1>3, <2>3, AbsenceAssumption DEF Waits
    <3> QED BY <2>1, <2>2, <3>1 DEF SyncOK, Working, peerVars
  <2>4. CASE s # t
    <3>1. task'[s] = task[s]
      BY <1>3, <2>4
    <3> QED BY <2>1, <2>2, <3>1 DEF SyncOK, Working, Waits, peerVars
  <2> QED BY <2>3, <2>4
<1>5. \A p \in Peer : RowOK(p)' /\ ResolverOK(p)'
  BY <1>2 DEF Inv, PeersOK, RowOK, ResolverOK, ReadOK, Agrees, peerVars
<1>6. SucceededMeansHeld'
  BY <1>3 DEF Inv, SucceededMeansHeld, peerVars
<1> QED BY <1>1, <1>4, <1>5, <1>6 DEF Inv, PeersOK

\* A write issues a document of a later version and stamp, and pushes it.
LEMMA PublishKeeps ==
  ASSUME Inv, NEW t \in Task, NEW policy \in Policy, NEW alive \in SUBSET Peer,
         NEW version \in NextVersions, Publish(t, version, policy, alive)
  PROVE  Inv'
<1> DEFINE doc == [stamp |-> Cardinality(issued) + 1, version |-> version, policy |-> policy]
<1>1. issued \in SUBSET Document /\ IsFiniteSet(issued) /\ Cardinality(issued) \in Nat
  BY FS_CardinalityType DEF Inv, Types
<1>2. version \in Nat \ {0}
  BY <1>1 DEF NextVersions, Document
<1>3. doc \in Document
  BY <1>1, <1>2 DEF Document
<1>4. /\ record' = doc /\ issued' = issued \union {doc}
      /\ StartPush(t, doc, alive) /\ UNCHANGED peerVars
  BY DEF Publish
<1> HIDE DEF doc
<1>5. IsFiniteSet(issued')
  BY <1>1, <1>4, FS_AddElement
<1> QED BY <1>1, <1>3, <1>4, <1>5, StartPushKeeps

\* A retry pushes the record as it is: an issued document.
LEMMA RetryKeeps ==
  ASSUME Inv, NEW t \in Task, NEW alive \in SUBSET Peer, Retry(t, alive)
  PROVE  Inv'
<1>1. record \in issued /\ issued \in SUBSET Document /\ IsFiniteSet(issued)
  BY DEF Retry, Inv, Types
<1>2. record' = record /\ issued' = issued
  BY DEF Retry, authorityVars
<1> QED BY <1>1, <1>2, StartPushKeeps DEF Retry

\* A step that only ends, closes or opens what a task waits for: the peers' rows
\* and resolvers stay, and so do the documents.
LEMMA PushStepKeeps ==
  ASSUME Inv, UNCHANGED <<authorityVars, replica, resolver, held>>,
         task' \in [Task -> PushTask \union {None}],
         job' \in [Task -> [Peer -> {"none", "pending", "succeeded", "failed"}]],
         sync' \in [Task -> [Peer -> Handling \union Resting]],
         \A t \in Task, p \in Peer :
           /\ sync'[t][p] = sync[t][p] \/ sync'[t][p] = NoSync
           /\ task'[t] # None => task[t] # None /\ task'[t].doc = task[t].doc
           /\ Working(t, p) /\ Waits(t, p)' => Waits(t, p)
           /\ sync'[t][p].state = "accepted" => (Waits(t, p) => Waits(t, p)')
           /\ job'[t][p] = "succeeded" =>
                job[t][p] = "succeeded" \/ sync[t][p].state = "accepted"
  PROVE  Inv'
<1>1. Types'
  BY DEF Inv, Types, authorityVars, PushTask, Handling, Resting, Resolving, IssuedRow
<1>2. ASSUME NEW t \in Task, NEW p \in Peer
      PROVE  SyncOK(t, p)'
  <2>1. SyncOK(t, p)
    BY DEF Inv, PeersOK
  <2>2. CASE sync'[t][p] = NoSync
    BY <2>2 DEF SyncOK, Working, NoSync
  <2>3. CASE sync'[t][p] = sync[t][p]
    <3>1. ReadOK(p, sync[t][p].base) => ReadOK(p, sync[t][p].base)'
      BY <2>3 DEF ReadOK, Agrees, Forkless, authorityVars
    <3>2. Working(t, p)' => Working(t, p)
      BY <2>3 DEF Working
    <3>3. Waits(t, p)' => task[t] # None /\ task'[t].doc = task[t].doc
      BY DEF Waits
    <3>4. sync'[t][p].state = "accepted" => Waits(t, p)'
      BY <2>1, <2>3 DEF SyncOK
    <3> QED BY <2>1, <2>3, <3>1, <3>2, <3>3, <3>4 DEF SyncOK
  <2> QED BY <2>2, <2>3
<1>3. \A p \in Peer : RowOK(p)' /\ ResolverOK(p)'
  BY DEF Inv, PeersOK, RowOK, ResolverOK, ReadOK, Agrees, Forkless, authorityVars
<1>4. SucceededMeansHeld'
  <2>1. \A t \in Task, p \in Peer : sync[t][p].state = "accepted" =>
          held[p] >= task[t].doc.version
    BY DEF Inv, PeersOK, SyncOK
  <2> QED BY <2>1 DEF Inv, SucceededMeansHeld
<1> QED BY <1>1, <1>2, <1>3, <1>4 DEF Inv, PeersOK

\* The task takes the next peer; nothing of it is under way there yet.
LEMMA OpenJobKeeps ==
  ASSUME Inv, NEW t \in Task, NEW p \in Peer, OpenJob(t, p)
  PROVE  Inv'
<1>1. /\ task[t] \in PushTask /\ task[t] # None /\ task[t].at = None
      /\ sync[t][p] = NoSync
  BY DEF OpenJob, Inv, Types
<1>2. /\ task' = [task EXCEPT ![t] = [doc |-> task[t].doc, todo |-> task[t].todo \ {p},
                                     at |-> p]]
      /\ job' = [job EXCEPT ![t][p] = "pending"]
      /\ UNCHANGED <<authorityVars, peerVars>>
  BY DEF OpenJob
<1>3. task' \in [Task -> PushTask \union {None}]
  BY <1>1, <1>2 DEF Inv, Types, PushTask
<1>4. job' \in [Task -> [Peer -> {"none", "pending", "succeeded", "failed"}]]
  BY <1>2 DEF Inv, Types
<1>5. ASSUME NEW s \in Task, NEW q \in Peer
      PROVE  /\ task'[s] # None => task[s] # None /\ task'[s].doc = task[s].doc
             /\ Working(s, q) /\ Waits(s, q)' => Waits(s, q)
             /\ Waits(s, q) => Waits(s, q)'
             /\ job'[s][q] = "succeeded" => job[s][q] = "succeeded"
  <2>1. CASE s = t
    BY <1>1, <1>2, <2>1, AbsenceAssumption DEF Inv, Types, Waits, Working, NoSync
  <2>2. CASE s # t
    BY <1>2, <2>2 DEF Inv, Types, Waits
  <2> QED BY <2>1, <2>2
<1>6. sync' = sync /\ UNCHANGED <<authorityVars, replica, resolver, held>>
  BY <1>2 DEF peerVars
<1> QED BY <1>3, <1>4, <1>5, <1>6, PushStepKeeps DEF Inv, Types

\* Only an answer closes a job as succeeded, and it came from a peer that holds the row.
LEMMA CloseJobKeeps ==
  ASSUME Inv, NEW t \in Task, NEW p \in Peer, NEW status \in {"succeeded", "failed"},
         CloseJob(t, p, status)
  PROVE  Inv'
<1>1. /\ task[t] \in PushTask /\ task[t] # None /\ task[t].at = p
      /\ sync[t][p].state = "accepted" \/ status = "failed"
  BY DEF CloseJob, Inv, Types
<1>2. /\ task' = [task EXCEPT ![t] = [doc |-> task[t].doc, todo |-> task[t].todo,
                                     at |-> None]]
      /\ job' = [job EXCEPT ![t][p] = status]
      /\ sync' = [sync EXCEPT ![t][p] =
                    IF @.state \in {"accepted", "refused"} THEN NoSync ELSE @]
      /\ UNCHANGED <<authorityVars, replica, resolver, held>>
  <2>1. task[t] = [doc |-> task[t].doc, todo |-> task[t].todo, at |-> p]
    BY <1>1 DEF PushTask
  <2>2. task' = [task EXCEPT ![t] = [task[t] EXCEPT !.at = None]]
    BY DEF CloseJob, Inv, Types
  <2>3. [task[t] EXCEPT !.at = None]
          = [doc |-> task[t].doc, todo |-> task[t].todo, at |-> None]
    BY <2>1
  <2> QED BY <2>2, <2>3 DEF CloseJob
<1>3. task' \in [Task -> PushTask \union {None}]
  BY <1>1, <1>2 DEF Inv, Types, PushTask
<1>4. job' \in [Task -> [Peer -> {"none", "pending", "succeeded", "failed"}]]
  BY <1>2 DEF Inv, Types
<1>5. NoSync \in Resting
  BY DEF NoSync, Resting
<1>6. sync' \in [Task -> [Peer -> Handling \union Resting]]
  BY <1>2, <1>5 DEF Inv, Types
<1>7. ASSUME NEW s \in Task, NEW q \in Peer
      PROVE  /\ sync'[s][q] = sync[s][q] \/ sync'[s][q] = NoSync
             /\ task'[s] # None => task[s] # None /\ task'[s].doc = task[s].doc
             /\ Working(s, q) /\ Waits(s, q)' => Waits(s, q)
             /\ sync'[s][q].state = "accepted" => (Waits(s, q) => Waits(s, q)')
             /\ job'[s][q] = "succeeded" =>
                  job[s][q] = "succeeded" \/ sync[s][q].state = "accepted"
  <2>1. CASE s = t /\ q = p
    <3>1. sync'[s][q] = IF sync[t][p].state \in {"accepted", "refused"} THEN NoSync
                        ELSE sync[t][p]
      BY <1>2, <2>1 DEF Inv, Types
    <3>2. sync'[s][q].state # "accepted"
      BY <3>1 DEF NoSync
    <3>3. task'[s] = [doc |-> task[t].doc, todo |-> task[t].todo, at |-> None]
      BY <1>2, <2>1 DEF Inv, Types
    <3>4. ~Waits(s, q)'
      BY <2>1, <3>3, AbsenceAssumption DEF Waits
    <3>5. job'[s][q] = status
      BY <1>2, <2>1 DEF Inv, Types
    <3> QED BY <1>1, <2>1, <3>1, <3>2, <3>3, <3>4, <3>5
  <2>2. CASE s = t /\ q # p
    <3>1. sync'[s][q] = sync[s][q] /\ job'[s][q] = job[s][q]
      BY <1>2, <2>2 DEF Inv, Types
    <3>2. task'[s] = [doc |-> task[t].doc, todo |-> task[t].todo, at |-> None]
      BY <1>2, <2>2 DEF Inv, Types
    <3> QED BY <1>1, <2>2, <3>1, <3>2, AbsenceAssumption DEF Waits
  <2>3. CASE s # t
    BY <1>2, <2>3 DEF Inv, Types, Waits
  <2> QED BY <2>1, <2>2, <2>3
<1> QED BY <1>2, <1>3, <1>4, <1>6, <1>7, PushStepKeeps

\* EndPush and AuthorityCrash: tasks of some slots end, and what was answered
\* to them is forgotten.
LEMMA TasksEndKeeps ==
  ASSUME Inv, NEW ended \in SUBSET Task,
         UNCHANGED <<authorityVars, job, replica, resolver, held>>,
         task' = [t \in Task |-> IF t \in ended THEN None ELSE task[t]],
         sync' \in [Task -> [Peer -> Handling \union Resting]],
         \A t \in Task, p \in Peer :
           sync'[t][p] = IF /\ t \in ended
                            /\ sync[t][p].state \in {"accepted", "refused"}
                         THEN NoSync ELSE sync[t][p]
  PROVE  Inv'
<1>1. task' \in [Task -> PushTask \union {None}]
  BY DEF Inv, Types
<1>2. ASSUME NEW t \in Task, NEW p \in Peer
      PROVE  /\ sync'[t][p] = sync[t][p] \/ sync'[t][p] = NoSync
             /\ task'[t] # None => task[t] # None /\ task'[t].doc = task[t].doc
             /\ Working(t, p) /\ Waits(t, p)' => Waits(t, p)
             /\ sync'[t][p].state = "accepted" => (Waits(t, p) => Waits(t, p)')
  BY DEF Waits, NoSync
<1> QED BY <1>1, <1>2, PushStepKeeps DEF Inv, Types

\* One task ends, and with it what it has under way.
LEMMA EndPushKeeps ==
  ASSUME Inv, NEW t \in Task, EndPush(t)
  PROVE  Inv'
<1> DEFINE ended == {t}
<1>1. NoSync \in Resting
  BY DEF NoSync, Resting
<1>2. /\ task' = [s \in Task |-> IF s \in ended THEN None ELSE task[s]]
      /\ UNCHANGED <<authorityVars, job, replica, resolver, held>>
  BY DEF EndPush, Inv, Types
<1>3. \A s \in Task, p \in Peer :
        sync'[s][p] = IF s \in ended /\ sync[s][p].state \in {"accepted", "refused"}
                      THEN NoSync ELSE sync[s][p]
  BY DEF EndPush, Inv, Types
<1>4. sync' \in [Task -> [Peer -> Handling \union Resting]]
  BY <1>1 DEF EndPush, Inv, Types
<1>5. ended \in SUBSET Task
  OBVIOUS
<1> HIDE DEF ended
<1> QED BY <1>2, <1>3, <1>4, <1>5, TasksEndKeeps

\* All tasks end at once.
LEMMA AuthorityCrashKeeps ==
  ASSUME Inv, AuthorityCrash
  PROVE  Inv'
<1>1. NoSync \in Resting
  BY DEF NoSync, Resting
<1>2. /\ task' = [s \in Task |-> IF s \in Task THEN None ELSE task[s]]
      /\ UNCHANGED <<authorityVars, job, replica, resolver, held>>
  BY DEF AuthorityCrash
<1>3. \A s \in Task, p \in Peer :
        sync'[s][p] = IF s \in Task /\ sync[s][p].state \in {"accepted", "refused"}
                      THEN NoSync ELSE sync[s][p]
  BY DEF AuthorityCrash
<1>4. sync' \in [Task -> [Peer -> Handling \union Resting]]
  BY <1>1 DEF AuthorityCrash, Inv, Types
<1> QED BY <1>2, <1>3, <1>4, TasksEndKeeps

-----------------------------------------------------------------------------
(* Steps of the peers. *)

\* A step of handler (t, p) that leaves the rows alone.
LEMMA SyncStepKeeps ==
  ASSUME Inv, NEW t \in Task, NEW p \in Peer,
         UNCHANGED <<authorityVars, pushVars, replica, resolver, held>>,
         sync' \in [Task -> [Peer -> Handling \union Resting]],
         \A s \in Task, q \in Peer : <<s, q>> # <<t, p>> => sync'[s][q] = sync[s][q],
         SyncOK(t, p)'
  PROVE  Inv'
<1>1. Types'
  BY DEF Inv, Types, authorityVars, pushVars, PushTask, Handling, Resting, Resolving, IssuedRow
<1>2. ASSUME NEW s \in Task, NEW q \in Peer, <<s, q>> # <<t, p>>
      PROVE  SyncOK(s, q)'
  <2>1. SyncOK(s, q) /\ sync'[s][q] = sync[s][q]
    BY <1>2 DEF Inv, PeersOK
  <2> QED BY <2>1 DEF SyncOK, ReadOK, Agrees, Forkless, Working, Waits, authorityVars, pushVars
<1>3. \A q \in Peer : RowOK(q)' /\ ResolverOK(q)'
  BY DEF Inv, PeersOK, RowOK, ResolverOK, ReadOK, Agrees, Forkless, authorityVars
<1>4. SucceededMeansHeld'
  BY DEF Inv, SucceededMeansHeld, pushVars
<1> QED BY <1>1, <1>2, <1>3, <1>4 DEF Inv, PeersOK

\* A handler that starts has nothing to show for yet.
LEMMA ArriveKeeps ==
  ASSUME Inv, NEW t \in Task, NEW p \in Peer, Arrive(t, p)
  PROVE  Inv'
<1>1. task[t] \in PushTask /\ task[t].doc \in issued
  BY DEF Arrive, Inv, Types, PushTask
<1> DEFINE entry == [state |-> "verifying", base |-> None, doc |-> task[t].doc]
<1>2. entry \in Handling
  BY <1>1 DEF Handling
<1>3. /\ sync' = [sync EXCEPT ![t][p] = entry] /\ task' = task
      /\ entry.doc = task[t].doc /\ entry.state = "verifying"
      /\ UNCHANGED <<authorityVars, pushVars, replica, resolver, held>>
  BY DEF Arrive, pushVars
<1> HIDE DEF entry
<1>4. /\ sync' \in [Task -> [Peer -> Handling \union Resting]]
      /\ \A s \in Task, q \in Peer : <<s, q>> # <<t, p>> => sync'[s][q] = sync[s][q]
      /\ sync'[t][p] = entry
  BY <1>2, <1>3 DEF Inv, Types
<1>5. SyncOK(t, p)'
  BY <1>3, <1>4 DEF SyncOK
<1> QED BY <1>3, <1>4, <1>5, SyncStepKeeps

\* A refusal claims nothing.
LEMMA RefuseKeeps ==
  ASSUME Inv, NEW t \in Task, NEW p \in Peer, Refuse(t, p)
  PROVE  Inv'
<1>1. Types /\ Answer(t, p, "refused")
      /\ UNCHANGED <<authorityVars, pushVars, replica, resolver, held>>
  BY DEF Refuse, Inv
<1>2. /\ sync' \in [Task -> [Peer -> Handling \union Resting]]
      /\ \A s \in Task, q \in Peer : <<s, q>> # <<t, p>> => sync'[s][q] = sync[s][q]
      /\ sync'[t][p].state = IF Waits(t, p) THEN "refused" ELSE "none"
  BY <1>1, AnswerTypes
<1>3. SyncOK(t, p)'
  BY <1>2 DEF SyncOK, Working
<1> QED BY <1>1, <1>2, <1>3, SyncStepKeeps

\* A handler that answers at once found its row as new as the document; one
\* that goes on found it older.
LEMMA SelectKeeps ==
  ASSUME Inv, NEW t \in Task, NEW p \in Peer, Select(t, p)
  PROVE  Inv'
<1>1. /\ Types /\ SyncOK(t, p) /\ RowOK(p)
      /\ sync[t][p].state = "verifying" /\ MayHold(p, sync[t][p].doc)
      /\ UNCHANGED <<authorityVars, pushVars, replica, resolver, held>>
      /\ task' = task
  BY DEF Select, Inv, PeersOK, pushVars
<1>2. sync[t][p] \in Handling
  BY <1>1 DEF Types, Resting
<1>3. /\ sync[t][p].doc \in Document /\ sync[t][p].doc.version \in Nat
      /\ sync[t][p].doc \in issued
  BY <1>1, <1>2 DEF Types, Handling, Document
<1>4. CASE replica[p] # None /\ sync[t][p].doc.version <= replica[p].version
  <2>1. Answer(t, p, "accepted")
    BY <1>4 DEF Select
  <2>2. /\ sync' \in [Task -> [Peer -> Handling \union Resting]]
        /\ \A s \in Task, q \in Peer : <<s, q>> # <<t, p>> => sync'[s][q] = sync[s][q]
        /\ sync'[t][p].state = IF Waits(t, p) THEN "accepted" ELSE "none"
    BY <1>1, <2>1, AnswerTypes
  <2>3. replica[p].version \in Nat /\ held[p] \in Nat /\ held[p] >= replica[p].version
    BY <1>1, <1>4 DEF Types, IssuedRow, RowOK
  <2>4. Waits(t, p) => held[p] >= task[t].doc.version
    BY <1>1, <1>3, <1>4, <2>3 DEF SyncOK, Working
  <2>5. SyncOK(t, p)'
    BY <1>1, <2>2, <2>4 DEF SyncOK, Working, Waits
  <2> QED BY <1>1, <2>2, <2>5, SyncStepKeeps
<1>5. CASE ~(replica[p] # None /\ sync[t][p].doc.version <= replica[p].version)
  <2>1. PICK doc \in issued : doc = sync[t][p].doc
    BY <1>3
  <2>2. PICK entry : entry = [state |-> "selected", base |-> replica[p], doc |-> doc]
    OBVIOUS
  <2>3. sync' = [sync EXCEPT ![t][p] = entry]
    BY <1>5, <2>1, <2>2 DEF Select
  <2>4. entry \in Handling
    BY <1>1, <2>2 DEF Handling, Types
  <2>5. /\ sync' \in [Task -> [Peer -> Handling \union Resting]]
        /\ \A s \in Task, q \in Peer : <<s, q>> # <<t, p>> => sync'[s][q] = sync[s][q]
        /\ sync'[t][p] = entry
    BY <1>1, <2>3, <2>4 DEF Types
  <2>6. replica[p] # None => replica[p].version < doc.version /\ Agrees(replica[p])
    BY <1>1, <1>3, <1>5, <2>1 DEF Types, IssuedRow, RowOK
  <2>7. ReadOK(p, replica[p])'
    BY <1>1, <2>6 DEF ReadOK, Agrees, Forkless, authorityVars
  <2>8. Waits(t, p) => doc = task[t].doc
    BY <1>1, <2>1 DEF SyncOK, Working
  <2>9. SyncOK(t, p)'
    BY <1>1, <2>1, <2>2, <2>5, <2>6, <2>7, <2>8 DEF SyncOK, Waits
  <2> QED BY <1>1, <2>5, <2>9, SyncStepKeeps
<1> QED BY <1>4, <1>5

\* A step that writes the row of peer p: what other sessions have read of it
\* stays true of what they have read.
LEMMA RowStepKeeps ==
  ASSUME Inv, NEW p \in Peer, NEW row \in IssuedRow, row # None,
         UNCHANGED <<authorityVars, pushVars>>,
         replica' = [replica EXCEPT ![p] = row], MayHold(p, row.doc), Agrees(row),
         held' \in [Peer -> Nat], held'[p] >= row.version,
         \A q \in Peer : held'[q] >= held[q],
         sync' \in [Task -> [Peer -> Handling \union Resting]],
         \A s \in Task, q \in Peer : sync'[s][q] = sync[s][q] \/ SyncOK(s, q)',
         \A q \in Peer : resolver'[q] = resolver[q] \/ resolver'[q] = None,
         resolver' \in [Peer -> Resolving \union {None}]
  PROVE  Inv'
<1>1. Types'
  BY DEF Inv, Types, authorityVars, pushVars, PushTask, Handling, Resting, Resolving, IssuedRow
<1>2. \A q \in Peer : replica[q] # None => replica'[q] # None
  BY DEF Inv, Types
<1>3. /\ task' = task /\ job' = job /\ (Forkless' <=> Forkless)
      /\ \A q \in Peer : held[q] \in Nat /\ held'[q] \in Nat
  BY DEF Inv, Types, authorityVars, pushVars, Forkless
<1>4. \A s \in Task : task[s] # None => task[s].doc.version \in Nat
  BY DEF Inv, Types, PushTask, Document
<1>5. ASSUME NEW s \in Task, NEW q \in Peer, sync'[s][q] = sync[s][q]
      PROVE  SyncOK(s, q)'
  <2>1. SyncOK(s, q)
    BY DEF Inv, PeersOK
  <2>2. ReadOK(q, sync[s][q].base) => ReadOK(q, sync[s][q].base)'
    BY <1>2, <1>3, <1>5 DEF ReadOK, Agrees
  <2>3. /\ Waits(s, q)' <=> Waits(s, q)
        /\ Working(s, q)' <=> Working(s, q)
    BY <1>3, <1>5 DEF Waits, Working
  <2>4. Waits(s, q) /\ held[q] >= task[s].doc.version => held'[q] >= task'[s].doc.version
    BY <1>3, <1>4 DEF Waits
  <2> QED BY <1>3, <1>5, <2>1, <2>2, <2>3, <2>4 DEF SyncOK
<1>6. ASSUME NEW q \in Peer
      PROVE  RowOK(q)'
  <2>1. RowOK(q)
    BY DEF Inv, PeersOK
  <2>2. CASE q = p
    <3>1. replica'[q] = row
      BY <2>2 DEF Inv, Types
    <3> QED BY <1>3, <2>2, <3>1 DEF RowOK, Agrees
  <2>3. CASE q # p
    <3>1. replica'[q] = replica[q]
      BY <2>3 DEF Inv, Types
    <3>2. replica[q] # None => replica[q].version \in Nat
      BY DEF Inv, Types, IssuedRow
    <3> QED BY <1>3, <2>1, <3>1, <3>2 DEF RowOK, Agrees
  <2> QED BY <2>2, <2>3
<1>7. ASSUME NEW q \in Peer
      PROVE  ResolverOK(q)'
  BY <1>2, <1>3 DEF Inv, PeersOK, ResolverOK, ReadOK, Agrees
<1>8. SucceededMeansHeld'
  BY <1>3, <1>4 DEF Inv, SucceededMeansHeld
<1> QED BY <1>1, <1>5, <1>6, <1>7, <1>8 DEF Inv, PeersOK

\* The document of a handler is newer than the row it read, so that the column
\* version is written, and without forks the document too.
LEMMA CommitSyncKeeps ==
  ASSUME Inv, NEW t \in Task, NEW p \in Peer, CommitSync(t, p)
  PROVE  Inv'
<1>1. /\ Types /\ SyncOK(t, p) /\ RowOK(p)
      /\ sync[t][p].state = "selected"
      /\ Answer(t, p, "accepted")
      /\ UNCHANGED <<authorityVars, pushVars, resolver>>
      /\ task' = task
  BY DEF CommitSync, Inv, PeersOK, pushVars
<1>2. sync[t][p] \in Handling
  BY <1>1 DEF Types, Resting
<1>3. PICK doc \in issued, base \in IssuedRow \union {None} :
        sync[t][p].doc = doc /\ sync[t][p].base = base
  BY <1>2 DEF Handling
<1>4. /\ Put(p, base, doc) /\ MayHold(p, doc) /\ ReadOK(p, base)
      /\ base # None => base.version < doc.version
      /\ Waits(t, p) => doc = task[t].doc
  BY <1>1, <1>3 DEF CommitSync, SyncOK, Working
<1>5. PICK row \in IssuedRow :
        /\ replica' = [replica EXCEPT ![p] = row] /\ row # None
        /\ row = IF base = None THEN RowOf(doc) ELSE Updated(base, doc, replica[p])
        /\ held' \in [Peer -> Nat] /\ held'[p] >= row.version
        /\ \A q \in Peer : held'[q] >= held[q]
  BY <1>1, <1>4, PutRow DEF ReadOK
<1>6. doc.version \in Nat /\ (base # None => base.version \in Nat)
  BY <1>1 DEF Types, Document, IssuedRow
<1>7. /\ row.version = doc.version
      /\ row.doc = doc \/ (base # None /\ doc = base.doc /\ row.doc = replica[p].doc)
  <2>1. CASE base = None
    BY <1>5, <2>1 DEF RowOf
  <2>2. CASE base # None
    <3>1. doc.version # base.version
      BY <1>4, <1>6, <2>2
    <3>2. row = [doc |-> IF doc = base.doc THEN replica[p].doc ELSE doc,
                 version |-> doc.version]
      BY <1>5, <2>2, <3>1 DEF Updated
    <3> QED BY <2>2, <3>2
  <2> QED BY <2>1, <2>2
<1>8. MayHold(p, row.doc)
  BY <1>1, <1>4, <1>7 DEF RowOK, ReadOK
<1>9. Agrees(row)
  BY <1>4, <1>6, <1>7 DEF Agrees, ReadOK
<1>10. /\ sync' \in [Task -> [Peer -> Handling \union Resting]]
       /\ \A s \in Task, q \in Peer : <<s, q>> # <<t, p>> => sync'[s][q] = sync[s][q]
       /\ sync'[t][p].state = IF Waits(t, p) THEN "accepted" ELSE "none"
  BY <1>1, AnswerTypes
<1>11. SyncOK(t, p)'
  BY <1>1, <1>4, <1>5, <1>7, <1>10 DEF SyncOK, Working, Waits
<1>12. \A s \in Task, q \in Peer : sync'[s][q] = sync[s][q] \/ SyncOK(s, q)'
  BY <1>10, <1>11
<1>13. /\ UNCHANGED <<authorityVars, pushVars>>
       /\ resolver' = resolver /\ resolver' \in [Peer -> Resolving \union {None}]
  BY <1>1 DEF Types, authorityVars, Resolving, IssuedRow
<1> QED BY <1>5, <1>8, <1>9, <1>10, <1>12, <1>13, RowStepKeeps

\* A step of the resolver of p that writes no row.
LEMMA ResolverStepKeeps ==
  ASSUME Inv, NEW p \in Peer, NEW entry \in Resolving \union {None},
         UNCHANGED <<authorityVars, pushVars, sync, replica, held>>,
         resolver' = [resolver EXCEPT ![p] = entry],
         entry # None =>
           /\ ReadOK(p, entry.row)
           /\ entry.got # None => MayHold(p, entry.got)
  PROVE  Inv'
<1>1. Types'
  BY DEF Inv, Types, authorityVars, pushVars, PushTask, Handling, Resting, Resolving, IssuedRow
<1>2. \A t \in Task, q \in Peer : SyncOK(t, q)'
  BY DEF Inv, PeersOK, SyncOK, ReadOK, Agrees, Forkless, Working, Waits, authorityVars, pushVars
<1>3. \A q \in Peer : RowOK(q)'
  BY DEF Inv, PeersOK, RowOK, Agrees, Forkless, authorityVars
<1>4. ASSUME NEW q \in Peer
      PROVE  ResolverOK(q)'
  <2>1. resolver'[q] = IF q = p THEN entry ELSE resolver[q]
    BY DEF Inv, Types
  <2>2. ResolverOK(q)
    BY DEF Inv, PeersOK
  <2> QED BY <2>1, <2>2 DEF ResolverOK, ReadOK, Agrees, Forkless, authorityVars
<1>5. SucceededMeansHeld'
  BY DEF Inv, SucceededMeansHeld, pushVars
<1> QED BY <1>1, <1>2, <1>3, <1>4, <1>5 DEF Inv, PeersOK

\* The row a resolver starts from is the peer's.
LEMMA BeginResolveKeeps ==
  ASSUME Inv, NEW p \in Peer, BeginResolve(p)
  PROVE  Inv'
<1>1. PICK entry : entry = [row |-> replica[p], got |-> None]
  OBVIOUS
<1>2. entry \in Resolving
  BY <1>1 DEF Inv, Types, Resolving
<1>3. ReadOK(p, entry.row) /\ entry.got = None
  BY <1>1 DEF Inv, PeersOK, RowOK, ReadOK
<1> QED BY <1>1, <1>2, <1>3, ResolverStepKeeps DEF BeginResolve

\* The authority gives an anonymous resolver public documents only.
LEMMA FetchKeeps ==
  ASSUME Inv, NEW p \in Peer, Fetch(p)
  PROVE  Inv'
<1>1. PICK base \in IssuedRow \union {None} : resolver[p] = [row |-> base, got |-> None]
  BY DEF Fetch, Inv, Types, Resolving
<1>2. PICK entry : entry = [row |-> base, got |-> record]
  OBVIOUS
<1>3. entry \in Resolving
  BY <1>2 DEF Fetch, Inv, Types, Resolving
<1>4. resolver' = [resolver EXCEPT ![p] = entry]
  <2>1. resolver' = [resolver EXCEPT ![p] = [resolver[p] EXCEPT !.got = record]]
    BY DEF Fetch
  <2>2. [resolver[p] EXCEPT !.got = record] = entry
    BY <1>1, <1>2
  <2> QED BY <2>1, <2>2
<1>5. ReadOK(p, base)
  BY <1>1, AbsenceAssumption DEF Fetch, Inv, PeersOK, ResolverOK
<1>6. MayHold(p, record)
  BY DEF Fetch, MayHold
<1> QED BY <1>2, <1>3, <1>4, <1>5, <1>6, ResolverStepKeeps DEF Fetch

\* A resolver that ends leaves nothing behind.
LEMMA EndResolveKeeps ==
  ASSUME Inv, NEW p \in Peer, EndResolve(p)
  PROVE  Inv'
BY ResolverStepKeeps DEF EndResolve

\* A resolver may write a document as old as the row it read.  Without forks
\* that is the same document, and then it writes nothing; a newer one is
\* written in both columns.
LEMMA CommitResolveKeeps ==
  ASSUME Inv, NEW p \in Peer, CommitResolve(p)
  PROVE  Inv'
<1>1. /\ Types /\ ResolverOK(p) /\ RowOK(p)
      /\ resolver[p] # None /\ resolver[p].got # None
      /\ UNCHANGED <<authorityVars, pushVars, sync>>
      /\ resolver' = [resolver EXCEPT ![p] = None]
  BY DEF CommitResolve, Inv, PeersOK
<1>2. PICK doc \in issued, base \in IssuedRow \union {None} :
        resolver[p].got = doc /\ resolver[p].row = base
  BY <1>1 DEF Types, Resolving
<1>3. CASE UNCHANGED <<replica, held>>
  BY <1>1, <1>3, ResolverStepKeeps
<1>4. CASE Put(p, base, doc)
  <2>1. MayHold(p, doc) /\ ReadOK(p, base)
    BY <1>1, <1>2 DEF ResolverOK
  <2>2. PICK row \in IssuedRow :
          /\ replica' = [replica EXCEPT ![p] = row] /\ row # None
          /\ row = IF base = None THEN RowOf(doc) ELSE Updated(base, doc, replica[p])
          /\ held' \in [Peer -> Nat] /\ held'[p] >= row.version
          /\ \A q \in Peer : held'[q] >= held[q]
    BY <1>1, <1>4, <2>1, PutRow DEF ReadOK
  <2>3. MayHold(p, row.doc)
    BY <1>1, <2>1, <2>2 DEF RowOf, Updated, RowOK, ReadOK
  <2>4. Agrees(row)
    <3>1. SUFFICES ASSUME Forkless PROVE row.version = row.doc.version
      BY DEF Agrees
    <3>2. CASE base = None
      BY <2>2, <3>2 DEF RowOf
    <3>3. CASE base # None /\ doc = base.doc
      <4>1. doc.version = base.version /\ replica[p].version = replica[p].doc.version
        BY <1>1, <2>1, <3>1, <3>3 DEF ReadOK, Agrees, RowOK
      <4> QED BY <2>2, <3>3, <4>1 DEF Updated
    <3>4. CASE base # None /\ doc # base.doc
      <4>1. base.doc \in issued /\ base.version = base.doc.version
        BY <2>1, <3>1, <3>4 DEF ReadOK, Agrees, IssuedRow
      <4>2. doc.version # base.version
        BY <3>1, <3>4, <4>1 DEF Forkless
      <4> QED BY <2>2, <3>4, <4>2 DEF Updated
    <3> QED BY <3>2, <3>3, <3>4
  <2>5. /\ sync' \in [Task -> [Peer -> Handling \union Resting]]
        /\ \A s \in Task, q \in Peer : sync'[s][q] = sync[s][q]
        /\ \A q \in Peer : resolver'[q] = resolver[q] \/ resolver'[q] = None
        /\ resolver' \in [Peer -> Resolving \union {None}]
    BY <1>1 DEF Types
  <2> QED BY <1>1, <2>2, <2>3, <2>4, <2>5, RowStepKeeps
<1> QED BY <1>1, <1>2, <1>3, <1>4 DEF CommitResolve

\* The sessions of a peer that dies claim nothing.
LEMMA PeerCrashKeeps ==
  ASSUME Inv, NEW p \in Peer, PeerCrash(p)
  PROVE  Inv'
<1>1. /\ UNCHANGED <<authorityVars, pushVars, replica, held>>
      /\ resolver' = [resolver EXCEPT ![p] = None]
      /\ task' = task /\ job' = job
  BY DEF PeerCrash, pushVars
<1> DEFINE refused == [state |-> "refused", base |-> None]
<1>2. NoSync \in Resting /\ refused \in Resting
  BY DEF NoSync, Resting
<1>3. /\ sync' \in [Task -> [Peer -> Handling \union Resting]]
      /\ \A t \in Task, q \in Peer :
           sync'[t][q] = sync[t][q] \/ sync'[t][q].state \in {"none", "refused"}
  <2>1. sync \in [Task -> [Peer -> Handling \union Resting]]
    BY DEF Inv, Types
  <2>2. ASSUME NEW t \in Task
        PROVE  /\ sync'[t] \in [Peer -> Handling \union Resting]
               /\ \A q \in Peer : \/ sync'[t][q] = sync[t][q]
                                  \/ sync'[t][q].state \in {"none", "refused"}
    <3>1. PICK entry : entry = IF sync[t][p].state \in {"verifying", "selected"}
                                 THEN IF task[t] # None /\ task[t].at = p
                                        THEN refused ELSE NoSync
                               ELSE sync[t][p]
      OBVIOUS
    <3>2. sync'[t] = [sync[t] EXCEPT ![p] = entry]
      BY <2>1, <3>1 DEF PeerCrash
    <3>3. entry \in Handling \union Resting
      BY <1>2, <2>1, <3>1
    <3>4. entry = sync[t][p] \/ entry.state \in {"none", "refused"}
      BY <3>1 DEF NoSync
    <3> QED BY <2>1, <3>2, <3>3, <3>4
  <2>3. sync' = [t \in Task |-> sync'[t]]
    BY DEF PeerCrash
  <2> QED BY <2>2, <2>3
<1>4. Types'
  BY <1>1, <1>3 DEF Inv, Types, authorityVars, pushVars, PushTask, Handling, Resting, Resolving,
                    IssuedRow
<1>5. ASSUME NEW t \in Task, NEW q \in Peer
      PROVE  SyncOK(t, q)'
  <2>1. SyncOK(t, q)
    BY DEF Inv, PeersOK
  <2>2. CASE sync'[t][q] = sync[t][q]
    BY <1>1, <2>1, <2>2 DEF SyncOK, ReadOK, Agrees, Forkless, Working, Waits, authorityVars
  <2>3. CASE sync'[t][q].state \in {"none", "refused"}
    BY <2>3 DEF SyncOK, Working
  <2> QED BY <1>3, <2>2, <2>3
<1>6. \A q \in Peer : RowOK(q)' /\ ResolverOK(q)'
  BY <1>1 DEF Inv, Types, PeersOK, RowOK, ResolverOK, ReadOK, Agrees, Forkless, authorityVars
<1>7. SucceededMeansHeld'
  BY <1>1 DEF Inv, SucceededMeansHeld
<1> QED BY <1>4, <1>5, <1>6, <1>7 DEF Inv, PeersOK

-----------------------------------------------------------------------------
(* The theorems. *)

\* No step of the system leaves the invariant.
LEMMA StepKeeps ==
  ASSUME Inv, [Next]_vars
  PROVE  Inv'
<1>1. CASE UNCHANGED vars
  <2>1. Types'
    BY <1>1 DEF Inv, Types, vars, authorityVars, pushVars, peerVars, PushTask, Handling, Resting,
                Resolving, IssuedRow
  <2>2. PeersOK'
    BY <1>1 DEF Inv, PeersOK, SyncOK, RowOK, ResolverOK, ReadOK, Agrees, Forkless, Working, Waits,
                vars, authorityVars, pushVars, peerVars
  <2>3. SucceededMeansHeld'
    BY <1>1 DEF Inv, SucceededMeansHeld, vars, pushVars, peerVars
  <2> QED BY <2>1, <2>2, <2>3 DEF Inv
<1>2. ASSUME NEW t \in Task, NEW policy \in Policy, NEW alive \in SUBSET Peer,
             NEW version \in NextVersions, Publish(t, version, policy, alive)
      PROVE  Inv'
  BY <1>2, PublishKeeps
<1>3. ASSUME NEW t \in Task, NEW alive \in SUBSET Peer, Retry(t, alive)
      PROVE  Inv'
  BY <1>3, RetryKeeps
<1>4. ASSUME NEW t \in Task, NEW p \in Peer,
             \/ OpenJob(t, p)
             \/ \E status \in {"succeeded", "failed"} : CloseJob(t, p, status)
             \/ Arrive(t, p)
             \/ Refuse(t, p)
             \/ Select(t, p)
             \/ CommitSync(t, p)
      PROVE  Inv'
  BY <1>4, OpenJobKeeps, CloseJobKeeps, ArriveKeeps, RefuseKeeps, SelectKeeps, CommitSyncKeeps
<1>5. ASSUME NEW t \in Task, EndPush(t)
      PROVE  Inv'
  BY <1>5, EndPushKeeps
<1>6. CASE AuthorityCrash
  BY <1>6, AuthorityCrashKeeps
<1>7. ASSUME NEW p \in Peer,
             BeginResolve(p) \/ Fetch(p) \/ CommitResolve(p) \/ EndResolve(p) \/ PeerCrash(p)
      PROVE  Inv'
  BY <1>7, BeginResolveKeeps, FetchKeeps, CommitResolveKeeps, EndResolveKeeps, PeerCrashKeeps
<1> QED BY <1>1, <1>2, <1>3, <1>4, <1>5, <1>6, <1>7 DEF Next

\* Every reachable state satisfies the invariant: what handlers and resolvers
\* hold between their reads and their writes is issued, granted and, without
\* forks, consistent with what they will write it over.
THEOREM AlwaysInv == Spec => []Inv
<1>1. Init => Inv
  BY InitInv
<1>2. Inv /\ [Next]_vars => Inv'
  BY StepKeeps
<1> QED BY <1>1, <1>2, PTL DEF Spec

\* Every variable has its type, and what a task, a handler, a resolver or a row
\* holds is a document the authority issued, for all peers, policies and tasks.
THEOREM AlwaysTypeOK == Spec => []TypeOK
<1>1. Inv => TypeOK
  <2> SUFFICES ASSUME Inv PROVE TypeOK
    OBVIOUS
  <2>1. \A t \in Task, p \in Peer :
          /\ sync[t][p].state \in SyncState
          /\ sync[t][p].base # None => sync[t][p].base.doc \in issued
          /\ sync[t][p].state \in {"verifying", "selected"} => sync[t][p].doc \in issued
    <3> SUFFICES ASSUME NEW t \in Task, NEW p \in Peer
                 PROVE  /\ sync[t][p].state \in SyncState
                        /\ sync[t][p].base # None => sync[t][p].base.doc \in issued
                        /\ sync[t][p].state \in {"verifying", "selected"} =>
                             sync[t][p].doc \in issued
      OBVIOUS
    <3>1. sync[t][p] \in Handling \union Resting
      BY DEF Inv, Types
    <3> QED BY <3>1 DEF Handling, Resting, SyncState, IssuedRow
  <2>2. \A p \in Peer :
          /\ replica[p] # None => replica[p] \in Row /\ replica[p].doc \in issued
          /\ resolver[p] # None => resolver[p].got \in issued \union {None}
    BY DEF Inv, Types, IssuedRow, Row, Resolving
  <2> QED BY <2>1, <2>2 DEF Inv, Types, TypeOK, PushTask
<1> QED BY <1>1, AlwaysInv, PTL

\* A peer's row never holds a document that its policy does not grant to the
\* peer: receive_sync checks what it is sent, the anonymous GET of a resolver
\* gets public documents only, and a row written over one that changed under it
\* keeps a document that was granted itself.
THEOREM AlwaysGrantRespected == Spec => []GrantRespected
<1>1. Inv => GrantRespected
  BY DEF Inv, PeersOK, RowOK, GrantRespected
<1> QED BY <1>1, AlwaysInv, PTL

\* Unless a version number was used twice, the columns record_json and version
\* of a peer's row tell of the same document, however sessions that write only
\* the columns they changed interleave.
THEOREM AlwaysColumnsAgree == Spec => []ColumnsAgreeWithoutFork
<1>1. Inv => ColumnsAgreeWithoutFork
  BY DEF Inv, PeersOK, RowOK, Agrees, ColumnsAgreeWithoutFork
<1> QED BY <1>1, AlwaysInv, PTL

\* A replication job reports succeeded only if the peer's row has had the
\* version that was pushed, or a later one.
THEOREM AlwaysSucceededMeansHeld == Spec => []SucceededMeansHeld
<1>1. Inv => SucceededMeansHeld
  BY DEF Inv
<1> QED BY <1>1, AlwaysInv, PTL
=============================================================================
