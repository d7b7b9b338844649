---------------------------- MODULE RecordStore ----------------------------
(***************************************************************************)
(* One signed record on the node that is its authority, written by request *)
(* handlers that run concurrently: create, PUT, document upload, (batch)   *)
(* acceptance of relationships and lifecycle transitions.                  *)
(*                                                                         *)
(* Each handler opens its own session.  It SELECTs the record's row,       *)
(* checks the request against what it read, builds the next signed         *)
(* document from it, and commits: the row it read is added to the history, *)
(* the record's row is overwritten and a push task is started.  SQLite     *)
(* makes the commit atomic and lets one writer at a time in, but the       *)
(* SELECT takes no lock and the UPDATE names the row by its primary key    *)
(* only, so other handlers may commit between a handler's SELECT and its   *)
(* commit.                                                                 *)
(***************************************************************************)
EXTENDS Integers, Sequences, SequencesExt, FiniteSets

CONSTANTS
  Handler,        \* the request slots of the node
  Relationship,   \* ids of the relationships other authorities propose
  Proposal,       \* the proposals they sign: an id and the claims' lifecycle events
  Content,        \* contents of uploaded documents, named by their sha256
  NoDocument,     \* no row, or nothing read yet
  NoRequest,      \* the handler is idle
  MaxWrites,      \* bound: documents signed in a behaviour
  MaxBatch        \* bound: proposals in one accept-batch request

ASSUME BoundsAssumption == MaxWrites \in Nat /\ MaxBatch \in Nat

VARIABLES
  row,        \* the record's row in the table records: its current document
  history,    \* the rows of record_history, in the order they were inserted
  files,      \* the contents in the document directory
  sealed,     \* the contents whose encrypted copy was ever written (see Fragments)
  listed,     \* the digests that clients listed themselves in what was committed
  sent,       \* the pushes of files started: a content, and the policy it goes by
  request,    \* what each handler is working on
  base,       \* the row each handler has read, as its session holds it
  issued,     \* every document whose commit has succeeded
  clock       \* documents signed so far

vars == <<row, history, files, sealed, listed, sent, request, base, issued, clock>>

-----------------------------------------------------------------------------
State == {"proposed", "accepted", "superseded", "revoked", "disputed"}

\* _ALLOWED_TRANSITIONS: a state without an entry allows nothing.
Allowed(state) ==
  CASE state = "proposed" -> {"accepted", "revoked"}
    [] state = "accepted" -> {"superseded", "disputed", "revoked"}
    [] state = "disputed" -> {"accepted", "superseded", "revoked"}
    [] OTHER -> {}

Visibility == {"public", "restricted"}

\* claims.lifecycle_events of a relationship: from and to of each event.
Events == Seq(State \X State)

\* A proposal's claims are the proposer's: they may already have events.
ASSUME ProposalAssumption == Proposal \subseteq [id: Relationship, events: Events]

\* One relationship of a record.  The assertion proof it keeps in its proofs is
\* over the claims as they were proposed, with the events asserted.
Edge == [id: Relationship, state: State, events: Events, asserted: Events]

\* A signed record.  Its stamp stands for updated_at and the signature, which
\* tell apart two documents with the same version.
Document ==
  [stamp: Nat \ {0}, version: Nat \ {0}, relationships: SUBSET Edge,
   documents: SUBSET Content, visibility: Visibility]

PutRequest == [op: {"put"}, documents: SUBSET Content, visibility: Visibility]
UploadRequest ==
  [op: {"upload", "attach", "encrypt", "refer"}, content: Content]
AcceptRequest == [op: {"accept"}, proposals: Seq(Proposal) \ {<<>>}]
TransitionRequest == [op: {"transition"}, id: Relationship, to: State]
Request == PutRequest \union UploadRequest \union AcceptRequest
             \union TransitionRequest

\* Nothing read and nothing to do are told from what is read and to be done.
ASSUME AbsenceAssumption == NoDocument \notin Document /\ NoRequest \notin Request

Ids(doc) == {e.id : e \in doc.relationships}

-----------------------------------------------------------------------------
Init ==
  /\ row = NoDocument
  /\ history = <<>>
  /\ files = {}
  /\ sealed = {}
  /\ listed = {}
  /\ sent = {}
  /\ request = [h \in Handler |-> NoRequest]
  /\ base = [h \in Handler |-> NoDocument]
  /\ issued = {}
  /\ clock = 0

Idle(h) == request[h] = NoRequest

\* A request begins, unless (bound) it could sign nothing more.
Free(h) == Idle(h) /\ clock < MaxWrites

Working(h, op) == ~Idle(h) /\ request[h].op = op

\* Handler h returns its response: its session is closed.
Finish(h) ==
  /\ request' = [request EXCEPT ![h] = NoRequest]
  /\ base' = [base EXCEPT ![h] = NoDocument]

\* The commit that stores doc as the current row.  From then on clients can
\* read it, and its push task, whose delivery is not modelled here, sends it.
Store(doc) ==
  /\ clock < MaxWrites
  /\ row' = doc
  /\ clock' = clock + 1
  /\ issued' = issued \union {doc}

\* A wrong Signed: the version is read again at the commit, the content is not.
SignedFreshVersion(prior, relationships, documents, visibility) ==
  [stamp |-> clock + 1, version |-> row.version + 1,
   relationships |-> relationships, documents |-> documents,
   visibility |-> visibility]

\* _signed_record: the version after that of prior, under a new signature.
Signed(prior, relationships, documents, visibility) ==
  [stamp |-> clock + 1, version |-> prior.version + 1,
   relationships |-> relationships, documents |-> documents,
   visibility |-> visibility]

\* Three wrong Replaces: one history row per version number, the new document
\* in the history instead of the old one, no history for an unchanged list.
ReplaceUpsert(h, doc) ==
  /\ history' = Append(SelectSeq(history, LAMBDA d : d.version # base[h].version),
                      base[h])
  /\ Store(doc)

ReplaceArchivesNew(h, doc) ==
  /\ history' = Append(history, doc)
  /\ Store(doc)

ReplaceListsOnly(h, doc) ==
  /\ history' = IF doc.relationships = base[h].relationships THEN history
                ELSE Append(history, base[h])
  /\ Store(doc)

\* db.add(AssetHistory(row)), the update of the row, db.commit().
Replace(h, doc) ==
  /\ history' = Append(history, base[h])
  /\ Store(doc)

-----------------------------------------------------------------------------
(* create_asset *)

\* The client lists whatever documents it likes; so it does in a PUT.
Create(visibility, documents) ==
  /\ row = NoDocument
  /\ Store([stamp |-> clock + 1, version |-> 1, relationships |-> {},
            documents |-> documents, visibility |-> visibility])
  /\ listed' = listed \union documents
  /\ UNCHANGED <<history, files, sealed, sent, request, base>>

(* update_asset.  The client sends a subject, a policy and the record's    *)
(* relationships; the handler answers 422 unless these are the row's, and  *)
(* checks nothing else of the subject.                                     *)
BeginPut(h, documents, visibility) ==
  /\ Free(h)
  /\ row # NoDocument
  /\ request' = [request EXCEPT ![h] =
       [op |-> "put", documents |-> documents, visibility |-> visibility]]
  /\ base' = [base EXCEPT ![h] = row]
  /\ UNCHANGED <<row, history, files, sealed, listed, sent, issued, clock>>

\* A wrong CommitPut: the list is not carried over from the row.
CommitPutWithoutList(h) ==
  /\ Working(h, "put")
  /\ Replace(h, Signed(base[h], {}, request[h].documents, request[h].visibility))
  /\ Finish(h)
  /\ listed' = listed \union request[h].documents
  /\ UNCHANGED <<files, sealed, sent>>

CommitPut(h) ==
  /\ Working(h, "put")
  /\ Replace(h, Signed(base[h], base[h].relationships, request[h].documents,
                       request[h].visibility))
  /\ Finish(h)
  /\ listed' = listed \union request[h].documents
  /\ UNCHANGED <<files, sealed, sent>>

(* upload_document reads the row first and the body afterwards; the file   *)
(* is written before the record refers to it.                              *)
BeginUpload(h, content) ==
  /\ Free(h)
  /\ row # NoDocument
  /\ request' = [request EXCEPT ![h] = [op |-> "upload", content |-> content]]
  /\ base' = [base EXCEPT ![h] = row]
  /\ UNCHANGED <<row, history, files, sealed, listed, sent, issued, clock>>

\* The task that pushes the file, to the endpoints of the policy that was read.
SendFile(h) == sent' = sent \union {<<request[h].content, base[h].visibility>>}

\* Two wrong StoreContents: the file is left for later, or sent at once.
StoreContentLater(h) ==
  /\ Working(h, "upload")
  /\ request' = [request EXCEPT ![h].op = "attach"]
  /\ UNCHANGED <<row, history, files, sealed, listed, sent, base, issued, clock>>

StoreContentAndSend(h) ==
  /\ Working(h, "upload")
  /\ files' = files \union {request[h].content}
  /\ SendFile(h)
  /\ IF request[h].content \in base[h].documents
       THEN Finish(h)
       ELSE /\ request' = [request EXCEPT ![h].op = "attach"]
            /\ UNCHANGED base
  /\ UNCHANGED <<row, history, sealed, listed, issued, clock>>

StoreContent(h) ==
  /\ Working(h, "upload")
  /\ files' = files \union {request[h].content}
  /\ IF request[h].content \in base[h].documents
       THEN Finish(h) /\ SendFile(h)
       ELSE /\ request' = [request EXCEPT ![h].op = "attach"]
            /\ UNCHANGED <<sent, base>>
  /\ UNCHANGED <<row, history, sealed, listed, issued, clock>>

CommitUpload(h) ==
  /\ Working(h, "attach")
  /\ Replace(h, Signed(base[h], base[h].relationships,
                       base[h].documents \union {request[h].content},
                       base[h].visibility))
  /\ SendFile(h)
  /\ Finish(h)
  /\ UNCHANGED <<files, sealed, listed>>

(* upload_encrypted_document, likewise: the fragments and their manifest   *)
(* are written, then the record refers to the digest of the plain content, *)
(* of which no file is stored.  The encrypted files are in Fragments.      *)
BeginEncrypted(h, content) ==
  /\ Free(h)
  /\ row # NoDocument
  /\ request' = [request EXCEPT ![h] = [op |-> "encrypt", content |-> content]]
  /\ base' = [base EXCEPT ![h] = row]
  /\ UNCHANGED <<row, history, files, sealed, listed, sent, issued, clock>>

StoreEncrypted(h) ==
  /\ Working(h, "encrypt")
  /\ sealed' = sealed \union {request[h].content}
  /\ IF request[h].content \in base[h].documents
       THEN Finish(h)
       ELSE request' = [request EXCEPT ![h].op = "refer"] /\ UNCHANGED base
  /\ UNCHANGED <<row, history, files, listed, sent, issued, clock>>

CommitEncrypted(h) ==
  /\ Working(h, "refer")
  /\ Replace(h, Signed(base[h], base[h].relationships,
                       base[h].documents \union {request[h].content},
                       base[h].visibility))
  /\ Finish(h)
  /\ UNCHANGED <<files, sealed, listed, sent>>

(* receive_document_replica: a file another node pushed, whether or not a  *)
(* record of this node refers to it.                                       *)
ReceiveReplica(content) ==
  /\ files' = files \union {content}
  /\ UNCHANGED <<row, history, sealed, listed, sent, request, base, issued, clock>>

(* accept_relationship and accept_relationships_batch: a list of proposals *)
(* accepted one after the other, each from a row read anew.                *)
BeginAccept(h, proposals) ==
  /\ Free(h)
  /\ request' = [request EXCEPT ![h] =
                   [op |-> "accept", proposals |-> proposals]]
  /\ UNCHANGED <<row, history, files, sealed, listed, sent, base, issued, clock>>

\* A wrong NextProposal: the last proposal does not end the request.
NextProposalForever(h) ==
  /\ request' = [request EXCEPT ![h].proposals = Tail(@)]
  /\ base' = [base EXCEPT ![h] = NoDocument]

\* Go on with the proposals after the first, or answer.
NextProposal(h) ==
  /\ request' = [request EXCEPT ![h] =
       IF Len(request[h].proposals) = 1 THEN NoRequest
       ELSE [op |-> "accept", proposals |-> Tail(request[h].proposals)]]
  /\ base' = [base EXCEPT ![h] = NoDocument]

\* An HTTPException: no proof, no record, or (409) accepted before.
RejectProposal(h) ==
  /\ Working(h, "accept")
  /\ base[h] = NoDocument
  /\ NextProposal(h)
  /\ UNCHANGED <<row, history, files, sealed, listed, sent, issued, clock>>

\* A wrong SelectRoot: no 409 for a relationship the record has.
SelectRootAgain(h) ==
  /\ Working(h, "accept")
  /\ base[h] = NoDocument
  /\ row # NoDocument
  /\ base' = [base EXCEPT ![h] = row]
  /\ UNCHANGED <<row, history, files, sealed, listed, sent, request, issued, clock>>

\* The proof verifies; the row is read and does not have the relationship.
SelectRoot(h) ==
  /\ Working(h, "accept")
  /\ base[h] = NoDocument
  /\ row # NoDocument
  /\ Head(request[h].proposals).id \notin Ids(row)
  /\ base' = [base EXCEPT ![h] = row]
  /\ UNCHANGED <<row, history, files, sealed, listed, sent, request, issued, clock>>

\* The proposal, accepted: its claims stay what they are.
Accepted(p) ==
  [id |-> p.id, state |-> "accepted", events |-> p.events, asserted |-> p.events]

CommitAccept(h) ==
  /\ Working(h, "accept")
  /\ base[h] # NoDocument
  /\ Replace(h, Signed(base[h],
                       base[h].relationships
                         \union {Accepted(Head(request[h].proposals))},
                       base[h].documents, base[h].visibility))
  /\ NextProposal(h)
  /\ UNCHANGED <<files, sealed, listed, sent>>

(* transition_relationship *)

Transitioned(e, to) ==
  [e EXCEPT !.state = to, !.events = Append(@, <<e.state, to>>)]

\* A wrong BeginTransition: every state can follow every other.
BeginAnyTransition(h, id, to) ==
  /\ Free(h)
  /\ row # NoDocument /\ id \in Ids(row)
  /\ request' = [request EXCEPT ![h] = [op |-> "transition", id |-> id, to |-> to]]
  /\ base' = [base EXCEPT ![h] = row]
  /\ UNCHANGED <<row, history, files, sealed, listed, sent, issued, clock>>

BeginTransition(h, id, to) ==
  /\ Free(h)
  /\ row # NoDocument
  /\ \E e \in row.relationships : e.id = id /\ to \in Allowed(e.state)
  /\ request' = [request EXCEPT ![h] = [op |-> "transition", id |-> id, to |-> to]]
  /\ base' = [base EXCEPT ![h] = row]
  /\ UNCHANGED <<row, history, files, sealed, listed, sent, issued, clock>>

CommitTransition(h) ==
  /\ Working(h, "transition")
  /\ Replace(h, Signed(base[h],
                       {IF e.id = request[h].id
                          THEN Transitioned(e, request[h].to) ELSE e :
                            e \in base[h].relationships},
                       base[h].documents, base[h].visibility))
  /\ Finish(h)
  /\ UNCHANGED <<files, sealed, listed, sent>>

-----------------------------------------------------------------------------
(* get_db closes the session of a request that fails: the body is too      *)
(* large, the client is gone, the proof's key cannot be fetched, the       *)
(* database stays locked.  A batch is abandoned with what it committed.    *)
Abort(h) ==
  /\ ~Idle(h)
  /\ Finish(h)
  /\ UNCHANGED <<row, history, files, sealed, listed, sent, issued, clock>>

\* The process dies and restarts: only the database and the files survive.
Crash ==
  /\ request' = [h \in Handler |-> NoRequest]
  /\ base' = [h \in Handler |-> NoDocument]
  /\ UNCHANGED <<row, history, files, sealed, listed, sent, issued, clock>>

Write(h) ==
  \/ CommitPut(h)
  \/ CommitUpload(h)
  \/ CommitEncrypted(h)
  \/ CommitAccept(h)
  \/ CommitTransition(h)

Step(h) ==
  \/ \E documents \in SUBSET Content, visibility \in Visibility :
       BeginPut(h, documents, visibility)
  \/ \E content \in Content : BeginUpload(h, content) \/ BeginEncrypted(h, content)
  \/ StoreContent(h)
  \/ StoreEncrypted(h)
  \/ \E n \in 1..MaxBatch : \E proposals \in [1..n -> Proposal] :
       BeginAccept(h, proposals)
  \/ RejectProposal(h)
  \/ SelectRoot(h)
  \/ \E id \in Relationship, to \in State : BeginTransition(h, id, to)
  \/ Write(h)
  \/ Abort(h)

Next ==
  \/ \E visibility \in Visibility, documents \in SUBSET Content :
       Create(visibility, documents)
  \/ \E h \in Handler : Step(h)
  \/ \E content \in Content : ReceiveReplica(content)
  \/ Crash

Spec == Init /\ [][Next]_vars

-----------------------------------------------------------------------------
(* Properties *)

\* Every variable has its type; the history holds documents this authority
\* issued, and so does every session that has read the row.
TypeOK ==
  /\ row \in Document \union {NoDocument}
  /\ history \in Seq(Document)
  /\ files \in SUBSET Content
  /\ sealed \in SUBSET Content
  /\ listed \in SUBSET Content
  /\ sent \in SUBSET (Content \X Visibility)
  /\ request \in [Handler -> Request \union {NoRequest}]
  /\ base \in [Handler -> Document \union {NoDocument}]
  /\ issued \in SUBSET Document
  /\ clock \in 0..MaxWrites

Archived == {history[i] : i \in 1..Len(history)}

Current == IF row = NoDocument THEN {} ELSE {row}

\* What one write may do to the document it read: replace the client's part,
\* add one accepted relationship, or move one relationship by a transition
\* its state allows.
DerivedFrom(prior, doc) ==
  /\ doc.version = prior.version + 1
  /\ \/ doc.relationships = prior.relationships
     \/ /\ <<doc.documents, doc.visibility>> = <<prior.documents, prior.visibility>>
        /\ \/ \E p \in Proposal :
                /\ p.id \notin Ids(prior)
                /\ doc.relationships = prior.relationships \union {Accepted(p)}
           \/ \E e \in prior.relationships : \E to \in Allowed(e.state) :
                doc.relationships =
                  (prior.relationships \ {e}) \union {Transitioned(e, to)}

\* Whatever the handlers' interleaving, every document the authority ever
\* issued is either the first version or one legal step away from a document
\* in the history: the audit trail explains each signature.
AuditTrail ==
  \A doc \in issued :
    doc.version = 1 \/ \E prior \in Archived : DerivedFrom(prior, doc)

\* In no issued document does a relationship id occur twice: a proposal that
\* is replayed, repeated in a batch or accepted by two handlers at once is
\* accepted once (relationships.py answers 409 to the others).
AcceptedOnce ==
  \A doc \in issued : \A e, f \in doc.relationships : e.id = f.id => e = f

\* The lifecycle events of every relationship ever signed are those its
\* proposer asserted, untouched, and then a path from accepted to its state by
\* allowed transitions only; so nothing leaves superseded or revoked, nothing
\* is stored as a mere proposal, and no two transitions step on each other.
LegalLifecycle ==
  \A doc \in issued : \A e \in doc.relationships :
    LET first == Len(e.asserted)
        path == [i \in first..Len(e.events) |->
                   IF i = first THEN "accepted" ELSE e.events[i][2]]
    IN  /\ IsPrefix(e.asserted, e.events)
        /\ e.state = path[Len(e.events)]
        /\ \A i \in (first + 1)..Len(e.events) :
             /\ e.events[i][1] = path[i - 1]
             /\ path[i] \in Allowed(path[i - 1])

\* A signed record refers to a document the node does not have only if a client
\* listed its digest: an upload, plain or encrypted, is stored before any signed
\* version refers to it, whatever crashes, aborts and races (_store and the
\* manifest come before replace_asset_subject).
DocumentsAreStored ==
  \A doc \in issued : doc.documents \subseteq files \union sealed \union listed

\* A file leaves the node only by the policy of an issued document that refers
\* to it, whatever handlers abort and whatever PUTs change in between: nothing
\* is pushed for an upload that is not committed (document_store.py:100-111).
FilesSentAsGranted ==
  \A push \in sent :
    \E doc \in issued : push[1] \in doc.documents /\ doc.visibility = push[2]

\* Every fork shows in the history endpoint: the history has as many rows of a
\* version as documents were issued under the next version number, so a client
\* that reads it can tell how many writers started from that version.
HistoryShowsForks ==
  \A v \in 1..MaxWrites :
    Cardinality({i \in 1..Len(history) : history[i].version = v})
      = Cardinality({doc \in issued : doc.version = v + 1})

\* The store as a tree of versions: see VersionTree.
Versions == INSTANCE VersionTree
  WITH current <- Current, archive <- Archived, issued <- issued

\* Every step of the store is one the version tree allows.
VersionTreeSpec == Versions!Spec

\* A document the store issued can be lost to its row and its history only if
\* two documents were issued under one version number, which any peer or
\* client that has seen both can detect.
NoLossWithoutFork == Versions!NoLossWithoutFork

\* While no version number is used twice, no write takes back what another
\* decided: a relationship the owner accepted stays in the current record,
\* with every lifecycle event recorded for it.
ConsentKeptWithoutFork ==
  Versions!Forkless =>
    \A doc \in issued : \A e \in doc.relationships :
      \E f \in row.relationships : f.id = e.id /\ IsPrefix(e.events, f.events)

-----------------------------------------------------------------------------
(* What the documentation says of the store and the code does not ensure.  *)

\* architecture.md: "Ordinary record updates cannot change the relationship
\* list": a PUT or an upload leaves the relationships of the row alone.
UpdatesKeepRelationships ==
  [][\A h \in Handler : CommitPut(h) \/ CommitUpload(h) =>
       row'.relationships = row.relationships]_vars

\* get_document without the node's API key: the file is there, and the record
\* either does not refer to it or is public.  Only the current row is asked.
ServedToAnyone(content) ==
  /\ content \in files
  /\ row # NoDocument => content \notin row.documents \/ row.visibility = "public"

\* No signed version leaves out a document of the version it was derived from.
NothingDropped ==
  \A doc \in issued :
    \/ doc.version = 1
    \/ \E prior \in Archived :
         DerivedFrom(prior, doc) /\ prior.documents \subseteq doc.documents

\* README.md: restricted records "require that receiving node's API key for
\* catalog, direct, graph, and document reads".  So while every version of the
\* record has been restricted, and no client has taken a document off the list
\* it was given, a file whose upload was answered is not served to anyone.
RestrictedDocumentsNeedKey ==
  (\A doc \in issued : doc.visibility = "restricted") /\ NothingDropped =>
    \A push \in sent : ~ServedToAnyone(push[1])

=============================================================================
