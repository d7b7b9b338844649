------------------------- MODULE RecordStoreProofs -------------------------
(***************************************************************************)
(* Proofs about RecordStore, for every set of handlers, proposals and      *)
(* contents, and every bound on the writes.                                *)
(***************************************************************************)
EXTENDS RecordStore, SequenceTheorems, FiniteSetTheorems, TLAPS

Tree == INSTANCE VersionTreeProofs
  WITH current <- Current, archive <- Archived, issued <- issued

\* A session holds an issued document or nothing; every request but a batch
\* acceptance has read the row.
SessionOK ==
  \A h \in Handler :
    /\ base[h] \in issued \union {NoDocument}
    /\ request[h] # NoRequest /\ request[h].op # "accept" => base[h] # NoDocument

\* What is stored has been issued, and every signature is older than the clock.
StoreOK ==
  /\ row = NoDocument => issued = {}
  /\ row # NoDocument => row \in issued
  /\ Archived \subseteq issued
  /\ \A d \in issued : d.stamp <= clock

Inv == TypeOK /\ SessionOK /\ StoreOK

-----------------------------------------------------------------------------
(* Lemmas about the operators. *)

\* Appending a document to the history archives it and keeps the others.
LEMMA ArchivedAppend ==
  ASSUME history \in Seq(Document), NEW d \in Document,
         history' = Append(history, d)
  PROVE  history' \in Seq(Document) /\ Archived' = Archived \union {d}
<1>1. /\ history' \in Seq(Document)
      /\ Len(history') = Len(history) + 1
      /\ \A i \in 1..Len(history) : history'[i] = history[i]
      /\ history'[Len(history) + 1] = d
  OBVIOUS
<1>2. Len(history) \in Nat
  OBVIOUS
<1> QED BY <1>1, <1>2 DEF Archived

\* A document signed from a prior one has the next version and a new stamp.
LEMMA SignedDocument ==
  ASSUME clock \in Nat, NEW prior \in Document,
         NEW relationships \in SUBSET Edge, NEW documents \in SUBSET Content,
         NEW visibility \in Visibility
  PROVE  LET doc == Signed(prior, relationships, documents, visibility)
         IN  /\ doc \in Document
             /\ doc.stamp = clock + 1
             /\ doc.version = prior.version + 1
BY DEF Signed, Document

\* A transition of a relationship is a relationship.
LEMMA TransitionedEdge ==
  ASSUME NEW e \in Edge, NEW to \in State
  PROVE  Transitioned(e, to) \in Edge
<1>1. /\ e.id \in Relationship /\ e.state \in State
      /\ e.events \in Events /\ e.asserted \in Events
  BY DEF Edge
<1>2. <<e.state, to>> \in State \X State
  BY <1>1
<1>3. Append(e.events, <<e.state, to>>) \in Events
  BY <1>1, <1>2 DEF Events
<1> QED BY <1>1, <1>3 DEF Edge, Transitioned

\* An accepted proposal is a relationship.
LEMMA AcceptedEdge ==
  ASSUME NEW p \in Proposal
  PROVE  Accepted(p) \in Edge /\ Accepted(p).id = p.id
BY ProposalAssumption DEF Accepted, Edge, State

\* Ending a request, or going on to the next proposal of a batch, keeps the
\* handlers' types and leaves nothing read behind.
LEMMA FinishSession ==
  ASSUME TypeOK, SessionOK, NEW h \in Handler, Finish(h)
  PROVE  /\ request' \in [Handler -> Request \union {NoRequest}]
         /\ base' \in [Handler -> Document \union {NoDocument}]
         /\ \A g \in Handler :
              \/ request'[g] = request[g] /\ base'[g] = base[g]
              \/ request'[g] = NoRequest /\ base'[g] = NoDocument
BY DEF TypeOK, Finish

\* The sessions after one proposal of an accept: the handler is at its next one, or done.
LEMMA NextProposalSession ==
  ASSUME TypeOK, SessionOK, NEW h \in Handler, Working(h, "accept"), NextProposal(h)
  PROVE  /\ request' \in [Handler -> Request \union {NoRequest}]
         /\ base' \in [Handler -> Document \union {NoDocument}]
         /\ \A g \in Handler :
              \/ request'[g] = request[g] /\ base'[g] = base[g]
              \/ /\ request'[g] = NoRequest \/ request'[g].op = "accept"
                 /\ base'[g] = NoDocument
<1>1. request[h] \in AcceptRequest
  BY DEF TypeOK, Working, Idle, Request, PutRequest, UploadRequest,
         AcceptRequest, TransitionRequest
<1>2. request[h].proposals \in Seq(Proposal) /\ request[h].proposals # <<>>
  BY <1>1 DEF AcceptRequest
<1> DEFINE rest == [op |-> "accept", proposals |-> Tail(request[h].proposals)]
<1>3. Len(request[h].proposals) # 1 => rest \in Request
  <2> SUFFICES ASSUME Len(request[h].proposals) # 1 PROVE rest \in AcceptRequest
    BY DEF Request
  <2>1. /\ Tail(request[h].proposals) \in Seq(Proposal)
        /\ Len(Tail(request[h].proposals)) = Len(request[h].proposals) - 1
        /\ Len(request[h].proposals) \in Nat \ {0}
    BY <1>2, HeadTailProperties, EmptySeq
  <2>2. Len(Tail(request[h].proposals)) # 0
    BY <2>1
  <2>3. Tail(request[h].proposals) # <<>>
    BY <2>2, EmptySeq
  <2> QED BY <2>1, <2>3 DEF AcceptRequest
<1>4. request'[h] = NoRequest \/ (request'[h] = rest /\ rest \in Request)
  BY <1>3 DEF NextProposal, TypeOK
<1>5. \A g \in Handler : g # h => request'[g] = request[g] /\ base'[g] = base[g]
  BY DEF NextProposal, TypeOK
<1>6. base'[h] = NoDocument
  BY DEF NextProposal, TypeOK
<1>7. \A g \in Handler : request'[g] \in Request \union {NoRequest}
  BY <1>4, <1>5 DEF TypeOK
<1>8. request' \in [Handler -> Request \union {NoRequest}]
  BY <1>4, <1>7 DEF NextProposal, TypeOK
<1>9. base' \in [Handler -> Document \union {NoDocument}]
  BY DEF NextProposal, TypeOK
<1> QED BY <1>4, <1>5, <1>6, <1>8, <1>9

-----------------------------------------------------------------------------
(* Every step keeps the invariant and is a step of the version tree. *)

\* What a commit by handler h of a document derived from the one it read does
\* to the store: the store's part of the invariant, one Publish of the tree.
LEMMA ReplaceStep ==
  ASSUME Inv, NEW h \in Handler, base[h] # NoDocument,
         NEW doc \in Document, doc.stamp = clock + 1,
         doc.version = base[h].version + 1, Replace(h, doc)
  PROVE  /\ row' \in Document /\ history' \in Seq(Document)
         /\ issued' = issued \union {doc} /\ clock' \in 0..MaxWrites
         /\ StoreOK'
         /\ Versions!Publish
<1> USE DEF Inv
<1>1. base[h] \in issued /\ base[h] \in Document
  BY DEF SessionOK, TypeOK
<1>2. /\ history' = Append(history, base[h])
      /\ row' = doc /\ issued' = issued \union {doc}
      /\ clock' = clock + 1 /\ clock < MaxWrites
  BY DEF Replace, Store
<1>3. history' \in Seq(Document) /\ Archived' = Archived \union {base[h]}
  BY <1>1, <1>2, ArchivedAppend DEF TypeOK
<1>4. clock \in Nat /\ clock' \in 0..MaxWrites
  BY <1>2, BoundsAssumption DEF TypeOK
<1>5. doc \notin issued
  BY <1>4 DEF StoreOK
<1>6. Current' = {doc}
  BY <1>2, AbsenceAssumption DEF Current
<1>7. \A d \in issued' : d.stamp <= clock'
  BY <1>2, <1>4 DEF StoreOK, TypeOK, Document
<1>8. StoreOK'
  BY <1>1, <1>2, <1>3, <1>7, AbsenceAssumption DEF StoreOK
<1>9. Versions!Publish
  BY <1>1, <1>2, <1>3, <1>5, <1>6 DEF Versions!Publish
<1> QED BY <1>2, <1>3, <1>4, <1>8, <1>9

\* A commit is a Replace by a document derived from the one its session holds.
LEMMA WriteReplaces ==
  ASSUME Inv, NEW h \in Handler, Write(h)
  PROVE  /\ base[h] # NoDocument
         /\ UNCHANGED <<files, sealed>> /\ listed \subseteq listed'
         /\ listed' \in SUBSET Content /\ sent' \in SUBSET (Content \X Visibility)
         /\ Finish(h) \/ (Working(h, "accept") /\ NextProposal(h))
         /\ \E doc \in Document :
              /\ doc.stamp = clock + 1
              /\ doc.version = base[h].version + 1
              /\ Replace(h, doc)
<1> USE DEF Inv
<1>1. base[h] # NoDocument
  BY DEF Write, CommitPut, CommitUpload, CommitEncrypted, CommitAccept,
         CommitTransition, Working, Idle, SessionOK
<1>2. /\ base[h] \in Document
      /\ base[h].relationships \in SUBSET Edge
      /\ base[h].documents \in SUBSET Content
      /\ base[h].visibility \in Visibility
  BY <1>1 DEF TypeOK, Document
<1>3. clock \in Nat
  BY DEF TypeOK
<1>4. request[h] \in Request \union {NoRequest}
  BY DEF TypeOK
<1> USE DEF Request, PutRequest, UploadRequest, AcceptRequest, TransitionRequest
<1>5. CASE CommitPut(h)
  <2>1. request[h] \in PutRequest
    BY <1>4, <1>5 DEF CommitPut, Working, Idle
  <2> QED
    BY <1>1, <1>2, <1>3, <1>5, <2>1, SignedDocument DEF CommitPut, TypeOK
<1>6. CASE CommitUpload(h)
  <2>1. request[h] \in UploadRequest
    BY <1>4, <1>6 DEF CommitUpload, Working, Idle
  <2>2. base[h].documents \union {request[h].content} \in SUBSET Content
    BY <1>2, <2>1
  <2>3. sent' \in SUBSET (Content \X Visibility)
    BY <1>2, <1>6, <2>1 DEF CommitUpload, SendFile, TypeOK
  <2> QED
    BY <1>1, <1>2, <1>3, <1>6, <2>2, <2>3, SignedDocument DEF CommitUpload, TypeOK
<1>9. CASE CommitEncrypted(h)
  <2>1. request[h] \in UploadRequest
    BY <1>4, <1>9 DEF CommitEncrypted, Working, Idle
  <2>2. base[h].documents \union {request[h].content} \in SUBSET Content
    BY <1>2, <2>1
  <2> QED
    BY <1>1, <1>2, <1>3, <1>9, <2>2, SignedDocument DEF CommitEncrypted, TypeOK
<1>7. CASE CommitAccept(h)
  <2>1. request[h] \in AcceptRequest
    BY <1>4, <1>7 DEF CommitAccept, Working, Idle
  <2>2. Head(request[h].proposals) \in Proposal
    BY <2>1, HeadTailProperties
  <2>3. Accepted(Head(request[h].proposals)) \in Edge
    BY <2>2, AcceptedEdge
  <2>4. base[h].relationships \union {Accepted(Head(request[h].proposals))}
          \in SUBSET Edge
    BY <1>2, <2>3
  <2> QED
    BY <1>1, <1>2, <1>3, <1>7, <2>4, SignedDocument DEF CommitAccept, TypeOK
<1>8. CASE CommitTransition(h)
  <2>1. request[h] \in TransitionRequest
    BY <1>4, <1>8 DEF CommitTransition, Working, Idle
  <2>2. {IF e.id = request[h].id THEN Transitioned(e, request[h].to) ELSE e :
           e \in base[h].relationships} \in SUBSET Edge
    BY <1>2, <2>1, TransitionedEdge
  <2> QED
    BY <1>1, <1>2, <1>3, <1>8, <2>2, SignedDocument DEF CommitTransition, TypeOK
<1> QED BY <1>5, <1>6, <1>7, <1>8, <1>9 DEF Write

\* The node starts without a record.
LEMMA InitInv == Init => Inv /\ Versions!Init
<1>1. Init => Archived = {} /\ Current = {}
  BY DEF Init, Archived, Current
<1> QED
  BY <1>1, BoundsAssumption, EmptySeq
  DEF Init, Inv, TypeOK, SessionOK, StoreOK, Versions!Init

\* create_asset.
LEMMA CreateStep ==
  ASSUME Inv, NEW visibility \in Visibility, NEW documents \in SUBSET Content,
         Create(visibility, documents)
  PROVE  Inv' /\ Versions!Create
<1> DEFINE doc == [stamp |-> clock + 1, version |-> 1, relationships |-> {},
                   documents |-> documents, visibility |-> visibility]
<1> USE DEF Inv
<1>1. /\ row = NoDocument /\ issued = {}
      /\ row' = doc /\ issued' = {doc} /\ clock' = clock + 1 /\ clock < MaxWrites
      /\ listed' = listed \union documents
      /\ UNCHANGED <<history, files, sealed, sent, request, base>>
  BY DEF Create, Store, StoreOK
<1>2. clock \in Nat /\ clock' \in 0..MaxWrites
  BY <1>1, BoundsAssumption DEF TypeOK
<1>3. doc \in Document
  BY <1>2 DEF Document
<1>4. TypeOK'
  BY <1>1, <1>2, <1>3 DEF TypeOK
<1>5. Archived' = {} /\ UNCHANGED Archived
  BY <1>1 DEF StoreOK, Archived
<1>6. StoreOK'
  BY <1>1, <1>2, <1>3, <1>5, AbsenceAssumption DEF StoreOK
<1>7. SessionOK'
  BY <1>1 DEF SessionOK
<1>8. Current' = {doc}
  BY <1>1, <1>3, AbsenceAssumption DEF Current
<1>9. Versions!Create
  BY <1>1, <1>5, <1>8 DEF Versions!Create
<1> QED BY <1>4, <1>6, <1>7, <1>9

\* A commit of any of the four writers.
LEMMA WriteStep ==
  ASSUME Inv, NEW h \in Handler, Write(h)
  PROVE  Inv' /\ Versions!Publish
<1>1. PICK doc \in Document :
        /\ doc.stamp = clock + 1
        /\ doc.version = base[h].version + 1
        /\ Replace(h, doc)
  BY WriteReplaces
<1>2. /\ base[h] # NoDocument
      /\ UNCHANGED <<files, sealed>>
      /\ listed' \in SUBSET Content /\ sent' \in SUBSET (Content \X Visibility)
  BY WriteReplaces
<1>3. /\ row' \in Document /\ history' \in Seq(Document)
      /\ issued' = issued \union {doc} /\ clock' \in 0..MaxWrites
      /\ StoreOK'
      /\ Versions!Publish
  BY <1>1, <1>2, ReplaceStep
<1>4. /\ request' \in [Handler -> Request \union {NoRequest}]
      /\ base' \in [Handler -> Document \union {NoDocument}]
      /\ \A g \in Handler :
           \/ request'[g] = request[g] /\ base'[g] = base[g]
           \/ /\ request'[g] = NoRequest \/ request'[g].op = "accept"
              /\ base'[g] = NoDocument
  <2>1. Finish(h) \/ (Working(h, "accept") /\ NextProposal(h))
    BY WriteReplaces
  <2>2. CASE Finish(h)
    BY <2>2, FinishSession DEF Inv
  <2>3. CASE Working(h, "accept") /\ NextProposal(h)
    BY <2>3, NextProposalSession DEF Inv
  <2> QED BY <2>1, <2>2, <2>3
<1>5. TypeOK'
  BY <1>2, <1>3, <1>4 DEF TypeOK, Inv
<1>6. SessionOK'
  BY <1>3, <1>4 DEF SessionOK, Inv
<1> QED BY <1>3, <1>5, <1>6 DEF Inv

\* A step that leaves the store alone stutters in the version tree.
LEMMA StoreUnchanged ==
  ASSUME Inv, UNCHANGED <<row, history, issued, clock>>
  PROVE  StoreOK' /\ UNCHANGED Versions!vars
BY DEF Inv, StoreOK, Archived, Current, Versions!vars

\* The handlers' steps before their commits, and their failures.
LEMMA SessionStep ==
  ASSUME Inv, NEW h \in Handler, Step(h), ~Write(h)
  PROVE  TypeOK' /\ SessionOK' /\ UNCHANGED <<row, history, issued, clock>>
<1> USE DEF Inv
<1>1. row # NoDocument => row \in Document /\ row \in issued
  BY DEF TypeOK, StoreOK
<1>2. ASSUME NEW documents \in SUBSET Content, NEW visibility \in Visibility,
             BeginPut(h, documents, visibility)
      PROVE  TypeOK' /\ SessionOK' /\ UNCHANGED <<row, history, issued, clock>>
  <2>1. [op |-> "put", documents |-> documents, visibility |-> visibility] \in Request
    BY DEF Request, PutRequest
  <2> QED BY <1>1, <1>2, <2>1 DEF BeginPut, TypeOK, SessionOK
<1>3. ASSUME NEW content \in Content,
             BeginUpload(h, content) \/ BeginEncrypted(h, content)
      PROVE  TypeOK' /\ SessionOK' /\ UNCHANGED <<row, history, issued, clock>>
  <2>1. \A op \in {"upload", "encrypt"} : [op |-> op, content |-> content] \in Request
    BY DEF Request, UploadRequest
  <2> QED
    BY <1>1, <1>3, <2>1 DEF BeginUpload, BeginEncrypted, TypeOK, SessionOK
<1>4. CASE StoreContent(h) \/ StoreEncrypted(h)
  <2>1. request[h] \in UploadRequest
    BY <1>4 DEF StoreContent, StoreEncrypted, Working, Idle, TypeOK, Request,
                PutRequest, UploadRequest, AcceptRequest, TransitionRequest
  <2>2. /\ files' \in SUBSET Content /\ sealed' \in SUBSET Content
        /\ UNCHANGED <<row, history, listed, issued, clock>>
    BY <1>4, <2>1 DEF StoreContent, StoreEncrypted, TypeOK, UploadRequest
  <2>3. base[h] # NoDocument /\ base[h] \in Document
    BY <1>4 DEF StoreContent, StoreEncrypted, Working, Idle, SessionOK, TypeOK
  <2>4. sent' \in SUBSET (Content \X Visibility)
    BY <1>4, <2>1, <2>3 DEF StoreContent, StoreEncrypted, SendFile, TypeOK,
                            UploadRequest, Document
  <2>5. CASE Finish(h)
    BY <2>2, <2>5, <2>4, FinishSession DEF TypeOK, SessionOK
  <2>6. ASSUME NEW op \in {"attach", "refer"},
               request' = [request EXCEPT ![h].op = op], UNCHANGED base
        PROVE  TypeOK' /\ SessionOK'
    <3>1. /\ request'[h] \in UploadRequest
          /\ \A g \in Handler : g # h => request'[g] = request[g]
      BY <2>1, <2>6 DEF TypeOK, UploadRequest
    <3>2. request' \in [Handler -> Request \union {NoRequest}]
      BY <2>6, <3>1 DEF TypeOK, Request
    <3> QED BY <2>2, <2>3, <2>6, <2>4, <3>1, <3>2 DEF TypeOK, SessionOK
  <2> QED BY <1>4, <2>2, <2>5, <2>6 DEF StoreContent, StoreEncrypted
<1>5. ASSUME NEW n \in 1..MaxBatch, NEW proposals \in [1..n -> Proposal],
             BeginAccept(h, proposals)
      PROVE  TypeOK' /\ SessionOK' /\ UNCHANGED <<row, history, issued, clock>>
  <2>1. proposals \in Seq(Proposal) /\ Len(proposals) = n
    BY BoundsAssumption
  <2>2. proposals # <<>>
    BY <2>1, EmptySeq
  <2>3. [op |-> "accept", proposals |-> proposals] \in Request
    BY <2>1, <2>2 DEF Request, AcceptRequest
  <2> QED BY <1>5, <2>3 DEF BeginAccept, TypeOK, SessionOK, Free, Idle
<1>6. CASE RejectProposal(h)
  BY <1>6, NextProposalSession DEF RejectProposal, TypeOK, SessionOK
<1>7. CASE SelectRoot(h)
  BY <1>1, <1>7 DEF SelectRoot, TypeOK, SessionOK
<1>8. ASSUME NEW id \in Relationship, NEW to \in State, BeginTransition(h, id, to)
      PROVE  TypeOK' /\ SessionOK' /\ UNCHANGED <<row, history, issued, clock>>
  <2>1. [op |-> "transition", id |-> id, to |-> to] \in Request
    BY DEF Request, TransitionRequest
  <2> QED BY <1>1, <1>8, <2>1 DEF BeginTransition, TypeOK, SessionOK
<1>9. CASE Abort(h)
  BY <1>9, FinishSession DEF Abort, TypeOK, SessionOK
<1> QED
  BY <1>2, <1>3, <1>4, <1>5, <1>6, <1>7, <1>8, <1>9 DEF Step

\* Files from other nodes, crashes and stuttering.
OtherStep ==
  (\E content \in Content : ReceiveReplica(content)) \/ Crash \/ UNCHANGED vars

\* The steps that write no record of the authority.
LEMMA OtherSteps ==
  ASSUME Inv, OtherStep
  PROVE  TypeOK' /\ SessionOK' /\ UNCHANGED <<row, history, issued, clock>>
<1>1. ASSUME NEW content \in Content, ReceiveReplica(content)
      PROVE  TypeOK' /\ SessionOK' /\ UNCHANGED <<row, history, issued, clock>>
  BY <1>1 DEF Inv, ReceiveReplica, TypeOK, SessionOK
<1>2. CASE Crash \/ UNCHANGED vars
  BY <1>2 DEF Inv, Crash, vars, TypeOK, SessionOK
<1> QED BY <1>1, <1>2 DEF OtherStep

\* Every step keeps the invariant, and is a step of the version tree or none.
LEMMA NextStep == Inv /\ [Next]_vars => Inv' /\ [Versions!Next]_(Versions!vars)
<1> SUFFICES ASSUME Inv, [Next]_vars
             PROVE  Inv' /\ [Versions!Next]_(Versions!vars)
  OBVIOUS
<1>1. ASSUME NEW visibility \in Visibility, NEW documents \in SUBSET Content,
             Create(visibility, documents)
      PROVE  Inv' /\ [Versions!Next]_(Versions!vars)
  BY <1>1, CreateStep DEF Versions!Next
<1>2. ASSUME NEW h \in Handler, Write(h)
      PROVE  Inv' /\ [Versions!Next]_(Versions!vars)
  BY <1>2, WriteStep DEF Versions!Next
<1>3. ASSUME NEW h \in Handler, Step(h), ~Write(h)
      PROVE  Inv' /\ [Versions!Next]_(Versions!vars)
  BY <1>3, SessionStep, StoreUnchanged DEF Inv
<1>4. CASE OtherStep
  BY <1>4, OtherSteps, StoreUnchanged DEF Inv
<1> QED BY <1>1, <1>2, <1>3, <1>4 DEF Next, OtherStep

-----------------------------------------------------------------------------
\* Type correctness of the record store.
THEOREM TypeCorrect == Spec => []TypeOK
<1>1. Inv => TypeOK
  BY DEF Inv
<1> QED BY InitInv, NextStep, <1>1, PTL DEF Spec

\* The record store implements the version tree: whatever the interleaving of
\* handlers, failures and crashes, every write publishes a document derived
\* from an issued one, and archives that one.
THEOREM ImplementsVersionTree == Spec => VersionTreeSpec
BY InitInv, NextStep, PTL DEF Spec, VersionTreeSpec, Versions!Spec

\* Versions and Tree are the same module under the same substitution.
LEMMA SameTree ==
  /\ Versions!Init <=> Tree!Init
  /\ [Versions!Next]_(Versions!vars) <=> [Tree!Next]_(Tree!vars)
  /\ Versions!NoLossWithoutFork <=> Tree!NoLossWithoutFork
  /\ Versions!ArchiveCovers <=> Tree!ArchiveCovers
BY DEF Versions!Init, Tree!Init, Versions!Next, Tree!Next, Versions!vars, Tree!vars,
       Versions!Create, Tree!Create, Versions!Publish, Tree!Publish,
       Versions!NoLossWithoutFork, Tree!NoLossWithoutFork,
       Versions!Forkless, Tree!Forkless,
       Versions!ArchiveCovers, Tree!ArchiveCovers

\* A signed document disappears from the row and the history only if two
\* documents were issued under one version number.
THEOREM NoSilentLoss == Spec => []NoLossWithoutFork
<1>1. Versions!Spec => []Versions!NoLossWithoutFork
  BY Tree!TreeNoLossWithoutFork, SameTree, PTL DEF Versions!Spec, Tree!Spec
<1> QED BY <1>1, ImplementsVersionTree, PTL DEF NoLossWithoutFork, VersionTreeSpec

\* The history has a document of each version below any version ever issued.
THEOREM HistoryCovers == Spec => []Versions!ArchiveCovers
<1>1. Versions!Spec => []Versions!ArchiveCovers
  BY Tree!TreeArchiveCovers, SameTree, PTL DEF Versions!Spec, Tree!Spec
<1> QED BY <1>1, ImplementsVersionTree, PTL DEF VersionTreeSpec

-----------------------------------------------------------------------------
(* What the history shows of forks. *)

\* The rows of the history of version v, and the documents issued after them.
RowsOf(v) == {i \in 1..Len(history) : history[i].version = v}
IssuedAfter(v) == {doc \in issued : doc.version = v + 1}

\* For every version number there are as many of the one as of the other.
Counted ==
  /\ IsFiniteSet(issued)
  /\ \A v \in Nat \ {0} : Cardinality(RowsOf(v)) = Cardinality(IssuedAfter(v))

\* One more element.
LEMMA OneMore ==
  ASSUME NEW S, IsFiniteSet(S), NEW x, x \notin S
  PROVE  Cardinality(S \union {x}) = Cardinality(S) + 1
BY FS_AddElement

\* A commit adds one row of the version its session read and one document of
\* the version after that.
LEMMA ReplaceCounts ==
  ASSUME Inv, Counted, NEW h \in Handler, base[h] # NoDocument,
         NEW doc \in Document, doc.stamp = clock + 1,
         doc.version = base[h].version + 1, Replace(h, doc)
  PROVE  Counted'
<1>1. /\ issued' = issued \union {doc} /\ history' = Append(history, base[h])
      /\ history \in Seq(Document) /\ base[h] \in Document
      /\ clock \in Nat /\ \A d \in issued : d.stamp <= clock
  BY BoundsAssumption DEF Replace, Store, Inv, TypeOK, StoreOK
<1>2. doc \notin issued
  BY <1>1
<1> DEFINE n == Len(history)
<1>3. /\ n \in Nat /\ Len(history') = n + 1
      /\ \A i \in 1..n : history'[i] = history[i]
      /\ history'[n + 1] = base[h]
  BY <1>1
<1>4. IsFiniteSet(issued')
  BY <1>1, FS_AddElement DEF Counted
<1> SUFFICES ASSUME NEW v \in Nat \ {0}
             PROVE  Cardinality(RowsOf(v)') = Cardinality(IssuedAfter(v)')
  BY <1>4 DEF Counted
<1>5. IsFiniteSet(RowsOf(v)) /\ n + 1 \notin RowsOf(v)
  <2>1. IsFiniteSet(1..n) /\ RowsOf(v) \subseteq 1..n
    BY <1>3, FS_Interval DEF RowsOf
  <2> QED BY <1>3, <2>1, FS_Subset
<1>6. IsFiniteSet(IssuedAfter(v)) /\ doc \notin IssuedAfter(v)
  BY <1>2, FS_Subset DEF Counted, IssuedAfter
<1>7. Cardinality(RowsOf(v)) = Cardinality(IssuedAfter(v))
  BY DEF Counted
<1>8. doc.version \in Nat /\ base[h].version \in Nat
  BY <1>1 DEF Document
<1>9. CASE base[h].version = v
  <2>1. RowsOf(v)' = RowsOf(v) \union {n + 1}
    BY <1>3, <1>9 DEF RowsOf
  <2>2. IssuedAfter(v)' = IssuedAfter(v) \union {doc}
    BY <1>1, <1>9 DEF IssuedAfter
  <2> HIDE DEF n
  <2> QED BY <1>5, <1>6, <1>7, <2>1, <2>2, OneMore
<1>10. CASE base[h].version # v
  <2>1. RowsOf(v)' = RowsOf(v)
    BY <1>3, <1>10 DEF RowsOf
  <2>2. IssuedAfter(v)' = IssuedAfter(v)
    BY <1>1, <1>8, <1>10 DEF IssuedAfter
  <2> QED BY <1>7, <2>1, <2>2
<1> QED BY <1>9, <1>10

\* Every step keeps the count.
LEMMA CountedStep == Inv /\ Counted /\ [Next]_vars => Counted'
<1> SUFFICES ASSUME Inv, Counted, [Next]_vars PROVE Counted'
  OBVIOUS
<1>1. ASSUME UNCHANGED <<history, issued>> PROVE Counted'
  BY <1>1 DEF Counted, RowsOf, IssuedAfter
<1>2. ASSUME NEW visibility \in Visibility, NEW documents \in SUBSET Content,
             Create(visibility, documents)
      PROVE  Counted'
  <2>1. issued = {} /\ issued' = {row'} /\ row'.version = 1 /\ history' = history
    BY <1>2 DEF Create, Store, Inv, StoreOK
  <2>2. \A v \in Nat \ {0} : IssuedAfter(v)' = {} /\ IssuedAfter(v) = {}
    BY <2>1 DEF IssuedAfter
  <2>3. IsFiniteSet(issued')
    BY <2>1, FS_Singleton
  <2> QED BY <2>1, <2>2, <2>3 DEF Counted, RowsOf
<1>3. ASSUME NEW h \in Handler, Write(h) PROVE Counted'
  BY <1>3, WriteReplaces, ReplaceCounts
<1>4. ASSUME NEW h \in Handler, Step(h), ~Write(h) PROVE Counted'
  BY <1>1, <1>4, SessionStep
<1>5. ASSUME OtherStep PROVE Counted'
  BY <1>1, <1>5, OtherSteps
<1> QED BY <1>2, <1>3, <1>4, <1>5 DEF Next, OtherStep

\* The history shows how many documents were signed from each version.
THEOREM ForksShow == Spec => []HistoryShowsForks
<1>1. Init => Counted
  <2> SUFFICES ASSUME Init PROVE Counted
    OBVIOUS
  <2>1. issued = {} /\ history = <<>> /\ Len(history) = 0
    BY EmptySeq DEF Init
  <2>2. \A v \in Nat \ {0} : RowsOf(v) = {} /\ IssuedAfter(v) = {}
    BY <2>1 DEF RowsOf, IssuedAfter
  <2> QED BY <2>1, <2>2, FS_EmptySet DEF Counted
<1>2. Counted => HistoryShowsForks
  <2>1. \A v \in 1..MaxWrites : v \in Nat \ {0}
    BY BoundsAssumption
  <2> QED BY <2>1 DEF Counted, RowsOf, IssuedAfter, HistoryShowsForks
<1> QED BY InitInv, NextStep, CountedStep, <1>1, <1>2, PTL DEF Spec

-----------------------------------------------------------------------------
(* What every signed document satisfies, and what the row keeps. *)

\* What the checks of a handler leave it with, for as long as it works on req
\* and holds doc: they were made against doc, or against what is stored, which
\* only grows.
\* An idle handler holds nothing.
Duty(req, doc, stored) ==
  IF req = NoRequest THEN doc = NoDocument
  ELSE
    /\ req.op \in {"attach", "refer"} => req.content \in stored
    /\ req.op = "accept" /\ doc # NoDocument => Head(req.proposals).id \notin Ids(doc)
    /\ req.op = "transition" =>
         \E e \in doc.relationships : e.id = req.id /\ req.to \in Allowed(e.state)

Stored == files \union sealed

RequestOK == \A h \in Handler : Duty(request[h], base[h], Stored)

\* The lifecycle events of one relationship after those asserted lead to its
\* state.
Legal(e) ==
  LET first == Len(e.asserted)
      path == [i \in first..Len(e.events) |->
                 IF i = first THEN "accepted" ELSE e.events[i][2]]
  IN  /\ IsPrefix(e.asserted, e.events)
      /\ e.state = path[Len(e.events)]
      /\ \A i \in (first + 1)..Len(e.events) :
           /\ e.events[i][1] = path[i - 1]
           /\ path[i] \in Allowed(path[i - 1])

\* The relationships of one document: no id occurs twice, each is legal.
Sound(relationships) ==
  /\ \A e, f \in relationships : e.id = f.id => e = f
  /\ \A e \in relationships : Legal(e)

IssuedOK ==
  \A doc \in issued :
    doc.documents \subseteq Stored \union listed /\ Sound(doc.relationships)

Safe == Inv /\ RequestOK /\ IssuedOK /\ AuditTrail /\ FilesSentAsGranted

-----------------------------------------------------------------------------
(* Relationships. *)

\* A prefix has the first elements of the longer sequence.
LEMMA PrefixIs ==
  ASSUME NEW S, NEW s \in Seq(S), NEW t \in Seq(S)
  PROVE  IsPrefix(s, t) <=> Len(s) <= Len(t) /\ \A i \in 1..Len(s) : s[i] = t[i]
<1>1. Len(s) \in Nat /\ Len(t) \in Nat
  OBVIOUS
<1>2. SubSeq(s, 1, Len(s)) = [i \in 1..Len(s) |-> s[i]]
  OBVIOUS
<1>3. Len(s) <= Len(t) => SubSeq(t, 1, Len(s)) = [i \in 1..Len(s) |-> t[i]]
  OBVIOUS
<1> QED BY <1>1, <1>2, <1>3 DEF IsPrefix

\* A relationship starts accepted, with no event of its own to explain.
LEMMA AcceptedLegal == ASSUME NEW p \in Proposal PROVE Legal(Accepted(p))
<1>1. /\ Accepted(p).events = p.events /\ Accepted(p).asserted = p.events
      /\ Accepted(p).state = "accepted"
  BY DEF Accepted
<1>2. p.events \in Seq(State \X State) /\ Len(p.events) \in Nat
  BY ProposalAssumption DEF Events
<1>3. IsPrefix(p.events, p.events)
  BY <1>2, PrefixIs
<1> QED BY <1>1, <1>2, <1>3 DEF Legal

\* An allowed transition of a legal relationship is legal.
LEMMA TransitionedLegal ==
  ASSUME NEW e \in Edge, NEW to \in State, Legal(e), to \in Allowed(e.state)
  PROVE  Legal(Transitioned(e, to)) /\ Transitioned(e, to).id = e.id
<1> DEFINE t == Transitioned(e, to)
           n == Len(e.events)
           first == Len(e.asserted)
           path == [i \in first..n |-> IF i = first THEN "accepted" ELSE e.events[i][2]]
           next == [i \in first..Len(t.events) |->
                      IF i = first THEN "accepted" ELSE t.events[i][2]]
<1>1. /\ e.events \in Seq(State \X State) /\ n \in Nat
      /\ e.asserted \in Seq(State \X State) /\ first \in Nat
  BY DEF Edge, Events
<1>2. /\ t.id = e.id /\ t.state = to /\ t.asserted = e.asserted
      /\ t.events = Append(e.events, <<e.state, to>>)
  BY DEF Transitioned, Edge
<1>3. /\ Len(t.events) = n + 1
      /\ t.events[n + 1] = <<e.state, to>>
      /\ \A i \in 1..n : t.events[i] = e.events[i]
      /\ t.events \in Seq(State \X State)
  <2>1. <<e.state, to>> \in State \X State
    BY DEF Edge
  <2> QED BY <1>1, <1>2, <2>1
<1>4. first <= n /\ \A i \in 1..first : e.asserted[i] = e.events[i]
  BY <1>1, PrefixIs DEF Legal
<1>5. \A i \in first..n : next[i] = path[i]
  BY <1>1, <1>3, <1>4
<1>6. next[n + 1] = to
  BY <1>1, <1>3, <1>4
<1>7. /\ e.state = path[n]
      /\ \A i \in (first + 1)..n :
           e.events[i][1] = path[i - 1] /\ path[i] \in Allowed(path[i - 1])
  BY DEF Legal
<1>8. t.state = next[Len(t.events)]
  BY <1>2, <1>3, <1>6
<1>9. ASSUME NEW i \in (first + 1)..Len(t.events)
      PROVE  t.events[i][1] = next[i - 1] /\ next[i] \in Allowed(next[i - 1])
  <2>1. CASE i \in (first + 1)..n
    <3>1. i - 1 \in first..n /\ i \in first..n /\ i \in 1..n
      BY <1>1, <2>1
    <3> HIDE DEF next, path, t, n, first
    <3> QED BY <1>3, <1>5, <1>7, <2>1, <3>1
  <2>2. CASE i = n + 1
    <3>1. i - 1 = n /\ n \in first..n
      BY <1>1, <1>4, <2>2
    <3>2. t.events[i][1] = e.state
      BY <1>3, <2>2
    <3> HIDE DEF next, path, t, n, first
    <3> QED BY <1>5, <1>6, <1>7, <2>2, <3>1, <3>2
  <2> QED BY <1>1, <1>3, <1>4, <2>1, <2>2
<1>10. IsPrefix(t.asserted, t.events)
  <2>1. /\ t.asserted \in Seq(State \X State) /\ Len(t.asserted) = first
        /\ first <= Len(t.events)
    BY <1>1, <1>2, <1>3, <1>4
  <2>2. \A i \in 1..first : i \in 1..n
    BY <1>1, <1>4
  <2>3. \A i \in 1..first : t.asserted[i] = t.events[i]
    BY <1>2, <1>3, <1>4, <2>2
  <2> HIDE DEF t, first, n
  <2> QED BY <1>3, <2>1, <2>3, PrefixIs
<1> QED BY <1>2, <1>8, <1>9, <1>10 DEF Legal

\* Accepting a new id keeps a list sound.
LEMMA SoundAccept ==
  ASSUME NEW relationships, Sound(relationships), NEW p \in Proposal,
         \A e \in relationships : e.id # p.id
  PROVE  Sound(relationships \union {Accepted(p)})
BY AcceptedLegal, AcceptedEdge DEF Sound

\* A transition of one id replaces the one relationship with that id.
LEMMA SoundTransition ==
  ASSUME NEW relationships \in SUBSET Edge, Sound(relationships),
         NEW one \in relationships, NEW to \in State, to \in Allowed(one.state),
         NEW id, one.id = id
  PROVE  LET moved == {IF e.id = id THEN Transitioned(e, to) ELSE e :
                         e \in relationships}
         IN  /\ moved = (relationships \ {one}) \union {Transitioned(one, to)}
             /\ Sound(moved)
<1> DEFINE moved == {IF e.id = id THEN Transitioned(e, to) ELSE e : e \in relationships}
<1>1. \A e \in relationships : e.id = id <=> e = one
  BY DEF Sound
<1>2. moved = (relationships \ {one}) \union {Transitioned(one, to)}
  BY <1>1
<1>3. Legal(Transitioned(one, to)) /\ Transitioned(one, to).id = one.id
  BY TransitionedLegal DEF Sound
<1>4. Sound((relationships \ {one}) \union {Transitioned(one, to)})
  BY <1>1, <1>3 DEF Sound
<1> QED BY <1>2, <1>4

-----------------------------------------------------------------------------
(* Steps. *)

\* Files never go away, so no duty is forgotten.
LEMMA DutyGrows ==
  ASSUME NEW req, NEW doc, NEW stored, NEW more, stored \subseteq more,
         Duty(req, doc, stored)
  PROVE  Duty(req, doc, more)
BY DEF Duty

\* What a commit signs: a sound document whose documents are stored or listed
\* by the client, derived from the
\* one the session holds, and the only one a file may be sent for.
LEMMA WriteSigns ==
  ASSUME Safe, NEW h \in Handler, Write(h)
  PROVE  \E doc \in Document :
           /\ Replace(h, doc)
           /\ doc.documents \subseteq Stored \union listed' /\ Sound(doc.relationships)
           /\ DerivedFrom(base[h], doc)
           /\ \A push \in sent' \ sent :
                push[1] \in doc.documents /\ push[2] = doc.visibility
<1>1. Inv /\ RequestOK /\ IssuedOK
  BY DEF Safe
<1>2. base[h] # NoDocument
  BY <1>1, WriteReplaces
<1>3. /\ base[h] \in Document /\ base[h] \in issued
      /\ base[h].relationships \in SUBSET Edge
      /\ base[h].documents \in SUBSET Content /\ base[h].visibility \in Visibility
  BY <1>1, <1>2 DEF Inv, TypeOK, SessionOK, Document
<1>4. clock \in Nat
  BY <1>1, BoundsAssumption DEF Inv, TypeOK
<1>5. base[h].documents \subseteq Stored \union listed /\ Sound(base[h].relationships)
  BY <1>1, <1>3 DEF IssuedOK
<1>6. ~Idle(h)
  BY DEF Write, CommitPut, CommitUpload, CommitEncrypted, CommitAccept,
         CommitTransition, Working
<1>7. /\ request[h] \in Request /\ request[h] # NoRequest
      /\ Duty(request[h], base[h], Stored)
  BY <1>1, <1>6 DEF Idle, RequestOK, Inv, TypeOK
<1> USE DEF Request, PutRequest, UploadRequest, AcceptRequest, TransitionRequest
<1>8. CASE CommitPut(h)
  <2> DEFINE doc == Signed(base[h], base[h].relationships, request[h].documents,
                           request[h].visibility)
  <2>1. request[h] \in PutRequest /\ request[h].op = "put"
    BY <1>7, <1>8 DEF CommitPut, Working
  <2>2. doc \in Document
    BY <1>3, <1>4, <2>1, SignedDocument
  <2>3. /\ doc.version = base[h].version + 1
        /\ doc.relationships = base[h].relationships
        /\ doc.documents = request[h].documents
    BY DEF Signed
  <2>4. DerivedFrom(base[h], doc)
    BY <2>3 DEF DerivedFrom
  <2>5. Replace(h, doc) /\ sent' = sent
    BY <1>8 DEF CommitPut
  <2>6. doc.documents \subseteq listed'
    BY <1>8, <2>3 DEF CommitPut
  <2> QED BY <1>5, <2>2, <2>3, <2>4, <2>5, <2>6
<1>9. CASE CommitUpload(h)
  <2> DEFINE doc == Signed(base[h], base[h].relationships,
                           base[h].documents \union {request[h].content},
                           base[h].visibility)
  <2>1. request[h] \in UploadRequest /\ request[h].op = "attach"
    BY <1>7, <1>9 DEF CommitUpload, Working
  <2>2. doc \in Document
    BY <1>3, <1>4, <2>1, SignedDocument
  <2>3. /\ doc.version = base[h].version + 1
        /\ doc.relationships = base[h].relationships
        /\ doc.documents = base[h].documents \union {request[h].content}
        /\ doc.visibility = base[h].visibility
    BY DEF Signed
  <2>4. DerivedFrom(base[h], doc)
    BY <2>3 DEF DerivedFrom
  <2>5. /\ Replace(h, doc)
        /\ sent' = sent \union {<<request[h].content, base[h].visibility>>}
        /\ listed' = listed
    BY <1>9 DEF CommitUpload, SendFile
  <2>6. doc.documents \subseteq Stored \union listed'
    BY <1>5, <1>7, <2>1, <2>3, <2>5 DEF Duty
  <2>7. \A push \in sent' \ sent : push[1] \in doc.documents /\ push[2] = doc.visibility
    BY <2>3, <2>5
  <2> HIDE DEF doc
  <2> QED BY <1>5, <2>2, <2>3, <2>4, <2>5, <2>6, <2>7
<1>10. CASE CommitAccept(h)
  <2> DEFINE p == Head(request[h].proposals)
             doc == Signed(base[h], base[h].relationships \union {Accepted(p)},
                           base[h].documents, base[h].visibility)
  <2>1. request[h] \in AcceptRequest /\ request[h].op = "accept"
    BY <1>7, <1>10 DEF CommitAccept, Working
  <2>2. p \in Proposal
    BY <2>1, HeadTailProperties
  <2>3. Accepted(p) \in Edge
    BY <2>2, AcceptedEdge
  <2>4. doc \in Document
    BY <1>3, <1>4, <2>3, SignedDocument
  <2>5. /\ doc.version = base[h].version + 1
        /\ doc.relationships = base[h].relationships \union {Accepted(p)}
        /\ doc.documents = base[h].documents
        /\ doc.visibility = base[h].visibility
    BY DEF Signed
  <2>6. p.id \notin Ids(base[h])
    BY <1>2, <1>7, <2>1 DEF Duty
  <2>7. DerivedFrom(base[h], doc)
    BY <2>2, <2>5, <2>6 DEF DerivedFrom
  <2>8. Sound(doc.relationships)
    <3>1. \A e \in base[h].relationships : e.id # p.id
      BY <2>6 DEF Ids
    <3>2. Sound(base[h].relationships \union {Accepted(p)})
      BY <1>5, <2>2, <3>1, SoundAccept
    <3> QED BY <2>5, <3>2
  <2>9. Replace(h, doc) /\ sent' = sent /\ listed' = listed
    BY <1>10 DEF CommitAccept
  <2> QED BY <1>5, <2>4, <2>5, <2>7, <2>8, <2>9
<1>11. CASE CommitTransition(h)
  <2> DEFINE to == request[h].to
             moved == {IF e.id = request[h].id THEN Transitioned(e, to) ELSE e :
                         e \in base[h].relationships}
             doc == Signed(base[h], moved, base[h].documents, base[h].visibility)
  <2>1. request[h] \in TransitionRequest /\ request[h].op = "transition"
    BY <1>7, <1>11 DEF CommitTransition, Working
  <2>2. PICK one \in base[h].relationships :
          one.id = request[h].id /\ to \in Allowed(one.state)
    BY <1>7, <2>1 DEF Duty
  <2>3. to \in State
    BY <2>1
  <2>4. /\ moved = (base[h].relationships \ {one}) \union {Transitioned(one, to)}
        /\ Sound(moved)
    BY <1>3, <1>5, <2>2, <2>3, SoundTransition
  <2>5. moved \in SUBSET Edge
    BY <1>3, <2>2, <2>3, <2>4, TransitionedEdge
  <2>6. doc \in Document
    BY <1>3, <1>4, <2>5, SignedDocument
  <2>7. /\ doc.version = base[h].version + 1
        /\ doc.relationships = moved
        /\ doc.documents = base[h].documents
        /\ doc.visibility = base[h].visibility
    BY DEF Signed
  <2>8. DerivedFrom(base[h], doc)
    BY <2>2, <2>4, <2>7 DEF DerivedFrom
  <2>9. Replace(h, doc) /\ sent' = sent /\ listed' = listed
    BY <1>11 DEF CommitTransition
  <2> QED BY <1>5, <2>4, <2>6, <2>7, <2>8, <2>9
<1>12. CASE CommitEncrypted(h)
  <2> DEFINE doc == Signed(base[h], base[h].relationships,
                           base[h].documents \union {request[h].content},
                           base[h].visibility)
  <2>1. request[h] \in UploadRequest /\ request[h].op = "refer"
    BY <1>7, <1>12 DEF CommitEncrypted, Working
  <2>2. doc \in Document
    BY <1>3, <1>4, <2>1, SignedDocument
  <2>3. /\ doc.version = base[h].version + 1
        /\ doc.relationships = base[h].relationships
        /\ doc.documents = base[h].documents \union {request[h].content}
    BY DEF Signed
  <2>4. DerivedFrom(base[h], doc)
    BY <2>3 DEF DerivedFrom
  <2>5. Replace(h, doc) /\ sent' = sent /\ listed' = listed
    BY <1>12 DEF CommitEncrypted
  <2>6. doc.documents \subseteq Stored \union listed'
    BY <1>5, <1>7, <2>1, <2>3, <2>5 DEF Duty
  <2> HIDE DEF doc
  <2> QED BY <1>5, <2>2, <2>3, <2>4, <2>5, <2>6
<1> QED BY <1>8, <1>9, <1>10, <1>11, <1>12 DEF Write

\* After a commit every issued document is sound, derived from an archived one
\* or the first, and the files sent are those of issued documents.
LEMMA WriteKeepsIssued ==
  ASSUME Safe, NEW h \in Handler, Write(h)
  PROVE  IssuedOK' /\ AuditTrail' /\ FilesSentAsGranted'
<1>1. PICK doc \in Document :
        /\ Replace(h, doc)
        /\ doc.documents \subseteq Stored \union listed' /\ Sound(doc.relationships)
        /\ DerivedFrom(base[h], doc)
        /\ \A push \in sent' \ sent : push[1] \in doc.documents /\ push[2] = doc.visibility
  BY WriteSigns
<1>2. Stored' = Stored /\ listed \subseteq listed' /\ base[h] # NoDocument
  BY WriteReplaces DEF Safe, Stored
<1>3. /\ issued' = issued \union {doc}
      /\ history' = Append(history, base[h])
  BY <1>1 DEF Replace, Store
<1>4. base[h] \in Document /\ history \in Seq(Document)
  BY <1>2 DEF Safe, Inv, TypeOK
<1>5. Archived' = Archived \union {base[h]}
  BY <1>3, <1>4, ArchivedAppend
<1>6. IssuedOK'
  BY <1>1, <1>2, <1>3 DEF Safe, IssuedOK
<1>7. AuditTrail'
  BY <1>1, <1>3, <1>5 DEF Safe, AuditTrail
<1>8. FilesSentAsGranted'
  BY <1>1, <1>3 DEF Safe, FilesSentAsGranted
<1> QED BY <1>6, <1>7, <1>8

\* A handler that commits forgets what it held.
LEMMA WriteKeepsDuties ==
  ASSUME Safe, NEW h \in Handler, Write(h)
  PROVE  RequestOK'
<1>1. Stored' = Stored
  BY WriteReplaces DEF Safe, Stored
<1>2. \A g \in Handler :
        \/ request'[g] = request[g] /\ base'[g] = base[g]
        \/ /\ request'[g] = NoRequest \/ request'[g].op = "accept"
           /\ base'[g] = NoDocument
  <2>1. Finish(h) \/ (Working(h, "accept") /\ NextProposal(h))
    BY WriteReplaces DEF Safe
  <2> QED BY <2>1, FinishSession, NextProposalSession DEF Safe, Inv
<1>3. ASSUME NEW g \in Handler
      PROVE  Duty(request'[g], base'[g], Stored')
  <2>1. CASE request'[g] = request[g] /\ base'[g] = base[g]
    BY <1>1, <1>3, <2>1 DEF Safe, RequestOK
  <2>2. CASE /\ request'[g] = NoRequest \/ request'[g].op = "accept"
             /\ base'[g] = NoDocument
    BY <2>2 DEF Duty
  <2> QED BY <1>2, <1>3, <2>1, <2>2
<1> QED BY <1>3 DEF RequestOK

\* The duties of the other handlers do not depend on what one of them does,
\* as long as what is stored stays; so a step has to care for its own handler's only.
LEMMA OwnDuty ==
  ASSUME RequestOK, NEW h \in Handler, Stored \subseteq Stored',
         \A g \in Handler \ {h} : request'[g] = request[g] /\ base'[g] = base[g],
         Duty(request'[h], base'[h], Stored')
  PROVE  RequestOK'
<1> SUFFICES ASSUME NEW g \in Handler
             PROVE  Duty(request'[g], base'[g], Stored')
  BY DEF RequestOK
<1>1. CASE g = h
  BY <1>1
<1>2. CASE g # h
  <2>1. Duty(request[g], base[g], Stored)
    BY <1>2 DEF RequestOK
  <2>2. Duty(request[g], base[g], Stored')
    BY <2>1, DutyGrows
  <2> QED BY <1>2, <2>2
<1> QED BY <1>1, <1>2

\* The checks of a handler establish its duties.
LEMMA SessionKeepsDuties ==
  ASSUME Safe, NEW h \in Handler, Step(h), ~Write(h)
  PROVE  RequestOK' /\ Stored \subseteq Stored' /\ listed' = listed
<1>1. /\ RequestOK
      /\ request \in [Handler -> Request \union {NoRequest}]
      /\ base \in [Handler -> Document \union {NoDocument}]
  BY DEF Safe, Inv, TypeOK
<1>2. ASSUME NEW documents \in SUBSET Content, NEW visibility \in Visibility,
             BeginPut(h, documents, visibility)
      PROVE  RequestOK' /\ Stored \subseteq Stored' /\ listed' = listed
  <2>1. /\ request'[h] = [op |-> "put", documents |-> documents, visibility |-> visibility]
        /\ request'[h] # NoRequest
    BY <1>1, <1>2, AbsenceAssumption DEF BeginPut, Request, PutRequest
  <2>2. Duty(request'[h], base'[h], Stored')
    BY <2>1 DEF Duty
  <2> QED BY <1>1, <1>2, <2>2, OwnDuty DEF BeginPut, Stored
<1>3. ASSUME NEW content \in Content,
             BeginUpload(h, content) \/ BeginEncrypted(h, content)
      PROVE  RequestOK' /\ Stored \subseteq Stored' /\ listed' = listed
  <2>1. /\ request'[h].op \in {"upload", "encrypt"} /\ request'[h] # NoRequest
        /\ \A g \in Handler \ {h} : request'[g] = request[g] /\ base'[g] = base[g]
        /\ UNCHANGED <<files, sealed, listed>>
    BY <1>1, <1>3, AbsenceAssumption
    DEF BeginUpload, BeginEncrypted, Request, UploadRequest
  <2>2. Duty(request'[h], base'[h], Stored')
    BY <2>1 DEF Duty
  <2> QED BY <1>1, <2>1, <2>2, OwnDuty DEF Stored
<1>4. CASE StoreContent(h) \/ StoreEncrypted(h)
  <2>1. /\ Stored' = Stored \union {request[h].content}
        /\ listed' = listed
    BY <1>4 DEF StoreContent, StoreEncrypted, Stored
  <2>2. CASE Finish(h)
    BY <1>1, <2>1, <2>2, OwnDuty DEF Finish, Duty
  <2>3. ASSUME NEW op \in {"attach", "refer"},
               request' = [request EXCEPT ![h].op = op], UNCHANGED base
        PROVE  RequestOK'
    <3>1. request[h] \in UploadRequest
      BY <1>1, <1>4 DEF StoreContent, StoreEncrypted, Working, Idle, Request,
                        PutRequest, UploadRequest, AcceptRequest, TransitionRequest
    <3>2. /\ request'[h].op = op /\ request'[h].content = request[h].content
          /\ request'[h] # NoRequest
      BY <1>1, <2>3, <3>1, AbsenceAssumption DEF Request, UploadRequest
    <3>3. Duty(request'[h], base'[h], Stored')
      BY <2>1, <3>2 DEF Duty
    <3> QED BY <1>1, <2>1, <2>3, <3>3, OwnDuty
  <2> QED BY <1>4, <2>1, <2>2, <2>3 DEF StoreContent, StoreEncrypted
<1>5. ASSUME NEW n \in 1..MaxBatch, NEW proposals \in [1..n -> Proposal],
             BeginAccept(h, proposals)
      PROVE  RequestOK' /\ Stored \subseteq Stored' /\ listed' = listed
  <2>1. base'[h] = NoDocument
    BY <1>1, <1>5 DEF BeginAccept, Free, Idle, RequestOK, Duty
  <2>2. request'[h] = [op |-> "accept", proposals |-> proposals]
    BY <1>1, <1>5 DEF BeginAccept
  <2>3. Duty(request'[h], base'[h], Stored')
    BY <2>1, <2>2 DEF Duty
  <2> QED BY <1>1, <1>5, <2>3, OwnDuty DEF BeginAccept, Stored
<1>6. CASE RejectProposal(h)
  <2>1. request'[h] = NoRequest \/ request'[h].op = "accept"
    BY <1>1, <1>6 DEF RejectProposal, NextProposal
  <2>2. base'[h] = NoDocument
    BY <1>1, <1>6 DEF RejectProposal, NextProposal
  <2>3. Duty(request'[h], base'[h], Stored')
    BY <2>1, <2>2 DEF Duty
  <2> QED BY <1>1, <1>6, <2>3, OwnDuty DEF RejectProposal, NextProposal, Stored
<1>7. CASE SelectRoot(h)
  <2>1. request[h].op = "accept" /\ request[h] # NoRequest
    BY <1>7 DEF SelectRoot, Working, Idle
  <2>2. /\ request'[h] = request[h] /\ base'[h] = row
        /\ Head(request[h].proposals).id \notin Ids(row)
    BY <1>1, <1>7 DEF SelectRoot
  <2>3. Duty(request'[h], base'[h], Stored')
    BY <2>1, <2>2 DEF Duty
  <2> QED BY <1>1, <1>7, <2>3, OwnDuty DEF SelectRoot, Stored
<1>8. ASSUME NEW id \in Relationship, NEW to \in State, BeginTransition(h, id, to)
      PROVE  RequestOK' /\ Stored \subseteq Stored' /\ listed' = listed
  <2>1. /\ request'[h] = [op |-> "transition", id |-> id, to |-> to]
        /\ request'[h] # NoRequest
    BY <1>1, <1>8, AbsenceAssumption DEF BeginTransition, Request, TransitionRequest
  <2>2. base'[h] = row /\ \E e \in row.relationships : e.id = id /\ to \in Allowed(e.state)
    BY <1>1, <1>8 DEF BeginTransition
  <2>3. Duty(request'[h], base'[h], Stored')
    BY <2>1, <2>2 DEF Duty
  <2> QED BY <1>1, <1>8, <2>3, OwnDuty DEF BeginTransition, Stored
<1>9. CASE Abort(h)
  BY <1>1, <1>9, OwnDuty DEF Abort, Finish, Duty, Stored
<1> QED
  BY <1>2, <1>3, <1>4, <1>5, <1>6, <1>7, <1>8, <1>9 DEF Step

\* The strengthened invariant holds at the start.
LEMMA SafeInit == Init => Safe
<1> SUFFICES ASSUME Init PROVE Safe
  OBVIOUS
<1>1. Inv
  BY InitInv
<1>2. issued = {} /\ sent = {}
  BY DEF Init
<1>3. RequestOK
  BY DEF Init, RequestOK, Duty
<1> QED BY <1>1, <1>2, <1>3 DEF Safe, IssuedOK, AuditTrail, FilesSentAsGranted

\* A step that issues and archives nothing keeps what is known of issued
\* documents.
LEMMA IssuedUnchanged ==
  ASSUME Safe, UNCHANGED <<history, issued, listed>>, Stored \subseteq Stored'
  PROVE  IssuedOK' /\ AuditTrail'
BY DEF Safe, IssuedOK, AuditTrail, Archived

\* What a handler's steps before its commit send.
LEMMA SessionSends ==
  ASSUME Safe, NEW h \in Handler, Step(h), ~Write(h)
  PROVE  FilesSentAsGranted'
<1>1. issued' = issued
  BY SessionStep DEF Safe
<1>2. CASE sent' = sent
  BY <1>1, <1>2 DEF Safe, FilesSentAsGranted
<1>3. CASE StoreContent(h) /\ SendFile(h) /\ request[h].content \in base[h].documents
  <2>1. base[h] # NoDocument
    BY <1>3 DEF StoreContent, Working, Idle, Safe, Inv, SessionOK
  <2>2. base[h] \in issued
    BY <2>1 DEF Safe, Inv, SessionOK
  <2>3. sent' = sent \union {<<request[h].content, base[h].visibility>>}
    BY <1>3 DEF SendFile
  <2> QED BY <1>1, <1>3, <2>2, <2>3 DEF Safe, FilesSentAsGranted
<1>4. sent' = sent \/ (StoreContent(h) /\ SendFile(h)
                        /\ request[h].content \in base[h].documents)
  BY DEF Step, BeginPut, BeginUpload, BeginEncrypted, StoreContent, StoreEncrypted,
         BeginAccept, RejectProposal, SelectRoot, BeginTransition, Abort
<1> QED BY <1>2, <1>3, <1>4

\* Every step keeps it.
LEMMA SafeStep == Safe /\ [Next]_vars => Safe'
<1> SUFFICES ASSUME Safe, [Next]_vars PROVE Safe'
  OBVIOUS
<1>1. Inv'
  BY NextStep DEF Safe
<1>2. ASSUME NEW visibility \in Visibility, NEW documents \in SUBSET Content,
             Create(visibility, documents)
      PROVE  RequestOK' /\ IssuedOK' /\ AuditTrail' /\ FilesSentAsGranted'
  <2> DEFINE doc == [stamp |-> clock + 1, version |-> 1, relationships |-> {},
                     documents |-> documents, visibility |-> visibility]
  <2>1. /\ issued' = issued \union {doc} /\ listed' = listed \union documents
        /\ UNCHANGED <<history, files, sealed, sent, request, base>>
    BY <1>2 DEF Create, Store
  <2>2. doc.version = 1 /\ doc.documents = documents /\ doc.relationships = {}
    OBVIOUS
  <2>3. Sound({})
    BY DEF Sound
  <2> HIDE DEF doc
  <2>4. IssuedOK'
    BY <2>1, <2>2, <2>3 DEF Safe, IssuedOK, Stored
  <2>5. AuditTrail'
    BY <2>1, <2>2 DEF Safe, AuditTrail, Archived
  <2>6. RequestOK' /\ FilesSentAsGranted'
    BY <2>1 DEF Safe, RequestOK, FilesSentAsGranted, Stored
  <2> QED BY <2>4, <2>5, <2>6
<1>3. ASSUME NEW h \in Handler, Write(h)
      PROVE  RequestOK' /\ IssuedOK' /\ AuditTrail' /\ FilesSentAsGranted'
  BY <1>3, WriteKeepsIssued, WriteKeepsDuties
<1>4. ASSUME NEW h \in Handler, Step(h), ~Write(h)
      PROVE  RequestOK' /\ IssuedOK' /\ AuditTrail' /\ FilesSentAsGranted'
  <2>1. UNCHANGED <<history, issued>>
    BY <1>4, SessionStep DEF Safe
  <2> QED BY <1>4, <2>1, SessionKeepsDuties, SessionSends, IssuedUnchanged
<1>5. ASSUME OtherStep
      PROVE  RequestOK' /\ IssuedOK' /\ AuditTrail' /\ FilesSentAsGranted'
  <2>1. /\ UNCHANGED <<history, issued, listed>> /\ Stored \subseteq Stored'
        /\ sent' = sent
    BY <1>5 DEF OtherStep, ReceiveReplica, Crash, vars, Stored
  <2>2. IssuedOK' /\ AuditTrail' /\ FilesSentAsGranted'
    BY <2>1, IssuedUnchanged DEF Safe, FilesSentAsGranted
  <2>3. ASSUME UNCHANGED <<request, base>> PROVE RequestOK'
    <3>1. \A h \in Handler : Duty(request[h], base[h], Stored')
      BY <2>1, DutyGrows DEF Safe, RequestOK
    <3> QED BY <2>3, <3>1 DEF RequestOK
  <2>4. ASSUME Crash PROVE RequestOK'
    <3>1. \A h \in Handler : request'[h] = NoRequest /\ base'[h] = NoDocument
      BY <2>4 DEF Crash
    <3> QED BY <3>1 DEF RequestOK, Duty
  <2>5. UNCHANGED <<request, base>> \/ Crash
    BY <1>5 DEF OtherStep, ReceiveReplica, vars
  <2> QED BY <2>2, <2>3, <2>4, <2>5
<1> QED BY <1>1, <1>2, <1>3, <1>4, <1>5 DEF Next, OtherStep, Safe

\* So it holds always.
LEMMA AlwaysSafe == Spec => []Safe
BY SafeInit, SafeStep, PTL DEF Spec

-----------------------------------------------------------------------------
(* While no version number is used twice. *)

\* doc still has relationship e, with its events and perhaps more.
Carried(doc, e) ==
  \E f \in doc.relationships : f.id = e.id /\ IsPrefix(e.events, f.events)

\* The row has the last version, no version before it was skipped, and it
\* carries what was ever signed.
Chain ==
  Versions!Forkless =>
    \A doc \in issued :
      /\ doc.version <= row.version
      /\ doc.version < row.version => \E next \in issued : next.version = doc.version + 1
      /\ \A e \in doc.relationships : Carried(row, e)

\* A write takes nothing from the document it was derived from.
LEMMA DerivedCarries ==
  ASSUME NEW prior \in Document, NEW doc \in Document, DerivedFrom(prior, doc),
         NEW e \in prior.relationships
  PROVE  Carried(doc, e)
<1>1. e \in Edge /\ e.events \in Seq(State \X State)
  BY DEF Document, Edge, Events
<1>2. IsPrefix(e.events, e.events)
  BY <1>1, PrefixIs
<1>3. CASE e \in doc.relationships
  BY <1>2, <1>3 DEF Carried
<1>4. CASE e \notin doc.relationships
  <2>1. PICK to \in State : Transitioned(e, to) \in doc.relationships
    BY <1>4 DEF DerivedFrom, Allowed, State
  <2>2. /\ Transitioned(e, to).id = e.id
        /\ Transitioned(e, to).events = Append(e.events, <<e.state, to>>)
    BY <1>1 DEF Transitioned, Edge
  <2>3. <<e.state, to>> \in State \X State
    BY <1>1 DEF Edge
  <2>4. IsPrefix(e.events, Append(e.events, <<e.state, to>>))
    <3> DEFINE longer == Append(e.events, <<e.state, to>>)
    <3>1. /\ longer \in Seq(State \X State) /\ Len(e.events) <= Len(longer)
          /\ \A i \in 1..Len(e.events) : e.events[i] = longer[i]
      BY <1>1, <2>3
    <3> HIDE DEF longer
    <3>2. IsPrefix(e.events, longer)
      BY <1>1, <3>1, PrefixIs
    <3> QED BY <3>2 DEF longer
  <2> QED BY <2>1, <2>2, <2>4 DEF Carried
<1> QED BY <1>3, <1>4

\* What a document carries, one derived from it carries.
LEMMA CarriedOn ==
  ASSUME NEW prior \in Document, NEW doc \in Document, DerivedFrom(prior, doc),
         NEW e \in Edge, Carried(prior, e)
  PROVE  Carried(doc, e)
<1>1. PICK f \in prior.relationships : f.id = e.id /\ IsPrefix(e.events, f.events)
  BY DEF Carried
<1>2. PICK g \in doc.relationships : g.id = f.id /\ IsPrefix(f.events, g.events)
  BY DerivedCarries DEF Carried
<1>3. /\ e.events \in Seq(State \X State) /\ f.events \in Seq(State \X State)
      /\ g.events \in Seq(State \X State)
  BY DEF Document, Edge, Events
<1>4. /\ Len(e.events) <= Len(f.events) /\ Len(f.events) <= Len(g.events)
      /\ \A i \in 1..Len(e.events) : e.events[i] = f.events[i]
      /\ \A i \in 1..Len(f.events) : f.events[i] = g.events[i]
  BY <1>1, <1>2, <1>3, PrefixIs
<1>5. Len(e.events) \in Nat /\ Len(f.events) \in Nat /\ Len(g.events) \in Nat
  BY <1>3
<1>6. IsPrefix(e.events, g.events)
  <2>1. Len(e.events) <= Len(g.events)
    BY <1>4, <1>5
  <2>2. \A i \in 1..Len(e.events) : e.events[i] = g.events[i]
    <3>1. \A i \in 1..Len(e.events) : i \in 1..Len(f.events)
      BY <1>4, <1>5
    <3> QED BY <1>4, <3>1
  <2> QED BY <1>3, <2>1, <2>2, PrefixIs
<1> QED BY <1>1, <1>2, <1>6 DEF Carried

\* If no version number is used twice even by this write, it starts from the row:
\* any other document it could start from has a successor already.
LEMMA WriteFromRow ==
  ASSUME Inv, Chain, NEW h \in Handler, base[h] # NoDocument, NEW doc \in Document,
         doc.stamp = clock + 1, doc.version = base[h].version + 1, Replace(h, doc),
         Versions!Forkless'
  PROVE  Versions!Forkless /\ base[h] = row /\ row \in issued
<1>1. issued' = issued \union {doc} /\ clock \in Nat
  BY BoundsAssumption DEF Replace, Store, Inv, TypeOK
<1>2. Versions!Forkless
  BY <1>1 DEF Versions!Forkless
<1>3. base[h] \in issued /\ base[h] \in Document
  BY DEF Inv, SessionOK, TypeOK
<1>4. row \in issued /\ row \in Document
  BY <1>3 DEF Inv, StoreOK, TypeOK
<1>5. ASSUME base[h] # row PROVE FALSE
  <2>1. base[h].version # row.version /\ base[h].version <= row.version
    BY <1>2, <1>3, <1>4, <1>5 DEF Versions!Forkless, Chain
  <2>2. base[h].version < row.version
    BY <1>3, <1>4, <2>1 DEF Document
  <2>3. PICK next \in issued : next.version = base[h].version + 1
    BY <1>2, <1>3, <2>2 DEF Chain
  <2>4. next = doc
    BY <1>1, <2>3 DEF Versions!Forkless
  <2>5. doc.stamp <= clock
    BY <2>3, <2>4 DEF Inv, StoreOK
  <2> QED BY <1>1, <2>5
<1> QED BY <1>2, <1>4, <1>5

\* A write keeps the chain.
LEMMA WriteKeepsChain ==
  ASSUME Safe, Chain, NEW h \in Handler, Write(h)
  PROVE  Chain'
<1>1. PICK doc \in Document :
        /\ doc.stamp = clock + 1 /\ doc.version = base[h].version + 1 /\ Replace(h, doc)
        /\ DerivedFrom(base[h], doc) /\ base[h] # NoDocument
  <2>1. PICK doc \in Document :
          doc.stamp = clock + 1 /\ doc.version = base[h].version + 1 /\ Replace(h, doc)
    BY WriteReplaces DEF Safe
  <2>2. PICK new \in Document : Replace(h, new) /\ DerivedFrom(base[h], new)
    BY WriteSigns
  <2>3. doc = new
    BY <2>1, <2>2 DEF Replace, Store
  <2> QED BY <2>1, <2>2, <2>3, WriteReplaces DEF Safe
<1>2. issued' = issued \union {doc} /\ row' = doc
  BY <1>1 DEF Replace, Store
<1> SUFFICES ASSUME Versions!Forkless', NEW old \in issued'
             PROVE  /\ old.version <= row'.version
                    /\ old.version < row'.version =>
                         \E next \in issued' : next.version = old.version + 1
                    /\ \A e \in old.relationships : Carried(row', e)
  BY DEF Chain, Carried
<1>3. Versions!Forkless /\ base[h] = row /\ row \in issued /\ row \in Document
  <2>1. Versions!Forkless /\ base[h] = row /\ row \in issued
    BY <1>1, WriteFromRow DEF Safe
  <2> QED BY <2>1 DEF Safe, Inv, TypeOK
<1>4. CASE old = doc
  <2>1. \A e \in doc.relationships : e.events \in Seq(State \X State)
    BY DEF Document, Edge, Events
  <2>2. \A e \in doc.relationships : IsPrefix(e.events, e.events)
    BY <2>1, PrefixIs
  <2> QED BY <1>2, <1>4, <2>2 DEF Carried, Document
<1>5. CASE old \in issued
  <2>1. old \in Document
    BY <1>5 DEF Safe, Inv, TypeOK
  <2>2. /\ old.version <= row.version
        /\ old.version < row.version => \E next \in issued : next.version = old.version + 1
        /\ \A e \in old.relationships : Carried(row, e)
    BY <1>3, <1>5 DEF Chain
  <2>3. old.version \in Nat /\ row.version \in Nat /\ row'.version = row.version + 1
    BY <1>1, <1>2, <1>3, <2>1 DEF Document
  <2>4. old.version <= row'.version
    BY <2>2, <2>3
  <2>5. \E next \in issued' : next.version = old.version + 1
    <3>1. CASE old.version < row.version
      BY <1>2, <2>2, <3>1
    <3>2. CASE old.version = row.version
      BY <1>1, <1>2, <1>3, <3>2
    <3> QED BY <2>2, <2>3, <3>1, <3>2
  <2>6. ASSUME NEW e \in old.relationships PROVE Carried(doc, e)
    <3>1. e \in Edge /\ Carried(row, e)
      BY <2>1, <2>2 DEF Document
    <3> QED BY <1>1, <1>3, <3>1, CarriedOn
  <2> QED BY <1>2, <2>4, <2>5, <2>6
<1> QED BY <1>2, <1>4, <1>5

\* Every step keeps it.
LEMMA ChainStep == Safe /\ Chain /\ [Next]_vars => Chain'
<1> SUFFICES ASSUME Safe, Chain, [Next]_vars PROVE Chain'
  OBVIOUS
<1>1. ASSUME NEW visibility \in Visibility, NEW documents \in SUBSET Content,
             Create(visibility, documents)
      PROVE  Chain'
  <2>1. issued = {} /\ issued' = {row'}
    BY <1>1 DEF Create, Store, Safe, Inv, StoreOK
  <2>2. row'.version = 1 /\ row'.relationships = {}
    BY <1>1 DEF Create, Store
  <2> QED BY <2>1, <2>2 DEF Chain
<1>2. ASSUME NEW h \in Handler, Write(h) PROVE Chain'
  BY <1>2, WriteKeepsChain
<1>3. ASSUME UNCHANGED <<row, issued>> PROVE Chain'
  BY <1>3 DEF Chain, Versions!Forkless, Carried
<1>4. ASSUME NEW h \in Handler, Step(h), ~Write(h) PROVE Chain'
  BY <1>3, <1>4, SessionStep DEF Safe
<1>5. ASSUME OtherStep PROVE Chain'
  BY <1>3, <1>5, OtherSteps DEF Safe
<1> QED BY <1>1, <1>2, <1>4, <1>5 DEF Next, OtherStep

-----------------------------------------------------------------------------
\* Every document ever signed is the first version or one legal step away from
\* a document in the history.
THEOREM AuditTrailComplete == Spec => []AuditTrail
<1>1. Safe => AuditTrail
  BY DEF Safe
<1> QED BY AlwaysSafe, <1>1, PTL

\* No relationship id occurs twice in a signed document.
THEOREM AcceptedAtMostOnce == Spec => []AcceptedOnce
<1>1. Safe => AcceptedOnce
  BY DEF Safe, IssuedOK, Sound, AcceptedOnce
<1> QED BY AlwaysSafe, <1>1, PTL

\* The events of every relationship ever signed are those its proposer asserted
\* and a path of allowed transitions from its acceptance to its state.
THEOREM LifecycleIsLegal == Spec => []LegalLifecycle
<1>1. Safe => LegalLifecycle
  BY DEF Safe, IssuedOK, Sound, Legal, LegalLifecycle
<1> QED BY AlwaysSafe, <1>1, PTL

\* Every document a signed record refers to was stored before, plain or encrypted,
\* or its digest was listed by a client.
THEOREM ReferencesAreStored == Spec => []DocumentsAreStored
<1>1. Safe => DocumentsAreStored
  BY DEF Safe, IssuedOK, DocumentsAreStored, Stored
<1> QED BY AlwaysSafe, <1>1, PTL

\* A file is sent only by the policy of a signed document that refers to it.
THEOREM FilesGoAsGranted == Spec => []FilesSentAsGranted
<1>1. Safe => FilesSentAsGranted
  BY DEF Safe
<1> QED BY AlwaysSafe, <1>1, PTL

\* While no version number is used twice, no write takes back what another
\* decided, though no handler compares the row it read with the current one.
THEOREM ConsentIsKept == Spec => []ConsentKeptWithoutFork
<1>1. Init => Chain
  BY DEF Init, Chain
<1>2. Chain => ConsentKeptWithoutFork
  BY DEF Chain, Carried, ConsentKeptWithoutFork
<1> QED BY AlwaysSafe, ChainStep, <1>1, <1>2, PTL DEF Spec

=============================================================================
