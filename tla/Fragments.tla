------------------------------ MODULE Fragments ------------------------------
(***************************************************************************)
(* Encrypted documents: the upload at an authority, the push of fragments  *)
(* and key shares to the nodes that store them, and what removes them.     *)
(*                                                                         *)
(* An upload encrypts under a fresh key, but its directory is named by the *)
(* digest of the plain content, on every node.  So the uploads of one      *)
(* content, by one node or by several, share a directory, and each write   *)
(* of a fragment or a manifest overwrites what another upload left there.  *)
(* The fragments of an upload are pushed one after the other.  A receiver  *)
(* compares the capacity with the bytes of all files it has and those of   *)
(* the fragment, fetches the descriptor of the sender, and writes after    *)
(* that: the fragment, and a manifest and a share that no one compared.    *)
(***************************************************************************)
EXTENDS Integers, Sequences, SequencesExt, FiniteSets, FiniteSetsExt

CONSTANTS
  Node,       \* the nodes
  Uploader,   \* the nodes that are authorities of records
  Content,    \* plain contents, named by their digests
  Upload,     \* uploads, each with a key of its own
  Layout,     \* [fragments, shares, threshold] of an upload, and the bytes
              \* of each fragment (size), of the manifest and of a share
  Capacity,   \* ENCRYPTED_STORAGE_CAPACITY_BYTES of each node; 0 is no limit
  OptIn,      \* the nodes started with ENCRYPTED_STORAGE_OPT_IN
  None        \* not there

ASSUME FragmentsAssumption ==
  /\ Uploader \subseteq Node /\ OptIn \subseteq Node
  /\ \A layout \in Layout :
       /\ layout \in [fragments: Nat \ {0}, shares: Nat \ {0}, threshold: Nat \ {0},
                     size: [0..(layout.fragments - 1) -> Nat], manifest: Nat, share: Nat]
       /\ layout.threshold <= layout.shares
  /\ Capacity \in [Node -> Nat]
  /\ IsFiniteSet(Node)

\* An upload, once there is one, and its task: see push below.
UploadRecord == [origin: Uploader, content: Content, layout: Layout]

PushTask ==
  [pc: {"created"}]
    \union [pc: {"ready", "waiting"}, manifest: Upload, peers: Seq(Node), next: Nat,
            accepted: BOOLEAN]

ASSUME AbsenceAssumption ==
  None \notin Upload /\ None \notin UploadRecord /\ None \notin PushTask

VARIABLES
  upload,     \* per upload: [origin, content, layout]
  expired,    \* the uploads whose retention has ended
  store,      \* per node and content, the directory: [manifest, bins, shares]
  optedIn,    \* the nodes that store fragments for others at the moment
  push,       \* per upload, its task: [pc, manifest, peers, next, accepted]
  inbox,      \* POSTs under way: [upload, index, to, manifest, pc]
  placed,     \* the uploads all of whose fragments were accepted
  removed     \* the nodes and contents whose directory was ever removed

vars == <<upload, expired, store, optedIn, push, inbox, placed, removed>>

-----------------------------------------------------------------------------
\* A directory that is not there.
Absent == [manifest |-> None, bins |-> << >>, shares |-> << >>]

Started(u) == upload[u] # None

Fragment(u) == 0..(upload[u].layout.fragments - 1)

\* A table with one entry inserted or overwritten.
With(entries, key, entry) ==
  [k \in DOMAIN entries \union {key} |-> IF k = key THEN entry ELSE entries[k]]

Init ==
  /\ upload = [u \in Upload |-> None]
  /\ expired = {}
  /\ store = [n \in Node |-> [c \in Content |-> Absent]]
  /\ optedIn = OptIn
  /\ push = [u \in Upload |-> None]
  /\ inbox = {}
  /\ placed = {}
  /\ removed = {}

-----------------------------------------------------------------------------
(* upload_encrypted_document *)

Fresh(u, origin, content, layout) ==
  /\ ~Started(u)
  /\ upload' = [upload EXCEPT ![u] = [origin |-> origin, content |-> content,
                                      layout |-> layout]]

\* A wrong CrashInBegin: the manifest is written before the fragments.
ManifestThenCrash(u, origin, content, layout, count) ==
  /\ Fresh(u, origin, content, layout)
  /\ count <= layout.fragments
  /\ store' = [store EXCEPT ![origin][content].manifest = u]
  /\ UNCHANGED <<expired, optedIn, push, inbox, placed, removed>>

\* The first count fragments of u are in the directory.
Written(directory, u, count) ==
  [directory EXCEPT !.bins =
     [i \in DOMAIN @ \union 0..(count - 1) |-> IF i < count THEN u ELSE @[i]]]

\* All fragments and then the manifest are written.  What the node does next,
\* update the record (a write of RecordStore) and create the push task, reads
\* and writes nothing here.
Begin(u, origin, content, layout) ==
  /\ Fresh(u, origin, content, layout)
  /\ store' = [store EXCEPT ![origin][content] =
                 [Written(@, u, layout.fragments) EXCEPT !.manifest = u]]
  /\ push' = [push EXCEPT ![u] = [pc |-> "created"]]
  /\ UNCHANGED <<expired, optedIn, inbox, placed, removed>>

(* _push_encrypted_fragments *)

\* The task ends: all fragments were sent, nobody stores fragments, the
\* manifest is not there any more, or a POST is without an answer; an upload
\* whose record cannot be written ends without a task.  Refusals end nothing.
EndPush(u) ==
  /\ push[u] # None
  /\ push' = [push EXCEPT ![u] = None]
  /\ placed' = IF /\ push[u].pc = "ready" /\ push[u].accepted
                  /\ push[u].next = upload[u].layout.fragments
                 THEN placed \union {u} ELSE placed
  /\ UNCHANGED <<upload, expired, store, optedIn, inbox, removed>>

\* The manifest is read from the directory, where that of a later upload may
\* be by now, and the alive peers are asked whether they store fragments.
Discover(u, peers) ==
  LET manifest == store[upload[u].origin][upload[u].content].manifest
  IN  /\ push[u] # None /\ push[u].pc = "created"
      /\ manifest # None
      /\ push' = [push EXCEPT ![u] =
           [pc |-> "ready", manifest |-> manifest, peers |-> peers, next |-> 0,
            accepted |-> TRUE]]
      /\ UNCHANGED <<upload, expired, store, optedIn, inbox, placed, removed>>

\* The peers in the order of the gossip table, those that answer.  The node
\* itself can be among them, as Gossip shows.
PeerOrders == UNION {SetToSeqs(peers) : peers \in (SUBSET optedIn) \ {{}}}

\* Two wrong Posts: the fragment is the one on disk, the share is always the
\* first one of its peer.
PostFromDisk(u) ==
  LET i == push[u].next
      directory == store[upload[u].origin][upload[u].content]
  IN  /\ push[u] # None /\ push[u].pc = "ready"
      /\ i \in Fragment(u) /\ i \in DOMAIN directory.bins
      /\ inbox' = inbox \union
           {[upload |-> directory.bins[i], index |-> i,
             to |-> push[u].peers[(i % Len(push[u].peers)) + 1],
             share |-> i % upload[u].layout.shares,
             manifest |-> push[u].manifest, pc |-> "sent"]}
      /\ push' = [push EXCEPT ![u].pc = "waiting"]
      /\ UNCHANGED <<upload, expired, store, optedIn, placed, removed>>

PostSharePerPeer(u) ==
  LET i == push[u].next
  IN  /\ push[u] # None /\ push[u].pc = "ready"
      /\ i \in Fragment(u)
      /\ inbox' = inbox \union
           {[upload |-> u, index |-> i,
             to |-> push[u].peers[(i % Len(push[u].peers)) + 1],
             share |-> (i % Len(push[u].peers)) % upload[u].layout.shares,
             manifest |-> push[u].manifest, pc |-> "sent"]}
      /\ push' = [push EXCEPT ![u].pc = "waiting"]
      /\ UNCHANGED <<upload, expired, store, optedIn, placed, removed>>

\* The next fragment is sent to the next peer in turn, with a share in turn.
Post(u) ==
  LET i == push[u].next
  IN  /\ push[u] # None /\ push[u].pc = "ready"
      /\ i \in Fragment(u)
      /\ inbox' = inbox \union
           {[upload |-> u, index |-> i,
             to |-> push[u].peers[(i % Len(push[u].peers)) + 1],
             share |-> i % upload[u].layout.shares,
             manifest |-> push[u].manifest, pc |-> "sent"]}
      /\ push' = [push EXCEPT ![u].pc = "waiting"]
      /\ UNCHANGED <<upload, expired, store, optedIn, placed, removed>>

-----------------------------------------------------------------------------
(* receive_encrypted_fragment *)

\* The POST is answered, if its sender still waits.
Answered(msg, accepted) ==
  /\ inbox' = inbox \ {msg}
  /\ push' = IF push[msg.upload] # None /\ push[msg.upload].pc = "waiting"
               THEN [push EXCEPT ![msg.upload] =
                 [pc |-> "ready", manifest |-> @.manifest, peers |-> @.peers,
                  next |-> @.next + 1, accepted |-> @.accepted /\ accepted]]
               ELSE push

\* The bytes of one file, told apart by their place.
File(c, kind, index, bytes) == {<<c, kind, index>>} \X (1..bytes)

\* Those of the files in a directory of content c.
BytesIn(c, directory) ==
  (UNION {File(c, "fragment", i, upload[directory.bins[i]].layout.size[i]) :
            i \in DOMAIN directory.bins})
    \union (UNION {File(c, "share", i, upload[directory.shares[i].upload].layout.share) :
                     i \in DOMAIN directory.shares})
    \union (IF directory.manifest = None THEN {}
            ELSE File(c, "manifest", 0, upload[directory.manifest].layout.manifest))

\* What all files of a node occupy.
Used(n) == Cardinality(UNION {BytesIn(c, store[n][c]) : c \in Content})

\* A wrong Admit: the first fragment of an upload makes room for the others.
AdmitTheRest(msg) ==
  /\ msg.pc = "sent"
  /\ msg.to \in optedIn
  /\ \/ Capacity[msg.to] = 0 \/ msg.index > 0
     \/ Used(msg.to) + upload[msg.upload].layout.size[msg.index] <= Capacity[msg.to]
  /\ msg.index \in Fragment(msg.manifest)
  /\ msg.manifest \notin expired
  /\ inbox' = (inbox \ {msg}) \union {[msg EXCEPT !.pc = "admitted"]}
  /\ UNCHANGED <<upload, expired, store, optedIn, push, placed, removed>>

\* The checks before the sender's descriptor is fetched.
Admit(msg) ==
  /\ msg.pc = "sent"
  /\ msg.to \in optedIn
  /\ \/ Capacity[msg.to] = 0
     \/ Used(msg.to) + upload[msg.upload].layout.size[msg.index] <= Capacity[msg.to]
  /\ msg.index \in Fragment(msg.manifest)
  /\ msg.manifest \notin expired
  /\ inbox' = (inbox \ {msg}) \union {[msg EXCEPT !.pc = "admitted"]}
  /\ UNCHANGED <<upload, expired, store, optedIn, push, placed, removed>>

\* A check fails, the signature cannot be verified, or the handler fails.
Refuse(msg) ==
  /\ Answered(msg, FALSE)
  /\ UNCHANGED <<upload, expired, store, optedIn, placed, removed>>

\* The directory with the fragment, and with the manifest, and with the share.
WithBin(directory, msg) ==
  [directory EXCEPT !.bins = With(@, msg.index, msg.upload)]

WithManifest(directory, msg) ==
  [WithBin(directory, msg) EXCEPT !.manifest = msg.manifest]

WithShare(directory, msg) ==
  [WithManifest(directory, msg) EXCEPT
     !.shares = With(@, msg.index, [upload |-> msg.upload, id |-> msg.share])]

\* The signature has been verified: everything is written.
StoreFragment(msg) ==
  /\ msg.pc = "admitted"
  /\ store' = [store EXCEPT ![msg.to][upload[msg.upload].content] = WithShare(@, msg)]
  /\ Answered(msg, TRUE)
  /\ UNCHANGED <<upload, expired, optedIn, placed, removed>>

-----------------------------------------------------------------------------
(* Removal *)

\* The retention asked for at the upload ends; that of an upload without
\* retention never does.
Expire(u) ==
  /\ Started(u) /\ u \notin expired
  /\ expired' = expired \union {u}
  /\ UNCHANGED <<upload, store, optedIn, push, inbox, placed, removed>>

\* cleanup_expired_encrypted_documents: every directory whose manifest says so.
Cleanup(n) ==
  LET old == {c \in Content : store[n][c].manifest \in expired}
  IN  /\ old # {}
      /\ store' = [store EXCEPT ![n] =
                     [c \in Content |-> IF c \in old THEN Absent ELSE @[c]]]
      /\ removed' = removed \union ({n} \X old)
      /\ UNCHANGED <<upload, expired, optedIn, push, inbox, placed>>

\* revoke_encrypted_document: any authority's signature over the digest.
Revoke(n, c) ==
  /\ store[n][c] # Absent
  /\ store' = [store EXCEPT ![n][c] = Absent]
  /\ removed' = removed \union {<<n, c>>}
  /\ UNCHANGED <<upload, expired, optedIn, push, inbox, placed>>

\* toggle_storage_opt_in
Toggle(n) ==
  /\ optedIn' = SymDiff(optedIn, {n})
  /\ UNCHANGED <<upload, expired, store, push, inbox, placed, removed>>

-----------------------------------------------------------------------------
(* Crashes *)

\* The process of node n dies: its tasks and handlers are gone, the senders
\* that wait for it see their connections end, and it restarts as configured.
Dies(n) ==
  /\ push' = [u \in Upload |->
       IF \/ push[u] # None /\ upload[u].origin = n
          \/ \E msg \in inbox : msg.upload = u /\ msg.to = n
         THEN None ELSE push[u]]
  /\ inbox' = {msg \in inbox : msg.to # n}
  /\ optedIn' = IF n \in OptIn THEN optedIn \union {n} ELSE optedIn \ {n}

Crash(n) ==
  /\ Dies(n)
  /\ UNCHANGED <<upload, expired, store, placed, removed>>

\* The uploading node dies after count fragments and before the manifest.
CrashInBegin(u, origin, content, layout, count) ==
  /\ Fresh(u, origin, content, layout)
  /\ count <= layout.fragments
  /\ store' = [store EXCEPT ![origin][content] = Written(@, u, count)]
  /\ Dies(origin)
  /\ UNCHANGED <<expired, placed, removed>>

\* The receiving node dies before it has written the manifest, or the share.
CrashInStore(msg) ==
  /\ msg.pc = "admitted"
  /\ \E directory \in {WithBin(store[msg.to][upload[msg.upload].content], msg),
                        WithManifest(store[msg.to][upload[msg.upload].content], msg)} :
       store' = [store EXCEPT ![msg.to][upload[msg.upload].content] = directory]
  /\ Dies(msg.to)
  /\ UNCHANGED <<upload, expired, placed, removed>>

-----------------------------------------------------------------------------
Next ==
  \/ \E u \in Upload, origin \in Uploader, content \in Content, layout \in Layout :
       \/ Begin(u, origin, content, layout)
       \/ \E count \in 1..layout.fragments :
            CrashInBegin(u, origin, content, layout, count)
  \/ \E u \in Upload :
       \/ \E peers \in PeerOrders : Discover(u, peers)
       \/ Post(u)
       \/ EndPush(u)
       \/ Expire(u)
  \/ \E msg \in inbox : Admit(msg) \/ Refuse(msg) \/ StoreFragment(msg) \/ CrashInStore(msg)
  \/ \E n \in Node :
       \/ Cleanup(n)
       \/ \E c \in Content : Revoke(n, c)
       \/ Toggle(n)
       \/ Crash(n)

Spec == Init /\ [][Next]_vars
-----------------------------------------------------------------------------
(* What a reader gets *)

\* get_encrypted_document on node n, with the key of upload u: the fragments
\* the manifest lists are there, have its digests, and decrypt.
Decrypts(n, c, u) ==
  /\ store[n][c].manifest = u /\ u # None
  /\ u \notin expired
  /\ \A i \in Fragment(u) :
       i \in DOMAIN store[n][c].bins /\ store[n][c].bins[i] = u

-----------------------------------------------------------------------------
(* Properties *)

\* Every variable has its type; directories and POSTs name uploads of their
\* content, and a task has at most one POST under way.
TypeOK ==
  /\ \A u \in Upload : Started(u) =>
       upload[u] \in UploadRecord
  /\ \A u \in expired : Started(u)
  /\ optedIn \subseteq Node /\ placed \subseteq Upload /\ removed \subseteq Node \X Content
  /\ \A n \in Node, c \in Content :
       LET held == {store[n][c].bins[i] : i \in DOMAIN store[n][c].bins}
                     \union {store[n][c].shares[i].upload : i \in DOMAIN store[n][c].shares}
                     \union ({store[n][c].manifest} \ {None})
       IN  \A u \in held : u \in Upload /\ Started(u) /\ upload[u].content = c
  /\ \A u \in Upload : push[u] # None =>
       /\ Started(u)
       /\ push[u].pc \in {"created", "ready", "waiting"}
       /\ push[u].pc \in {"ready", "waiting"} => push[u].next \in 0..Cardinality(Fragment(u))
  /\ \A msg \in inbox : msg.pc \in {"sent", "admitted"} /\ msg.to \in Node
  /\ \A m1, m2 \in inbox : m1.upload = m2.upload => m1 = m2

\* The only upload of its content.
OnlyUpload(u) ==
  /\ Started(u)
  /\ \A w \in Upload \ {u} : Started(w) => upload[w].content # upload[u].content

\* As long as a content has been encrypted once, no crash, late POST, removal
\* or change of mind leaves a directory that mixes keys; and where the upload
\* was made, a manifest means that all fragments are there, so that the key
\* the uploader was given decrypts until the retention ends.
WholeUnlessReuploaded ==
  \A u \in Upload : OnlyUpload(u) =>
    LET c == upload[u].content
        directory == store[upload[u].origin][c]
    IN  /\ \A n \in Node :
             /\ store[n][c].manifest \in {None, u}
             /\ \A i \in DOMAIN store[n][c].bins : store[n][c].bins[i] = u
        /\ \/ directory.manifest = None \/ u \in expired
           \/ <<upload[u].origin, c>> \in removed
           \/ Decrypts(upload[u].origin, c, u)

\* The fragments and the numbers of the key shares of u on the nodes that
\* store them for it.
FragmentsAtPeers(u) ==
  UNION {{i \in DOMAIN store[n][upload[u].content].shares :
            /\ store[n][upload[u].content].bins[i] = u
            /\ store[n][upload[u].content].shares[i].upload = u} : n \in Node}

SharesAtPeers(u) ==
  UNION {{store[n][upload[u].content].shares[i].id :
            i \in DOMAIN store[n][upload[u].content].shares} : n \in Node}

\* If every fragment of an upload was accepted, nothing removed and the content
\* not uploaded again, then the receivers together have all fragments, and
\* shares enough for the threshold if there are as many fragments.  With fewer
\* fragments than the threshold they cannot: each share travels with one.
PlacedMeansRecoverable ==
  \A u \in placed :
    OnlyUpload(u) /\ (\A n \in Node : <<n, upload[u].content>> \notin removed) =>
      /\ FragmentsAtPeers(u) = Fragment(u)
      /\ upload[u].layout.fragments >= upload[u].layout.threshold =>
           Cardinality(SharesAtPeers(u)) >= upload[u].layout.threshold

\* What one POST of each upload may write: its largest fragment, the manifest
\* it came with, which may be that of another upload, and a share; but not the
\* fragment of the upload last, for which there was room.
Beside(last) ==
  LET started == {u \in Upload : Started(u)}
  IN  (UNION {UNION {File(u, "fragment", 0, upload[u].layout.size[i]) :
                       i \in Fragment(u)} : u \in started \ {last}})
        \union (UNION {File(u, "manifest", 0, upload[w].layout.manifest) :
                         u, w \in started})
        \union (UNION {File(u, "share", 0, upload[u].layout.share) : u \in started})

\* The capacity is compared before an await and with the fragment alone, and
\* the files are written after it.  So a node that uploads nothing itself may
\* exceed it, but by no more bytes than one POST of each upload brings beside
\* the fragment that was compared last: the fragments of the others, and the
\* manifests and shares of all.
CapacityOvershoot ==
  \A n \in Node :
    /\ Capacity[n] # 0
    /\ \A u \in Upload : Started(u) => upload[u].origin # n
    => \/ Used(n) <= Capacity[n]
       \/ \E last \in Upload :
            Started(last) /\ Used(n) <= Capacity[n] + Cardinality(Beside(last))

\* Nothing of the upload is on its way any more.
Over(u) == Started(u) /\ push[u] = None /\ \A msg \in inbox : msg.upload # u

Holds(n, u) ==
  \E i \in DOMAIN store[n][upload[u].content].bins :
    store[n][upload[u].content].bins[i] = u

\* Once the push of an upload and its POSTs are over, a node from which its
\* fragments were revoked or cleaned up never has one again, whatever other
\* pushes of the same content are still under way; before that a late fragment
\* may be stored after the revocation, which leaves no trace.
RemovalIsFinal ==
  [][\A u \in Upload : Over(u) =>
       /\ Over(u)'
       /\ \A n \in Node : ~Holds(n, u) => ~Holds(n, u)']_vars

=============================================================================
