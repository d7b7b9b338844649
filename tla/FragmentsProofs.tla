--------------------------- MODULE FragmentsProofs ---------------------------
(***************************************************************************)
(* Proofs about Fragments.  As long as a content has been encrypted once,  *)
(* its directories hold one key and, at the origin, all of it; what every  *)
(* receiver accepted can be put together again; what is over leaves no     *)
(* late fragment; and a capacity is overshot by what came unreserved.      *)
(***************************************************************************)
EXTENDS Fragments, FiniteSetTheorems, TLAPS

-----------------------------------------------------------------------------
(* The inductive invariant *)

Table(entries) == UNION {[indices -> entries] : indices \in SUBSET Nat}

Share == [upload: Upload, id: Nat]

Directory ==
  [manifest: Upload \union {None}, bins: Table(Upload),
   shares: Table(Share)]

Message ==
  [upload: Upload, index: Nat, to: Node, share: Nat, manifest: Upload,
   pc: {"sent", "admitted"}]

Types ==
  /\ upload \in [Upload -> UploadRecord \union {None}]
  /\ expired \subseteq Upload
  /\ store \in [Node -> [Content -> Directory]]
  /\ optedIn \subseteq Node
  /\ push \in [Upload -> PushTask \union {None}]
  /\ inbox \subseteq Message
  /\ placed \subseteq Upload
  /\ removed \subseteq Node \X Content

\* u is an upload of c.
Of(u, c) == Started(u) /\ upload[u].content = c

\* Everything in a directory is of the directory's content, and a share came
\* with its fragment, numbered by it.
StoreOK(n, c) ==
  LET directory == store[n][c]
  IN  /\ directory.manifest # None => Of(directory.manifest, c)
      /\ \A i \in DOMAIN directory.bins : Of(directory.bins[i], c)
      /\ \A i \in DOMAIN directory.shares :
           LET share == directory.shares[i]
           IN  /\ i \in DOMAIN directory.bins
               /\ Of(share.upload, c)
               /\ i \in Fragment(share.upload)
               /\ share.id = i % upload[share.upload].layout.shares

\* A task pushes its upload, with the manifest of an upload of its content.
PushOK(u) ==
  push[u] # None =>
    /\ Started(u)
    /\ push[u].pc # "created" =>
         /\ Of(push[u].manifest, upload[u].content)
         /\ Len(push[u].peers) > 0
         /\ push[u].next <= upload[u].layout.fragments
         /\ push[u].pc = "waiting" => push[u].next < upload[u].layout.fragments

\* A POST carries what its sender, if that is alive, waits for.
MessageOK(msg) ==
  /\ Started(msg.upload)
  /\ Of(msg.manifest, upload[msg.upload].content)
  /\ msg.index \in Fragment(msg.upload)
  /\ msg.share = msg.index % upload[msg.upload].layout.shares
  /\ push[msg.upload] # None =>
       push[msg.upload].pc = "waiting" /\ push[msg.upload].next = msg.index

OnePost == \A m1, m2 \in inbox : m1.upload = m2.upload => m1 = m2

Coherent ==
  /\ Types
  /\ \A u \in expired : Started(u)
  /\ \A n \in Node, c \in Content : StoreOK(n, c)
  /\ \A u \in Upload : PushOK(u)
  /\ \A msg \in inbox : MessageOK(msg)
  /\ OnePost

Kept(n, c) == <<n, c>> \notin removed

Trace(u) ==
  \/ push[u] # None
  \/ \E msg \in inbox : msg.upload = u
  \/ store[upload[u].origin][upload[u].content].manifest # None

\* Where a content was encrypted once, a task, a POST or a manifest shows that
\* all fragments were written, and they are there unless they were removed.
WholeAtOrigin(u) ==
  OnlyUpload(u) /\ Kept(upload[u].origin, upload[u].content) /\ Trace(u) =>
    Fragment(u) \subseteq DOMAIN store[upload[u].origin][upload[u].content].bins

\* Fragment i of u was stored somewhere, with its share.
Accepted(u, i) == \E n \in Node : i \in DOMAIN store[n][upload[u].content].shares

\* What was accepted is there unless it was removed.
Pushed(u) ==
  IF push[u] # None /\ push[u].pc # "created" /\ push[u].accepted
    THEN 0..(push[u].next - 1) ELSE {}

AcceptedOK(u) ==
  /\ u \in placed => Started(u)
  /\ OnlyUpload(u) /\ (\A n \in Node : Kept(n, upload[u].content)) =>
       /\ u \in placed => \A i \in Fragment(u) : Accepted(u, i)
       /\ \A i \in Pushed(u) : Accepted(u, i)

StartedUploads == {u \in Upload : Started(u)}

\* The bytes that n has.
Bytes(n) == UNION {BytesIn(c, store[n][c]) : c \in Content}

\* The bytes that an admitted POST will write, told apart by its upload.
WillWrite(msg) ==
  File(msg.upload, "fragment", 0, upload[msg.upload].layout.size[msg.index])
    \union File(msg.upload, "manifest", 0, upload[msg.manifest].layout.manifest)
    \union File(msg.upload, "share", 0, upload[msg.upload].layout.share)

\* What n has admitted and not written yet.
Pending(n) ==
  UNION {WillWrite(msg) : msg \in {m \in inbox : m.to = n /\ m.pc = "admitted"}}

OnlyStores(n) == \A u \in Upload : Started(u) => upload[u].origin # n

Bounded(n, bytes) ==
  \/ bytes <= Capacity[n]
  \/ \E last \in StartedUploads : bytes <= Capacity[n] + Cardinality(Beside(last))

\* What is stored and what may still be written without another look at the
\* capacity exceed it by what comes beside the fragment admitted last at most.
RoomOK(n) ==
  OnlyStores(n) =>
    /\ IsFiniteSet(Bytes(n))
    /\ Capacity[n] # 0 => Bounded(n, Cardinality(Bytes(n)) + Cardinality(Pending(n)))

Inv ==
  /\ Coherent
  /\ \A u \in Upload : WholeAtOrigin(u) /\ AcceptedOK(u)
  /\ IsFiniteSet(StartedUploads)
  /\ \A n \in Node : RoomOK(n)

-----------------------------------------------------------------------------
(* Directories *)

\* A table is a function, and what is one is a table.
LEMMA TableIs ==
  ASSUME NEW entries
  PROVE  /\ \A t \in Table(entries) : /\ t = [i \in DOMAIN t |-> t[i]]
                                      /\ DOMAIN t \subseteq Nat
                                      /\ \A i \in DOMAIN t : t[i] \in entries
         /\ \A indices \in SUBSET Nat : \A t \in [indices -> entries] : t \in Table(entries)
BY DEF Table

\* An empty directory.
LEMMA AbsentIs ==
  /\ Absent \in Directory
  /\ Absent.manifest = None /\ DOMAIN Absent.bins = {} /\ DOMAIN Absent.shares = {}
<1>1. << >> \in [{} -> Upload] /\ << >> \in [{} -> Share]
  OBVIOUS
<1>2. << >> \in Table(Upload) /\ << >> \in Table(Share)
  BY <1>1, TableIs
<1> QED
  BY <1>2 DEF Absent, Directory

\* What a directory holds.
LEMMA DirectoryIs ==
  ASSUME NEW d \in Directory
  PROVE  /\ d.manifest # None => d.manifest \in Upload
         /\ DOMAIN d.bins \subseteq Nat /\ \A i \in DOMAIN d.bins : d.bins[i] \in Upload
         /\ DOMAIN d.shares \subseteq Nat
         /\ \A i \in DOMAIN d.shares : d.shares[i].upload \in Upload /\ d.shares[i].id \in Nat
<1>1. /\ d.manifest \in Upload \union {None}
      /\ d.bins \in Table(Upload) /\ d.shares \in Table(Share)
  BY DEF Directory
<1>2. DOMAIN d.bins \subseteq Nat /\ \A i \in DOMAIN d.bins : d.bins[i] \in Upload
  BY <1>1, TableIs
<1>3. DOMAIN d.shares \subseteq Nat /\ \A i \in DOMAIN d.shares : d.shares[i] \in Share
  BY <1>1, TableIs
<1> QED
  BY <1>1, <1>2, <1>3 DEF Share

\* The first count fragments of u, over what was there.
LEMMA WrittenIs ==
  ASSUME NEW d \in Directory, NEW u \in Upload, NEW count \in Nat
  PROVE  LET e == Written(d, u, count)
         IN  /\ e \in Directory
             /\ e.manifest = d.manifest /\ e.shares = d.shares
             /\ DOMAIN e.bins = DOMAIN d.bins \union 0..(count - 1)
             /\ \A i \in DOMAIN e.bins : e.bins[i] = u \/ (i \in DOMAIN d.bins /\ e.bins[i] = d.bins[i])
<1> DEFINE bins == [i \in DOMAIN d.bins \union 0..(count - 1) |-> IF i < count THEN u ELSE d.bins[i]]
<1>1. d.bins \in Table(Upload) /\ d.manifest \in Upload \union {None}
      /\ d.shares \in Table(Share)
      /\ d = [manifest |-> d.manifest, bins |-> d.bins, shares |-> d.shares]
  BY DEF Directory
<1>2. DOMAIN d.bins \subseteq Nat /\ \A i \in DOMAIN d.bins : d.bins[i] \in Upload
  BY <1>1, TableIs
<1>3. Written(d, u, count) = [manifest |-> d.manifest, bins |-> bins, shares |-> d.shares]
  BY <1>1 DEF Written
<1>4. ASSUME NEW i \in DOMAIN bins
      PROVE  bins[i] = u \/ (i \in DOMAIN d.bins /\ bins[i] = d.bins[i])
  BY <1>2
<1>5. bins \in Table(Upload)
  <2>1. DOMAIN bins \in SUBSET Nat /\ bins \in [DOMAIN bins -> Upload]
    BY <1>2
  <2> QED
    BY <2>1, TableIs
<1>6. DOMAIN bins = DOMAIN d.bins \union 0..(count - 1)
  OBVIOUS
<1> HIDE DEF bins
<1> QED
  BY <1>1, <1>3, <1>4, <1>5, <1>6 DEF Directory

\* A table with an entry.
LEMMA WithIs ==
  ASSUME NEW entries, NEW t \in Table(entries), NEW key \in Nat, NEW entry \in entries
  PROVE  With(t, key, entry) \in Table(entries)
<1>1. DOMAIN t \subseteq Nat /\ \A i \in DOMAIN t : t[i] \in entries
  BY TableIs
<1>2. DOMAIN With(t, key, entry) \in SUBSET Nat
      /\ With(t, key, entry) \in [DOMAIN With(t, key, entry) -> entries]
  BY <1>1 DEF With
<1> QED
  BY <1>2, TableIs

\* What a POST leaves in a directory, wherever the receiver stops.
LEMMA StoredIs ==
  ASSUME NEW d \in Directory, NEW msg \in Message,
         NEW e \in {WithBin(d, msg), WithManifest(d, msg), WithShare(d, msg)}
  PROVE  /\ e \in Directory
         /\ e.manifest = d.manifest \/ e.manifest = msg.manifest
         /\ DOMAIN e.bins = DOMAIN d.bins \union {msg.index}
         /\ e.bins[msg.index] = msg.upload
         /\ \A i \in DOMAIN d.bins : i # msg.index => e.bins[i] = d.bins[i]
         /\ \/ e.shares = d.shares /\ e # WithShare(d, msg)
            \/ /\ DOMAIN e.shares = DOMAIN d.shares \union {msg.index}
               /\ e.shares[msg.index] = [upload |-> msg.upload, id |-> msg.share]
               /\ \A i \in DOMAIN d.shares : i # msg.index => e.shares[i] = d.shares[i]
<1> DEFINE share == [upload |-> msg.upload, id |-> msg.share]
           bins == With(d.bins, msg.index, msg.upload)
           shares == With(d.shares, msg.index, share)
<1>1. d.bins \in Table(Upload) /\ d.manifest \in Upload \union {None}
      /\ d.shares \in Table(Share)
      /\ d = [manifest |-> d.manifest, bins |-> d.bins, shares |-> d.shares]
  BY DEF Directory
<1>2. msg.index \in Nat /\ msg.upload \in Upload /\ msg.manifest \in Upload
      /\ share \in Share
  BY DEF Message, Share
<1>3. WithBin(d, msg) = [manifest |-> d.manifest, bins |-> bins, shares |-> d.shares]
  BY <1>1 DEF WithBin
<1>4. WithManifest(d, msg) = [manifest |-> msg.manifest, bins |-> bins, shares |-> d.shares]
  BY <1>3 DEF WithManifest
<1>5. WithShare(d, msg) = [manifest |-> msg.manifest, bins |-> bins, shares |-> shares]
  BY <1>4 DEF WithShare
<1>6. /\ bins \in Table(Upload) /\ DOMAIN bins = DOMAIN d.bins \union {msg.index}
      /\ bins[msg.index] = msg.upload
      /\ \A i \in DOMAIN d.bins : i # msg.index => bins[i] = d.bins[i]
  <2>1. PICK t \in Table(Upload), key \in Nat, entry \in Upload :
          t = d.bins /\ key = msg.index /\ entry = msg.upload
    BY <1>1, <1>2
  <2>2. With(t, key, entry) \in Table(Upload)
    BY WithIs
  <2>3. /\ DOMAIN With(t, key, entry) = DOMAIN t \union {key}
        /\ With(t, key, entry)[key] = entry
        /\ \A i \in DOMAIN t : i # key => With(t, key, entry)[i] = t[i]
    BY DEF With
  <2> QED
    BY <2>1, <2>2, <2>3
<1>7. /\ shares \in Table(Share)
      /\ DOMAIN shares = DOMAIN d.shares \union {msg.index}
      /\ shares[msg.index] = share
      /\ \A i \in DOMAIN d.shares : i # msg.index => shares[i] = d.shares[i]
  <2> HIDE DEF share
  <2>1. PICK t \in Table(Share), key \in Nat,
             entry \in Share :
          t = d.shares /\ key = msg.index /\ entry = share
    BY <1>1, <1>2
  <2>2. With(t, key, entry) \in Table(Share)
    BY WithIs
  <2>3. /\ DOMAIN With(t, key, entry) = DOMAIN t \union {key}
        /\ With(t, key, entry)[key] = entry
        /\ \A i \in DOMAIN t : i # key => With(t, key, entry)[i] = t[i]
    BY DEF With
  <2> QED
    BY <2>1, <2>2, <2>3
<1> HIDE DEF bins, shares, share
<1>8. CASE e = WithShare(d, msg)
  BY <1>2, <1>5, <1>6, <1>7, <1>8 DEF Directory, share
<1>9. CASE e # WithShare(d, msg)
  <2>1. /\ e.bins = bins /\ e.shares = d.shares
        /\ e.manifest = d.manifest \/ e.manifest = msg.manifest
        /\ e = [manifest |-> e.manifest, bins |-> bins, shares |-> d.shares]
    BY <1>3, <1>4, <1>9
  <2>2. e \in Directory
    BY <1>1, <1>2, <1>6, <2>1 DEF Directory
  <2> QED
    BY <1>6, <1>9, <2>1, <2>2
<1> QED
  BY <1>8, <1>9

\* A directory is overwritten.
LEMMA StoreIs ==
  ASSUME store \in [Node -> [Content -> Directory]],
         NEW n \in Node, NEW c \in Content, NEW d \in Directory,
         store' = [store EXCEPT ![n][c] = d]
  PROVE  /\ store' \in [Node -> [Content -> Directory]]
         /\ store'[n][c] = d
         /\ \A m \in Node, e \in Content : m # n \/ e # c => store'[m][e] = store[m][e]
OBVIOUS

-----------------------------------------------------------------------------
(* What the steps leave alone *)

\* An upload keeps its record.
UploadsKept ==
  /\ upload' \in [Upload -> UploadRecord \union {None}]
  /\ \A u \in Upload : Started(u) => upload'[u] = upload[u]

\* What an upload's record has.
LEMMA StartedIs ==
  ASSUME Types, NEW u \in Upload, Started(u)
  PROVE  /\ upload[u] \in UploadRecord /\ upload[u].layout \in Layout
         /\ upload[u].origin \in Node /\ upload[u].content \in Content
         /\ upload[u].layout.fragments \in Nat \ {0}
         /\ upload[u].layout.shares \in Nat \ {0}
         /\ upload[u].layout.threshold \in Nat \ {0}
         /\ upload[u].layout.threshold <= upload[u].layout.shares
BY FragmentsAssumption DEF Types, Started, UploadRecord

\* So it stays started, of its content, and of as many fragments.
LEMMA KeptIs ==
  ASSUME Types, UploadsKept, NEW u \in Upload, Started(u)
  PROVE  /\ Started(u)' /\ upload'[u] = upload[u] /\ Fragment(u)' = Fragment(u)
         /\ \A c : Of(u, c) => Of(u, c)'
BY DEF UploadsKept, Started, Fragment, Of

\* A directory that stays as it is stays of its content.
LEMMA StoreKept ==
  ASSUME Types, UploadsKept, NEW n \in Node, NEW c \in Content, StoreOK(n, c),
         store'[n][c] = store[n][c]
  PROVE  StoreOK(n, c)'
<1>1. PICK d \in Directory : d = store[n][c]
  BY DEF Types
<1>2. /\ d.manifest # None => d.manifest \in Upload
      /\ \A i \in DOMAIN d.bins : d.bins[i] \in Upload
      /\ \A i \in DOMAIN d.shares : d.shares[i].upload \in Upload
  BY DirectoryIs
<1>3. ASSUME NEW u \in Upload, Of(u, c)
      PROVE  Of(u, c)' /\ upload'[u] = upload[u] /\ Fragment(u)' = Fragment(u)
  BY <1>3, KeptIs DEF Of
<1>4. store'[n][c] = d
  BY <1>1
<1>5. d.manifest # None => Of(d.manifest, c)'
  BY <1>1, <1>2, <1>3 DEF StoreOK
<1>6. \A i \in DOMAIN d.bins : Of(d.bins[i], c)'
  BY <1>1, <1>2, <1>3 DEF StoreOK
<1>7. ASSUME NEW i \in DOMAIN d.shares
      PROVE  /\ i \in DOMAIN d.bins
             /\ Of(d.shares[i].upload, c)'
             /\ i \in Fragment(d.shares[i].upload)'
             /\ d.shares[i].id = i % upload'[d.shares[i].upload].layout.shares
  <2>1. PICK u \in Upload : u = d.shares[i].upload
    BY <1>2
  <2>2. /\ i \in DOMAIN d.bins /\ Of(u, c) /\ i \in Fragment(u)
        /\ d.shares[i].id = i % upload[u].layout.shares
    BY <1>1, <2>1 DEF StoreOK
  <2> QED
    BY <1>3, <2>1, <2>2
<1> QED
  BY <1>4, <1>5, <1>6, <1>7 DEF StoreOK

\* A directory that is not there holds nothing wrong.
LEMMA StoreRemoved ==
  ASSUME NEW n \in Node, NEW c \in Content, store'[n][c] = Absent
  PROVE  StoreOK(n, c)'
BY AbsentIs DEF StoreOK

\* So does a task that stays as it is, or ends.
LEMMA PushKept ==
  ASSUME Types, UploadsKept, NEW u \in Upload, PushOK(u), push'[u] \in {None, push[u]}
  PROVE  PushOK(u)'
<1> SUFFICES ASSUME push'[u] # None PROVE PushOK(u)'
  BY DEF PushOK
<1>1. push'[u] = push[u] /\ push[u] # None /\ Started(u)
  BY DEF PushOK
<1>2. upload'[u] = upload[u] /\ Started(u)'
  BY <1>1, KeptIs
<1>3. ASSUME push[u].pc # "created"
      PROVE  Of(push[u].manifest, upload[u].content)'
  <2>1. push[u].manifest \in Upload
    BY <1>1, <1>3 DEF Types, PushTask
  <2>2. Of(push[u].manifest, upload[u].content)
    BY <1>1, <1>3 DEF PushOK
  <2>3. upload'[push[u].manifest] = upload[push[u].manifest] /\ Started(push[u].manifest)'
    BY <2>1, <2>2, KeptIs DEF Of
  <2> QED
    BY <1>1, <1>2, <2>2, <2>3 DEF Of, Started
<1> QED
  BY <1>1, <1>2, <1>3 DEF PushOK

\* And a POST, as long as its task stays as it is, or ends.
LEMMA MessageKept ==
  ASSUME Types, UploadsKept, NEW msg \in inbox, MessageOK(msg),
         push'[msg.upload] \in {None, push[msg.upload]}
  PROVE  MessageOK(msg)'
<1>1. msg.upload \in Upload /\ msg.manifest \in Upload
  BY DEF Types, Message
<1>2. Started(msg.upload) /\ Started(msg.manifest)
  BY DEF MessageOK, Of
<1>3. /\ upload'[msg.upload] = upload[msg.upload] /\ upload'[msg.manifest] = upload[msg.manifest]
      /\ Started(msg.upload)' /\ Started(msg.manifest)'
      /\ Fragment(msg.upload)' = Fragment(msg.upload)
  BY <1>1, <1>2, KeptIs
<1> QED
  BY <1>3 DEF MessageOK, Of

\* A step that starts or advances no task and sends no POST.
LEMMA QuietStep ==
  ASSUME Coherent, UploadsKept,
         store' \in [Node -> [Content -> Directory]],
         \A n \in Node, c \in Content : StoreOK(n, c)',
         expired' \subseteq Upload, \A u \in expired' : Started(u)',
         push' \in [Upload -> PushTask \union {None}],
         \A u \in Upload : push'[u] \in {None, push[u]},
         inbox' \subseteq inbox, optedIn' \subseteq Node,
         placed' \subseteq Upload, removed' \subseteq Node \X Content
  PROVE  Coherent'
<1>1. Types'
  BY DEF Coherent, Types, UploadsKept
<1>2. \A u \in Upload : PushOK(u)'
  BY PushKept DEF Coherent
<1>3. ASSUME NEW msg \in inbox' PROVE MessageOK(msg)'
  <2>1. msg \in inbox /\ MessageOK(msg) /\ msg.upload \in Upload
    BY DEF Coherent, Types, Message
  <2> QED
    BY <2>1, MessageKept DEF Coherent
<1>4. OnePost'
  BY DEF Coherent, OnePost
<1> QED
  BY <1>1, <1>2, <1>3, <1>4 DEF Coherent

-----------------------------------------------------------------------------
(* Every step keeps the state coherent *)

\* At first there is nothing.
LEMMA InitCoherent == Init => Coherent
<1> SUFFICES ASSUME Init PROVE Coherent
  OBVIOUS
<1>1. \A u \in Upload : upload[u] = None /\ push[u] = None
  BY DEF Init
<1>2. \A n \in Node, c \in Content : store[n][c] = Absent
  BY DEF Init
<1>3. Types
  <2>1. store \in [Node -> [Content -> Directory]]
    BY AbsentIs DEF Init
  <2> QED
    BY <2>1, FragmentsAssumption DEF Init, Types
<1>4. \A n \in Node, c \in Content : StoreOK(n, c)
  BY <1>2, AbsentIs DEF StoreOK
<1> QED
  BY <1>1, <1>3, <1>4 DEF Init, Coherent, PushOK, OnePost

\* An upload enters among others.
LEMMA FreshKeeps ==
  ASSUME Types, NEW u \in Upload, NEW origin \in Uploader, NEW content \in Content,
         NEW layout \in Layout, Fresh(u, origin, content, layout)
  PROVE  /\ UploadsKept /\ ~Started(u) /\ Started(u)'
         /\ upload'[u] = [origin |-> origin, content |-> content, layout |-> layout]
         /\ \A w \in Upload \ {u} : upload'[w] = upload[w]
         /\ Of(u, content)'
<1>1. PICK entry \in UploadRecord :
        entry = [origin |-> origin, content |-> content, layout |-> layout]
  BY DEF UploadRecord
<1>2. upload' = [upload EXCEPT ![u] = entry] /\ upload[u] = None
  BY <1>1 DEF Fresh, Started
<1>3. entry # None
  BY AbsenceAssumption
<1>4. upload'[u] = entry /\ \A w \in Upload \ {u} : upload'[w] = upload[w]
  BY <1>2 DEF Types
<1>5. upload' \in [Upload -> UploadRecord \union {None}]
  BY <1>2 DEF Types
<1>6. entry.content = content
  BY <1>1
<1> QED
  BY <1>1, <1>2, <1>3, <1>4, <1>5, <1>6 DEF UploadsKept, Started, Of

\* The first fragments of u are written, and perhaps its manifest.
Writes(n, c, u, count, d) ==
  /\ d \in Directory
  /\ d.manifest \in {store[n][c].manifest, u}
  /\ d.shares = Written(store[n][c], u, count).shares
  /\ d.bins = Written(store[n][c], u, count).bins
  /\ store' = [store EXCEPT ![n][c] = d]

\* Fragments of an upload of its content enter a directory.
LEMMA WriteKeeps ==
  ASSUME Coherent, UploadsKept, NEW n \in Node, NEW c \in Content,
         NEW u \in Upload, Of(u, c)', NEW count \in Nat, NEW d, Writes(n, c, u, count, d)
  PROVE  /\ store' \in [Node -> [Content -> Directory]]
         /\ \A m \in Node, e \in Content : StoreOK(m, e)'
         /\ \A m \in Node, e \in Content :
              m # n \/ e # c => store'[m][e] = store[m][e]
         /\ store'[n][c] = d
         /\ d.shares = store[n][c].shares
         /\ DOMAIN d.bins = DOMAIN store[n][c].bins \union 0..(count - 1)
         /\ \A i \in DOMAIN d.bins :
              d.bins[i] = u \/ (i \in DOMAIN store[n][c].bins /\ d.bins[i] = store[n][c].bins[i])
<1>1. PICK old \in Directory : old = store[n][c] /\ StoreOK(n, c)
  BY DEF Coherent, Types
<1> USE DEF Writes
<1>2. /\ store' \in [Node -> [Content -> Directory]] /\ store'[n][c] = d
      /\ \A m \in Node, e \in Content : m # n \/ e # c => store'[m][e] = store[m][e]
  BY StoreIs DEF Coherent, Types
<1>3. /\ d.shares = old.shares
      /\ DOMAIN d.bins = DOMAIN old.bins \union 0..(count - 1)
      /\ \A i \in DOMAIN d.bins : d.bins[i] = u \/ (i \in DOMAIN old.bins /\ d.bins[i] = old.bins[i])
  BY <1>1, WrittenIs
<1>4. /\ old.manifest # None => old.manifest \in Upload
      /\ \A i \in DOMAIN old.bins : old.bins[i] \in Upload
      /\ \A i \in DOMAIN old.shares : old.shares[i].upload \in Upload
  BY DirectoryIs
<1>5. ASSUME NEW w \in Upload, Of(w, c)
      PROVE  Of(w, c)' /\ upload'[w] = upload[w] /\ Fragment(w)' = Fragment(w)
  BY <1>5, KeptIs DEF Of, Coherent
<1>6. StoreOK(n, c)'
  <2>1. d.manifest # None => Of(d.manifest, c)'
    BY <1>1, <1>4, <1>5 DEF StoreOK
  <2>2. \A i \in DOMAIN d.bins : Of(d.bins[i], c)'
    BY <1>1, <1>3, <1>4, <1>5 DEF StoreOK
  <2>3. ASSUME NEW i \in DOMAIN d.shares
        PROVE  /\ i \in DOMAIN d.bins
               /\ Of(d.shares[i].upload, c)'
               /\ i \in Fragment(d.shares[i].upload)'
               /\ d.shares[i].id = i % upload'[d.shares[i].upload].layout.shares
    <3>1. PICK w \in Upload : w = old.shares[i].upload /\ d.shares[i] = old.shares[i]
      BY <1>3, <1>4
    <3>2. /\ i \in DOMAIN old.bins /\ Of(w, c) /\ i \in Fragment(w)
          /\ old.shares[i].id = i % upload[w].layout.shares
      BY <1>1, <1>3, <3>1 DEF StoreOK
    <3> QED
      BY <1>3, <1>5, <3>1, <3>2
  <2> QED
    BY <1>2, <2>1, <2>2, <2>3 DEF StoreOK
<1>7. ASSUME NEW m \in Node, NEW e \in Content PROVE StoreOK(m, e)'
  <2>1. CASE m = n /\ e = c
    BY <1>6, <2>1
  <2>2. CASE m # n \/ e # c
    BY <1>2, <2>2, StoreKept DEF Coherent
  <2> QED
    BY <2>1, <2>2
<1> QED
  BY <1>1, <1>2, <1>3, <1>7

\* A step that leaves the uploads alone keeps them.
LEMMA SameUploads ==
  ASSUME Types, upload' = upload
  PROVE  UploadsKept
BY DEF Types, UploadsKept

\* The process of a node takes tasks and POSTs with it.
LEMMA DiesIs ==
  ASSUME Types, NEW n \in Node, Dies(n)
  PROVE  /\ push' \in [Upload -> PushTask \union {None}]
         /\ \A u \in Upload : push'[u] \in {None, push[u]}
         /\ inbox' \subseteq inbox /\ optedIn' \subseteq Node
         /\ \A msg \in inbox' : msg.to # n
BY DEF Types, Dies

\* The writes of Begin: all fragments and the manifest.
LEMMA BeginStore ==
  ASSUME Coherent, NEW u \in Upload, NEW origin \in Uploader, NEW content \in Content,
         NEW layout \in Layout, Begin(u, origin, content, layout)
  PROVE  /\ store' \in [Node -> [Content -> Directory]]
         /\ \A m \in Node, e \in Content : StoreOK(m, e)'
         /\ \A m \in Node, e \in Content :
              m # origin \/ e # content => store'[m][e] = store[m][e]
         /\ store'[origin][content].shares = store[origin][content].shares
         /\ DOMAIN store'[origin][content].bins =
              DOMAIN store[origin][content].bins \union 0..(layout.fragments - 1)
         /\ \A i \in DOMAIN store'[origin][content].bins :
              \/ store'[origin][content].bins[i] = u
              \/ /\ i \in DOMAIN store[origin][content].bins
                 /\ store'[origin][content].bins[i] = store[origin][content].bins[i]
<1>1. UploadsKept /\ Of(u, content)'
  BY FreshKeeps DEF Begin, Coherent
<1>2. origin \in Node /\ layout.fragments \in Nat
  BY FragmentsAssumption
<1>3. PICK old \in Directory : old = store[origin][content]
  BY <1>2 DEF Coherent, Types
<1>4. PICK w : w = Written(old, u, layout.fragments)
  OBVIOUS
<1>5. w \in Directory /\ w.manifest = old.manifest
  BY <1>2, <1>4, WrittenIs
<1>6. PICK d : d = [manifest |-> u, bins |-> w.bins, shares |-> w.shares]
  OBVIOUS
<1>7. d \in Directory
  BY <1>5, <1>6 DEF Directory
<1>8. [w EXCEPT !.manifest = u] = d
  BY <1>5, <1>6 DEF Directory
<1>9. store' = [store EXCEPT ![origin][content] = d]
  BY <1>3, <1>4, <1>8 DEF Begin
<1>10. /\ d.manifest \in {store[origin][content].manifest, u}
       /\ d.shares = Written(store[origin][content], u, layout.fragments).shares
       /\ d.bins = Written(store[origin][content], u, layout.fragments).bins
  BY <1>3, <1>4, <1>6
<1>11. /\ store' \in [Node -> [Content -> Directory]]
       /\ \A m \in Node, e \in Content : StoreOK(m, e)'
       /\ \A m \in Node, e \in Content :
            m # origin \/ e # content => store'[m][e] = store[m][e]
       /\ store'[origin][content] = d
       /\ d.shares = store[origin][content].shares
       /\ DOMAIN d.bins = DOMAIN store[origin][content].bins \union 0..(layout.fragments - 1)
       /\ \A i \in DOMAIN d.bins :
            \/ d.bins[i] = u
            \/ (i \in DOMAIN store[origin][content].bins /\ d.bins[i] = store[origin][content].bins[i])
  <2>1. Writes(origin, content, u, layout.fragments, d)
    BY <1>7, <1>9, <1>10 DEF Writes
  <2> QED
    BY <1>1, <1>2, <2>1, WriteKeeps
<1> QED
  BY <1>11

\* Begin, whose uploads and tasks stay apart from the others.
LEMMA BeginKeeps ==
  ASSUME Coherent, NEW u \in Upload, NEW origin \in Uploader, NEW content \in Content,
         NEW layout \in Layout, Begin(u, origin, content, layout)
  PROVE  Coherent'
<1>1. UploadsKept /\ ~Started(u) /\ Started(u)'
  BY FreshKeeps DEF Begin, Coherent
<1>2. store' \in [Node -> [Content -> Directory]] /\ \A m \in Node, e \in Content : StoreOK(m, e)'
  BY BeginStore
<1>3. PICK task \in PushTask : task = [pc |-> "created"]
  BY DEF PushTask
<1>4. /\ push' = [push EXCEPT ![u] = task]
      /\ UNCHANGED <<expired, optedIn, inbox, placed, removed>>
  BY <1>3 DEF Begin
<1>5. Types'
  BY <1>1, <1>2, <1>4 DEF Types, Coherent, UploadsKept
<1>6. push'[u] = task /\ \A w \in Upload \ {u} : push'[w] = push[w]
  BY <1>4 DEF Types, Coherent
<1>7. ASSUME NEW w \in Upload PROVE PushOK(w)'
  <2>1. CASE w = u
    BY <1>1, <1>3, <1>6, <2>1 DEF PushOK
  <2>2. CASE w # u
    BY <1>1, <1>6, <2>2, PushKept DEF Coherent
  <2> QED
    BY <2>1, <2>2
<1>8. ASSUME NEW msg \in inbox' PROVE MessageOK(msg)'
  <2>1. msg \in inbox /\ msg.upload \in Upload /\ MessageOK(msg)
    BY <1>4 DEF Types, Coherent, Message
  <2>2. msg.upload # u
    BY <1>1, <2>1 DEF MessageOK
  <2> QED
    BY <1>1, <1>6, <2>1, <2>2, MessageKept DEF Coherent
<1>9. \A w \in expired' : Started(w)'
  BY <1>1, <1>4, KeptIs DEF Coherent, Types
<1>10. OnePost'
  BY <1>4 DEF Coherent, OnePost
<1> QED
  BY <1>2, <1>5, <1>7, <1>8, <1>9, <1>10 DEF Coherent

\* The writes of CrashInBegin: the first fragments.
LEMMA CrashInBeginStore ==
  ASSUME Coherent, NEW u \in Upload, NEW origin \in Uploader, NEW content \in Content,
         NEW layout \in Layout, NEW count \in 1..layout.fragments,
         CrashInBegin(u, origin, content, layout, count)
  PROVE  /\ store' \in [Node -> [Content -> Directory]]
         /\ \A m \in Node, e \in Content : StoreOK(m, e)'
         /\ \A m \in Node, e \in Content :
              m # origin \/ e # content => store'[m][e] = store[m][e]
         /\ store'[origin][content].manifest = store[origin][content].manifest
         /\ store'[origin][content].shares = store[origin][content].shares
         /\ DOMAIN store'[origin][content].bins =
              DOMAIN store[origin][content].bins \union 0..(count - 1)
         /\ \A i \in DOMAIN store'[origin][content].bins :
              \/ store'[origin][content].bins[i] = u
              \/ /\ i \in DOMAIN store[origin][content].bins
                 /\ store'[origin][content].bins[i] = store[origin][content].bins[i]
<1>1. UploadsKept /\ Of(u, content)'
  BY FreshKeeps DEF CrashInBegin, Coherent
<1>2. origin \in Node /\ count \in Nat
  BY FragmentsAssumption
<1>3. PICK old \in Directory : old = store[origin][content]
  BY <1>2 DEF Coherent, Types
<1>4. PICK d : d = Written(old, u, count)
  OBVIOUS
<1>5. d \in Directory /\ d.manifest = old.manifest
  BY <1>2, <1>4, WrittenIs
<1>6. store' = [store EXCEPT ![origin][content] = d]
  BY <1>3, <1>4 DEF CrashInBegin
<1>7. /\ d.manifest \in {store[origin][content].manifest, u}
      /\ d.shares = Written(store[origin][content], u, count).shares
      /\ d.bins = Written(store[origin][content], u, count).bins
  BY <1>3, <1>4, <1>5
<1>8. /\ store' \in [Node -> [Content -> Directory]]
      /\ \A m \in Node, e \in Content : StoreOK(m, e)'
      /\ \A m \in Node, e \in Content :
           m # origin \/ e # content => store'[m][e] = store[m][e]
      /\ store'[origin][content] = d
      /\ d.shares = store[origin][content].shares
      /\ DOMAIN d.bins = DOMAIN store[origin][content].bins \union 0..(count - 1)
      /\ \A i \in DOMAIN d.bins :
           \/ d.bins[i] = u
           \/ (i \in DOMAIN store[origin][content].bins /\ d.bins[i] = store[origin][content].bins[i])
  <2>1. Writes(origin, content, u, count, d)
    BY <1>5, <1>6, <1>7 DEF Writes
  <2> QED
    BY <1>1, <1>2, <2>1, WriteKeeps
<1> QED
  BY <1>3, <1>5, <1>8

\* CrashInBegin, which ends tasks and POSTs besides.
LEMMA CrashInBeginKeeps ==
  ASSUME Coherent, NEW u \in Upload, NEW origin \in Uploader, NEW content \in Content,
         NEW layout \in Layout, NEW count \in 1..layout.fragments,
         CrashInBegin(u, origin, content, layout, count)
  PROVE  Coherent'
<1>1. UploadsKept
  BY FreshKeeps DEF CrashInBegin, Coherent
<1>2. store' \in [Node -> [Content -> Directory]] /\ \A m \in Node, e \in Content : StoreOK(m, e)'
  BY CrashInBeginStore
<1>3. /\ push' \in [Upload -> PushTask \union {None}]
      /\ \A w \in Upload : push'[w] \in {None, push[w]}
      /\ inbox' \subseteq inbox /\ optedIn' \subseteq Node
  BY DiesIs, FragmentsAssumption DEF CrashInBegin, Coherent
<1>4. UNCHANGED <<expired, placed, removed>>
  BY DEF CrashInBegin
<1>5. /\ expired' \subseteq Upload /\ \A w \in expired' : Started(w)'
      /\ placed' \subseteq Upload /\ removed' \subseteq Node \X Content
  BY <1>1, <1>4, KeptIs DEF Coherent, Types
<1> QED
  BY <1>1, <1>2, <1>3, <1>5, QuietStep

\* The steps that neither start, advance nor send anything and write no entry.
LEMMA ExpireKeeps ==
  ASSUME Coherent, NEW u \in Upload, Expire(u)
  PROVE  Coherent'
<1>1. UploadsKept /\ store' = store /\ push' = push /\ inbox' = inbox
  BY SameUploads DEF Expire, Coherent
<1>2. \A n \in Node, c \in Content : StoreOK(n, c)'
  BY <1>1, StoreKept DEF Coherent
<1>3. expired' \subseteq Upload /\ \A w \in expired' : Started(w)'
  BY <1>1, KeptIs DEF Coherent, Types, Expire
<1> QED
  BY <1>1, <1>2, <1>3, QuietStep DEF Coherent, Types, Expire

\* Toggle changes only who stores for others.
LEMMA ToggleKeeps ==
  ASSUME Coherent, NEW n \in Node, Toggle(n)
  PROVE  Coherent'
<1>1. UploadsKept /\ store' = store /\ push' = push /\ inbox' = inbox
  BY SameUploads DEF Toggle, Coherent
<1>2. \A m \in Node, c \in Content : StoreOK(m, c)'
  BY <1>1, StoreKept DEF Coherent
<1>3. expired' \subseteq Upload /\ \A w \in expired' : Started(w)'
  BY <1>1, KeptIs DEF Coherent, Types, Toggle
<1>4. optedIn' \subseteq Node
  BY DEF Coherent, Types, Toggle, SymDiff
<1> QED
  BY <1>1, <1>2, <1>3, <1>4, QuietStep DEF Coherent, Types, Toggle

\* Crash only ends tasks and POSTs.
LEMMA CrashKeeps ==
  ASSUME Coherent, NEW n \in Node, Crash(n)
  PROVE  Coherent'
<1>1. UploadsKept /\ store' = store
  BY SameUploads DEF Crash, Coherent
<1>2. \A m \in Node, c \in Content : StoreOK(m, c)'
  BY <1>1, StoreKept DEF Coherent
<1>3. expired' \subseteq Upload /\ \A w \in expired' : Started(w)'
  BY <1>1, KeptIs DEF Coherent, Types, Crash
<1>4. /\ push' \in [Upload -> PushTask \union {None}]
      /\ \A w \in Upload : push'[w] \in {None, push[w]}
      /\ inbox' \subseteq inbox /\ optedIn' \subseteq Node
  BY DiesIs DEF Crash, Coherent
<1> QED
  BY <1>1, <1>2, <1>3, <1>4, QuietStep DEF Coherent, Types, Crash

\* EndPush ends a task.
LEMMA EndPushKeeps ==
  ASSUME Coherent, NEW u \in Upload, EndPush(u)
  PROVE  Coherent'
<1>1. UploadsKept /\ store' = store /\ inbox' = inbox
  BY SameUploads DEF EndPush, Coherent
<1>2. \A m \in Node, c \in Content : StoreOK(m, c)'
  BY <1>1, StoreKept DEF Coherent
<1>3. expired' \subseteq Upload /\ \A w \in expired' : Started(w)'
  BY <1>1, KeptIs DEF Coherent, Types, EndPush
<1>4. push' \in [Upload -> PushTask \union {None}] /\ \A w \in Upload : push'[w] \in {None, push[w]}
  BY DEF EndPush, Coherent, Types
<1>5. placed' \subseteq Upload
  BY DEF EndPush, Coherent, Types
<1> QED
  BY <1>1, <1>2, <1>3, <1>4, <1>5, QuietStep DEF Coherent, Types, EndPush

\* Directories are removed.
LEMMA RemoveKeeps ==
  ASSUME Coherent, upload' = upload, UNCHANGED <<expired, optedIn, push, inbox, placed>>,
         store' \in [Node -> [Content -> Directory]],
         \A n \in Node, c \in Content :
           store'[n][c] = store[n][c] \/ store'[n][c] = Absent,
         removed' \subseteq Node \X Content
  PROVE  Coherent'
<1>1. UploadsKept
  BY SameUploads DEF Coherent
<1>2. \A n \in Node, c \in Content : StoreOK(n, c)'
  BY <1>1, StoreKept, StoreRemoved DEF Coherent
<1>3. expired' \subseteq Upload /\ \A w \in expired' : Started(w)'
  BY <1>1, KeptIs DEF Coherent, Types
<1> QED
  BY <1>1, <1>2, <1>3, QuietStep DEF Coherent, Types

\* Cleanup removes the directories whose retention has ended.
LEMMA CleanupIs ==
  ASSUME Coherent, NEW n \in Node, Cleanup(n)
  PROVE  /\ Coherent'
         /\ \A m \in Node, c \in Content :
              \/ store'[m][c] = store[m][c]
              \/ store'[m][c] = Absent /\ <<m, c>> \in removed'
<1> DEFINE old == {c \in Content : store[n][c].manifest \in expired}
<1>1. PICK row \in [Content -> Directory] :
        row = [c \in Content |-> IF c \in old THEN Absent ELSE store[n][c]]
  <2>1. store[n] \in [Content -> Directory]
    BY DEF Coherent, Types
  <2> QED
    BY <2>1, AbsentIs
<1>2. store' = [store EXCEPT ![n] = row] /\ removed' = removed \union ({n} \X old)
  BY <1>1 DEF Cleanup
<1>3. store' \in [Node -> [Content -> Directory]]
  BY <1>2 DEF Coherent, Types
<1>4. ASSUME NEW m \in Node, NEW c \in Content
      PROVE  \/ store'[m][c] = store[m][c]
             \/ store'[m][c] = Absent /\ <<m, c>> \in removed'
  <2>1. CASE m = n
    <3>1. store'[m][c] = IF c \in old THEN Absent ELSE store[m][c]
      BY <1>1, <1>2, <2>1 DEF Coherent, Types
    <3>2. c \in old => <<m, c>> \in removed'
      BY <1>2, <2>1
    <3> QED
      BY <3>1, <3>2
  <2>2. CASE m # n
    BY <1>2, <2>2 DEF Coherent, Types
  <2> QED
    BY <2>1, <2>2
<1>5. removed' \subseteq Node \X Content
  BY <1>2 DEF Coherent, Types
<1>6. upload' = upload /\ UNCHANGED <<expired, optedIn, push, inbox, placed>>
  BY DEF Cleanup
<1>7. \A m \in Node, c \in Content : store'[m][c] = store[m][c] \/ store'[m][c] = Absent
  BY <1>4
<1>8. Coherent'
  BY <1>3, <1>5, <1>6, <1>7, RemoveKeeps
<1> QED
  BY <1>4, <1>8

\* Revoke removes one directory.
LEMMA RevokeIs ==
  ASSUME Coherent, NEW n \in Node, NEW c \in Content, Revoke(n, c)
  PROVE  /\ Coherent'
         /\ \A m \in Node, e \in Content :
              \/ store'[m][e] = store[m][e]
              \/ store'[m][e] = Absent /\ <<m, e>> \in removed'
<1>1. store' = [store EXCEPT ![n][c] = Absent] /\ removed' = removed \union {<<n, c>>}
  BY DEF Revoke
<1>2. /\ store' \in [Node -> [Content -> Directory]] /\ store'[n][c] = Absent
      /\ \A m \in Node, e \in Content : m # n \/ e # c => store'[m][e] = store[m][e]
  BY <1>1, AbsentIs, StoreIs DEF Coherent, Types
<1>3. ASSUME NEW m \in Node, NEW e \in Content
      PROVE  \/ store'[m][e] = store[m][e]
             \/ store'[m][e] = Absent /\ <<m, e>> \in removed'
  BY <1>1, <1>2
<1>4. removed' \subseteq Node \X Content
  BY <1>1 DEF Coherent, Types
<1>5. upload' = upload /\ UNCHANGED <<expired, optedIn, push, inbox, placed>>
  BY DEF Revoke
<1>6. \A m \in Node, e \in Content : store'[m][e] = store[m][e] \/ store'[m][e] = Absent
  BY <1>3
<1>7. Coherent'
  BY <1>2, <1>4, <1>5, <1>6, RemoveKeeps
<1> QED
  BY <1>3, <1>7

\* A step that leaves uploads and directories alone, but moves tasks and POSTs.
LEMMA PushStep ==
  ASSUME Coherent,
         UNCHANGED <<upload, expired, store, optedIn, placed, removed>>,
         push' \in [Upload -> PushTask \union {None}], inbox' \subseteq Message,
         \A u \in Upload : PushOK(u)', \A msg \in inbox' : MessageOK(msg)', OnePost'
  PROVE  Coherent'
<1>1. UploadsKept
  BY SameUploads DEF Coherent
<1>2. \A n \in Node, c \in Content : StoreOK(n, c)'
  BY <1>1, StoreKept DEF Coherent
<1>3. \A w \in expired' : Started(w)'
  BY <1>1, KeptIs DEF Coherent, Types
<1>4. Types'
  BY DEF Coherent, Types
<1> QED
  BY <1>2, <1>3, <1>4 DEF Coherent

\* The peers are a sequence of nodes, and there is one.
LEMMA PeersAre ==
  ASSUME Types, NEW peers \in PeerOrders
  PROVE  peers \in Seq(Node) /\ Len(peers) \in Nat /\ Len(peers) > 0
<1>1. PICK S \in (SUBSET optedIn) \ {{}} : peers \in SetToSeqs(S)
  BY DEF PeerOrders
<1>2. S \in SUBSET Node /\ S # {}
  BY <1>1 DEF Types
<1>3. IsFiniteSet(S) /\ Cardinality(S) \in Nat /\ Cardinality(S) # 0
  BY <1>2, FS_Subset, FS_CardinalityType, FS_EmptySet, FragmentsAssumption
<1>4. peers \in [1..Cardinality(S) -> S]
  BY <1>1 DEF SetToSeqs
<1>5. peers \in [1..Cardinality(S) -> Node]
  BY <1>2, <1>4
<1> QED
  BY <1>3, <1>5

\* Discover takes a manifest of the content of its upload.
LEMMA DiscoverKeeps ==
  ASSUME Coherent, NEW u \in Upload, NEW peers \in PeerOrders, Discover(u, peers)
  PROVE  Coherent'
<1> DEFINE n == upload[u].origin
           c == upload[u].content
<1>1. push[u] # None /\ push[u].pc = "created" /\ Started(u)
  BY DEF Discover, Coherent, PushOK
<1>2. n \in Node /\ c \in Content /\ upload[u].layout.fragments \in Nat
  BY <1>1, StartedIs DEF Coherent
<1>3. PICK manifest : manifest = store[n][c].manifest /\ manifest # None
  BY DEF Discover
<1>4. store[n][c] \in Directory /\ StoreOK(n, c)
  BY <1>2 DEF Coherent, Types
<1>5. manifest \in Upload /\ Of(manifest, c)
  BY <1>3, <1>4, DirectoryIs DEF StoreOK
<1>6. peers \in Seq(Node) /\ Len(peers) > 0
  BY PeersAre DEF Coherent
<1>7. PICK task \in PushTask :
        task = [pc |-> "ready", manifest |-> manifest, peers |-> peers, next |-> 0,
                accepted |-> TRUE]
  BY <1>5, <1>6 DEF PushTask
<1>8. /\ push' = [push EXCEPT ![u] = task]
      /\ UNCHANGED <<upload, expired, store, optedIn, inbox, placed, removed>>
  BY <1>3, <1>7 DEF Discover
<1>9. /\ push' \in [Upload -> PushTask \union {None}]
      /\ push'[u] = task /\ \A w \in Upload \ {u} : push'[w] = push[w]
  BY <1>8 DEF Coherent, Types
<1>10. UploadsKept
  BY <1>8, SameUploads DEF Coherent
<1>11. ASSUME NEW w \in Upload PROVE PushOK(w)'
  <2>1. CASE w = u
    <3>1. Started(u)' /\ Of(manifest, c)' /\ upload'[u] = upload[u]
      BY <1>1, <1>5, <1>8 DEF Started, Of
    <3> QED
      BY <1>2, <1>6, <1>7, <1>9, <2>1, <3>1 DEF PushOK
  <2>2. CASE w # u
    BY <1>9, <1>10, <2>2, PushKept DEF Coherent
  <2> QED
    BY <2>1, <2>2
<1>12. ASSUME NEW msg \in inbox' PROVE MessageOK(msg)'
  <2>1. msg \in inbox /\ msg.upload \in Upload /\ MessageOK(msg)
    BY <1>8 DEF Types, Coherent, Message
  <2>2. msg.upload # u
    BY <1>1, <2>1 DEF MessageOK
  <2> QED
    BY <1>9, <1>10, <2>1, <2>2, MessageKept DEF Coherent
<1>13. OnePost' /\ inbox' \subseteq Message
  BY <1>8 DEF Coherent, OnePost, Types
<1> QED
  BY <1>8, <1>9, <1>11, <1>12, <1>13, PushStep

\* The POST of the next fragment, and the task that waits for its answer.
LEMMA PostIs ==
  ASSUME Coherent, NEW u \in Upload, Post(u)
  PROVE  \E msg \in Message :
           /\ msg.upload = u /\ msg.index = push[u].next /\ msg.pc = "sent"
           /\ msg.index \in Fragment(u)
           /\ msg.share = msg.index % upload[u].layout.shares
           /\ msg.manifest = push[u].manifest
           /\ inbox' = inbox \union {msg}
<1>1. /\ push[u] # None /\ push[u].pc = "ready" /\ Started(u)
      /\ Len(push[u].peers) > 0
  BY DEF Post, Coherent, PushOK
<1>2. PICK task \in PushTask : task = push[u]
  BY <1>1 DEF Coherent, Types
<1>3. task.peers \in Seq(Node) /\ task.next \in Nat /\ task.manifest \in Upload
  BY <1>1, <1>2 DEF PushTask
<1>4. PICK k : k = task.next % Len(task.peers)
  OBVIOUS
<1>5. Len(task.peers) \in Nat /\ Len(task.peers) > 0
  BY <1>1, <1>2, <1>3
<1>6. k \in 0..(Len(task.peers) - 1)
  BY <1>3, <1>4, <1>5
<1>7. task.peers[k + 1] \in Node
  BY <1>3, <1>5, <1>6
<1>8. upload[u].layout.shares \in Nat \ {0}
  BY <1>1, StartedIs DEF Coherent
<1>9. PICK share : share = task.next % upload[u].layout.shares
  OBVIOUS
<1>10. share \in Nat
  BY <1>3, <1>8, <1>9
<1>11. PICK msg \in Message :
         msg = [upload |-> u, index |-> task.next, to |-> task.peers[k + 1],
                share |-> share, manifest |-> task.manifest, pc |-> "sent"]
  BY <1>3, <1>7, <1>10 DEF Message
<1>12. inbox' = inbox \union {msg} /\ task.next \in Fragment(u)
  BY <1>2, <1>4, <1>9, <1>11 DEF Post
<1> QED
  BY <1>2, <1>9, <1>11, <1>12

\* Post sends what its task then waits for; it had no POST under way.
LEMMA PostKeeps ==
  ASSUME Coherent, NEW u \in Upload, Post(u)
  PROVE  Coherent'
<1>1. PICK new \in Message :
        /\ new.upload = u /\ new.index = push[u].next /\ new.pc = "sent"
        /\ new.index \in Fragment(u)
        /\ new.share = new.index % upload[u].layout.shares
        /\ new.manifest = push[u].manifest
        /\ inbox' = inbox \union {new}
  BY PostIs
<1>2. push[u] # None /\ push[u].pc = "ready" /\ Started(u) /\ PushOK(u)
  BY DEF Post, Coherent, PushOK
<1>3. PICK old \in PushTask : old = push[u]
  BY <1>2 DEF Coherent, Types
<1>4. /\ old = [pc |-> "ready", manifest |-> old.manifest, peers |-> old.peers,
                next |-> old.next, accepted |-> old.accepted]
      /\ old.manifest \in Upload /\ old.peers \in Seq(Node) /\ old.next \in Nat
      /\ old.accepted \in BOOLEAN
  BY <1>2, <1>3 DEF PushTask
<1>5. PICK task \in PushTask :
        task = [pc |-> "waiting", manifest |-> old.manifest, peers |-> old.peers,
                next |-> old.next, accepted |-> old.accepted]
  BY <1>4 DEF PushTask
<1>6. [old EXCEPT !.pc = "waiting"] = task
  BY <1>4, <1>5
<1>7. /\ push' = [push EXCEPT ![u] = task]
      /\ UNCHANGED <<upload, expired, store, optedIn, placed, removed>>
  BY <1>3, <1>6 DEF Post
<1>8. /\ push' \in [Upload -> PushTask \union {None}]
      /\ push'[u] = task /\ \A w \in Upload \ {u} : push'[w] = push[w]
  BY <1>7 DEF Coherent, Types
<1>9. UploadsKept
  BY <1>7, SameUploads DEF Coherent
<1>10. Started(u)' /\ upload' = upload /\ Fragment(u)' = Fragment(u)
       /\ \A w, c : Of(w, c)' = Of(w, c)
  BY <1>2, <1>7 DEF Started, Of, Fragment
<1>11. upload[u].layout.fragments \in Nat
  BY <1>2, StartedIs DEF Coherent
<1>12. old.next < upload[u].layout.fragments
  BY <1>1, <1>3, <1>4, <1>11 DEF Fragment
<1>13. Of(old.manifest, upload[u].content) /\ Len(old.peers) > 0
  BY <1>2, <1>3 DEF PushOK
<1>14. ASSUME NEW w \in Upload PROVE PushOK(w)'
  <2>1. CASE w = u
    BY <1>4, <1>5, <1>8, <1>10, <1>11, <1>12, <1>13, <2>1 DEF PushOK
  <2>2. CASE w # u
    BY <1>8, <1>9, <2>2, PushKept DEF Coherent
  <2> QED
    BY <2>1, <2>2
<1>15. ASSUME NEW msg \in inbox PROVE MessageOK(msg)' /\ msg.upload # u
  <2>1. msg.upload \in Upload /\ MessageOK(msg)
    BY DEF Types, Coherent, Message
  <2>2. msg.upload # u
    BY <1>2, <2>1 DEF MessageOK
  <2> QED
    BY <1>8, <1>9, <2>1, <2>2, MessageKept DEF Coherent
<1>16. MessageOK(new)'
  BY <1>1, <1>3, <1>5, <1>8, <1>10, <1>13 DEF MessageOK
<1>17. OnePost'
  BY <1>1, <1>15 DEF Coherent, OnePost
<1>18. inbox' \subseteq Message /\ \A msg \in inbox' : MessageOK(msg)'
  BY <1>1, <1>15, <1>16 DEF Coherent, Types
<1> QED
  BY <1>7, <1>8, <1>14, <1>17, <1>18, PushStep

\* An admitted POST is the one that was sent, but for its pc.
LEMMA AdmitIs ==
  ASSUME Coherent, NEW msg \in inbox, Admit(msg)
  PROVE  /\ Coherent'
         /\ \E new \in Message :
              /\ new.upload = msg.upload /\ new.to = msg.to /\ new.index = msg.index
              /\ inbox' = (inbox \ {msg}) \union {new}
<1>1. /\ msg = [upload |-> msg.upload, index |-> msg.index, to |-> msg.to,
                share |-> msg.share, manifest |-> msg.manifest, pc |-> msg.pc]
      /\ msg \in Message /\ MessageOK(msg)
  BY DEF Coherent, Types, Message
<1>2. PICK new \in Message :
        new = [upload |-> msg.upload, index |-> msg.index, to |-> msg.to,
               share |-> msg.share, manifest |-> msg.manifest, pc |-> "admitted"]
  BY <1>1 DEF Message
<1>3. [msg EXCEPT !.pc = "admitted"] = new
  BY <1>1, <1>2
<1>4. /\ inbox' = (inbox \ {msg}) \union {new}
      /\ UNCHANGED <<upload, expired, store, optedIn, push, placed, removed>>
  BY <1>3 DEF Admit
<1>5. UploadsKept
  BY <1>4, SameUploads DEF Coherent
<1>6. \A w \in Upload : PushOK(w)'
  BY <1>4, <1>5, PushKept DEF Coherent
<1>7. MessageOK(new)'
  <2>1. MessageOK(new)
    BY <1>1, <1>2 DEF MessageOK
  <2> QED
    BY <1>4, <2>1 DEF MessageOK, Started, Of, Fragment
<1>8. \A m \in inbox : MessageOK(m)'
  BY <1>4, <1>5, MessageKept DEF Coherent
<1>9. OnePost'
  BY <1>2, <1>4 DEF Coherent, OnePost
<1>10. inbox' \subseteq Message /\ \A m \in inbox' : MessageOK(m)'
  BY <1>4, <1>7, <1>8 DEF Coherent, Types
<1>11. push' \in [Upload -> PushTask \union {None}]
  BY <1>4 DEF Coherent, Types
<1>12. Coherent'
  BY <1>4, <1>6, <1>9, <1>10, <1>11, PushStep
<1> QED
  BY <1>2, <1>4, <1>12

\* The directory a POST is for, and the POST's writes to it so far.
Target(msg) == store[msg.to][upload[msg.upload].content]

Stores(msg, d) ==
  /\ d \in {WithBin(Target(msg), msg), WithManifest(Target(msg), msg),
            WithShare(Target(msg), msg)}
  /\ store' = [store EXCEPT ![msg.to][upload[msg.upload].content] = d]

\* What a POST writes is of the directory's content, and grows it by one.
LEMMA StoresKeeps ==
  ASSUME Coherent, upload' = upload, NEW msg \in inbox, NEW d, Stores(msg, d)
  PROVE  /\ store' \in [Node -> [Content -> Directory]]
         /\ \A m \in Node, e \in Content : StoreOK(m, e)'
         /\ msg.to \in Node /\ msg.upload \in Upload /\ Started(msg.upload)
         /\ upload[msg.upload].content \in Content
         /\ \A m \in Node, e \in Content :
              m # msg.to \/ e # upload[msg.upload].content => store'[m][e] = store[m][e]
         /\ store'[msg.to][upload[msg.upload].content] = d
         /\ DOMAIN d.bins = DOMAIN Target(msg).bins \union {msg.index}
         /\ \A i \in DOMAIN d.bins :
              \/ d.bins[i] = msg.upload
              \/ i \in DOMAIN Target(msg).bins /\ d.bins[i] = Target(msg).bins[i]
         /\ DOMAIN Target(msg).shares \subseteq DOMAIN d.shares
         /\ d = WithShare(Target(msg), msg) => msg.index \in DOMAIN d.shares
<1>1. PICK n \in Node, u \in Upload, index \in Nat : n = msg.to /\ u = msg.upload /\ index = msg.index
  BY DEF Coherent, Types, Message
<1>2. /\ Started(u) /\ Of(msg.manifest, upload[u].content) /\ index \in Fragment(u)
      /\ msg.share = index % upload[u].layout.shares
      /\ msg.manifest \in Upload /\ msg \in Message
  BY <1>1 DEF Coherent, Types, Message, MessageOK
<1>3. PICK c \in Content : c = upload[u].content
  BY <1>2, StartedIs DEF Coherent
<1>4. PICK old \in Directory : old = store[n][c] /\ StoreOK(n, c) /\ old = Target(msg)
  BY <1>1, <1>3 DEF Coherent, Types, Target
<1>5. d \in {WithBin(old, msg), WithManifest(old, msg), WithShare(old, msg)}
  BY <1>4 DEF Stores
<1>6. /\ d \in Directory
      /\ d.manifest = old.manifest \/ d.manifest = msg.manifest
      /\ DOMAIN d.bins = DOMAIN old.bins \union {msg.index}
      /\ d.bins[msg.index] = msg.upload
      /\ \A i \in DOMAIN old.bins : i # msg.index => d.bins[i] = old.bins[i]
      /\ \/ d.shares = old.shares /\ d # WithShare(old, msg)
         \/ /\ DOMAIN d.shares = DOMAIN old.shares \union {msg.index}
            /\ d.shares[msg.index] = [upload |-> msg.upload, id |-> msg.share]
            /\ \A i \in DOMAIN old.shares : i # msg.index => d.shares[i] = old.shares[i]
  BY <1>2, <1>5, StoredIs
<1>7. store' = [store EXCEPT ![n][c] = d]
  BY <1>1, <1>3 DEF Stores
<1>8. /\ store' \in [Node -> [Content -> Directory]] /\ store'[n][c] = d
      /\ \A m \in Node, e \in Content : m # n \/ e # c => store'[m][e] = store[m][e]
  BY <1>6, <1>7, StoreIs DEF Coherent, Types
<1>9. UploadsKept
  BY SameUploads DEF Coherent
<1>10. \A w : /\ Of(w, c)' = Of(w, c) /\ Fragment(w)' = Fragment(w)
  BY DEF Of, Started, Fragment
<1>11. Of(u, c) /\ Of(msg.manifest, c)
  BY <1>2, <1>3 DEF Of
<1>12. StoreOK(n, c)'
  <2>1. d.manifest # None => Of(d.manifest, c)'
    BY <1>4, <1>6, <1>10, <1>11 DEF StoreOK
  <2>2. ASSUME NEW i \in DOMAIN d.bins PROVE Of(d.bins[i], c)'
    BY <1>1, <1>4, <1>6, <1>10, <1>11 DEF StoreOK
  <2>3. ASSUME NEW i \in DOMAIN d.shares
        PROVE  /\ i \in DOMAIN d.bins
               /\ Of(d.shares[i].upload, c)'
               /\ i \in Fragment(d.shares[i].upload)'
               /\ d.shares[i].id = i % upload'[d.shares[i].upload].layout.shares
    <3>1. CASE i \in DOMAIN old.shares /\ d.shares[i] = old.shares[i]
      <4>1. /\ i \in DOMAIN old.bins
            /\ Of(old.shares[i].upload, c)
            /\ i \in Fragment(old.shares[i].upload)
            /\ old.shares[i].id = i % upload[old.shares[i].upload].layout.shares
        BY <1>4, <3>1 DEF StoreOK
      <4> QED
        BY <1>6, <1>10, <3>1, <4>1
    <3>2. CASE i = index /\ d.shares[i] = [upload |-> u, id |-> msg.share]
      <4>1. d.shares[i].upload = u /\ d.shares[i].id = msg.share
        BY <3>2
      <4> QED
        BY <1>1, <1>2, <1>6, <1>10, <1>11, <3>2, <4>1
    <3> QED
      BY <1>1, <1>6, <3>1, <3>2
  <2> QED
    BY <1>8, <2>1, <2>2, <2>3 DEF StoreOK
<1>13. ASSUME NEW m \in Node, NEW e \in Content PROVE StoreOK(m, e)'
  <2>1. CASE m = n /\ e = c
    BY <1>12, <2>1
  <2>2. CASE m # n \/ e # c
    BY <1>8, <1>9, <2>2, StoreKept DEF Coherent
  <2> QED
    BY <2>1, <2>2
<1>14. DOMAIN old.shares \subseteq DOMAIN d.shares
  BY <1>6
<1>15. d = WithShare(old, msg) => msg.index \in DOMAIN d.shares
  BY <1>6
<1> QED
  BY <1>1, <1>2, <1>3, <1>4, <1>6, <1>8, <1>13, <1>14, <1>15

\* An answered POST leaves the inbox, and its task, if it waits, goes on.
LEMMA AnsweredIs ==
  ASSUME Coherent, upload' = upload, NEW msg \in inbox, NEW accepted \in BOOLEAN,
         Answered(msg, accepted)
  PROVE  /\ push' \in [Upload -> PushTask \union {None}]
         /\ inbox' = inbox \ {msg}
         /\ \A u \in Upload : PushOK(u)'
         /\ \A m \in inbox' : MessageOK(m)'
         /\ OnePost'
         /\ \A u \in Upload :
              \/ push'[u] = push[u]
              \/ /\ u = msg.upload /\ push[u] # None /\ push'[u] # None
                 /\ push[u].pc = "waiting" /\ push[u].next = msg.index
                 /\ push'[u].next = push[u].next + 1
                 /\ push'[u].accepted => push[u].accepted /\ accepted
<1>1. PICK u \in Upload, index \in Nat : u = msg.upload /\ index = msg.index
  BY DEF Coherent, Types, Message
<1>2. /\ Started(u) /\ index \in Fragment(u)
      /\ push[u] # None => push[u].pc = "waiting" /\ push[u].next = index
  BY <1>1 DEF Coherent, MessageOK
<1>3. UploadsKept
  BY SameUploads DEF Coherent
<1>4. inbox' = inbox \ {msg} /\ OnePost'
  BY DEF Answered, Coherent, OnePost
<1>5. \A m \in inbox' : m \in inbox /\ m.upload \in Upload /\ m.upload # u /\ MessageOK(m)
  BY <1>1, <1>4 DEF Coherent, OnePost, Types, Message
<1>6. CASE push[u] = None
  <2>1. push' = push
    BY <1>1, <1>6 DEF Answered
  <2>2. \A w \in Upload : PushOK(w)'
    BY <1>3, <2>1, PushKept DEF Coherent
  <2>3. \A m \in inbox' : MessageOK(m)'
    BY <1>3, <1>5, <2>1, MessageKept DEF Coherent
  <2> QED
    BY <1>4, <2>1, <2>2, <2>3 DEF Coherent, Types
<1>7. CASE push[u] # None
  <2>1. PICK old \in PushTask : old = push[u] /\ old.pc = "waiting" /\ old.next = index
    BY <1>2, <1>7 DEF Coherent, Types
  <2>2. /\ old.manifest \in Upload /\ old.peers \in Seq(Node) /\ old.next \in Nat
        /\ old.accepted \in BOOLEAN
    BY <2>1 DEF PushTask
  <2>3. PICK both \in BOOLEAN : both = (old.accepted /\ accepted)
    BY <2>2
  <2>4. PICK task : task = [pc |-> "ready", manifest |-> old.manifest, peers |-> old.peers,
                            next |-> old.next + 1, accepted |-> both]
    OBVIOUS
  <2>5. old.next + 1 \in Nat
    BY <2>2
  <2>6. task \in PushTask
    BY <2>2, <2>4, <2>5 DEF PushTask
  <2>7. push' = [push EXCEPT ![u] = task]
    BY <1>1, <2>1, <2>3, <2>4, <1>7 DEF Answered
  <2>8. /\ push' \in [Upload -> PushTask \union {None}]
        /\ push'[u] = task /\ \A w \in Upload \ {u} : push'[w] = push[w]
    BY <2>6, <2>7 DEF Coherent, Types
  <2>9. /\ task.pc = "ready" /\ task.manifest = old.manifest /\ task.peers = old.peers
        /\ task.next = index + 1 /\ (task.accepted => old.accepted /\ accepted)
    BY <2>1, <2>3, <2>4
  <2>10. PushOK(u)'
    <3>1. Of(old.manifest, upload[u].content) /\ Len(old.peers) > 0
      BY <1>2, <2>1, <1>7 DEF Coherent, PushOK
    <3>2. upload[u].layout.fragments \in Nat
      BY <1>2, StartedIs DEF Coherent
    <3>3. index + 1 <= upload[u].layout.fragments
      BY <1>2, <3>2 DEF Fragment
    <3> QED
      BY <1>2, <2>8, <2>9, <3>1, <3>3 DEF PushOK, Of, Started
  <2>11. ASSUME NEW w \in Upload PROVE PushOK(w)'
    <3>1. CASE w = u
      BY <2>10, <3>1
    <3>2. CASE w # u
      BY <1>3, <2>8, <3>2, PushKept DEF Coherent
    <3> QED
      BY <3>1, <3>2
  <2>12. ASSUME NEW m \in inbox' PROVE MessageOK(m)'
    BY <1>3, <1>5, <2>8, MessageKept DEF Coherent
  <2>13. task # None
    BY <2>6, AbsenceAssumption
  <2> QED
    BY <1>1, <1>4, <1>7, <2>1, <2>8, <2>9, <2>11, <2>12, <2>13
<1> QED
  BY <1>6, <1>7

\* Refuse answers a POST and stores nothing.
LEMMA RefuseKeeps ==
  ASSUME Coherent, NEW msg \in inbox, Refuse(msg)
  PROVE  Coherent'
<1>1. /\ UNCHANGED <<upload, expired, store, optedIn, placed, removed>>
      /\ Answered(msg, FALSE)
  BY DEF Refuse
<1>2. /\ push' \in [Upload -> PushTask \union {None}]
      /\ inbox' = inbox \ {msg}
      /\ \A u \in Upload : PushOK(u)'
      /\ \A m \in inbox' : MessageOK(m)'
      /\ OnePost'
  BY <1>1, AnsweredIs
<1>3. inbox' \subseteq Message
  BY <1>2 DEF Coherent, Types
<1> QED
  BY <1>1, <1>2, <1>3, PushStep

\* StoreFragment answers it and stores all of it.
LEMMA StoreFragmentKeeps ==
  ASSUME Coherent, NEW msg \in inbox, StoreFragment(msg)
  PROVE  Coherent' /\ Stores(msg, WithShare(Target(msg), msg))
<1>1. /\ UNCHANGED <<upload, expired, optedIn, placed, removed>>
      /\ Answered(msg, TRUE)
  BY DEF StoreFragment
<1>2. Stores(msg, WithShare(Target(msg), msg))
  BY DEF StoreFragment, Stores, Target
<1>3. /\ push' \in [Upload -> PushTask \union {None}]
      /\ inbox' = inbox \ {msg}
      /\ \A u \in Upload : PushOK(u)'
      /\ \A m \in inbox' : MessageOK(m)'
      /\ OnePost'
  BY <1>1, AnsweredIs
<1>4. /\ store' \in [Node -> [Content -> Directory]]
      /\ \A m \in Node, e \in Content : StoreOK(m, e)'
  BY <1>1, <1>2, StoresKeeps
<1>5. Types'
  BY <1>1, <1>3, <1>4 DEF Coherent, Types
<1>6. \A w \in expired' : Started(w)'
  BY <1>1 DEF Coherent, Types, Started
<1> QED
  BY <1>2, <1>3, <1>4, <1>5, <1>6 DEF Coherent

\* CrashInStore stores a part of it.
LEMMA CrashInStoreKeeps ==
  ASSUME Coherent, NEW msg \in inbox, CrashInStore(msg)
  PROVE  Coherent' /\ \E d : Stores(msg, d)
<1>1. UNCHANGED <<upload, expired, placed, removed>> /\ Dies(msg.to) /\ msg.to \in Node
  BY DEF CrashInStore, Coherent, Types, Message
<1>2. PICK d : Stores(msg, d)
  BY DEF CrashInStore, Stores, Target
<1>3. /\ store' \in [Node -> [Content -> Directory]]
      /\ \A m \in Node, e \in Content : StoreOK(m, e)'
  BY <1>1, <1>2, StoresKeeps
<1>4. /\ push' \in [Upload -> PushTask \union {None}]
      /\ \A u \in Upload : push'[u] \in {None, push[u]}
      /\ inbox' \subseteq inbox /\ optedIn' \subseteq Node
  BY <1>1, DiesIs DEF Coherent
<1>5. UploadsKept
  BY <1>1, SameUploads DEF Coherent
<1>6. /\ expired' \subseteq Upload /\ \A u \in expired' : Started(u)'
      /\ placed' \subseteq Upload /\ removed' \subseteq Node \X Content
  BY <1>1 DEF Coherent, Types, Started
<1>7. Coherent'
  BY <1>3, <1>4, <1>5, <1>6, QuietStep
<1> QED
  BY <1>2, <1>7

-----------------------------------------------------------------------------
(* What no step takes from a directory, a task or an upload *)

\* A directory only grows, unless it is removed.
Grows(n, c) ==
  Kept(n, c)' =>
    /\ Kept(n, c)
    /\ DOMAIN store[n][c].bins \subseteq DOMAIN store'[n][c].bins
    /\ DOMAIN store[n][c].shares \subseteq DOMAIN store'[n][c].shares

\* No task, POST or manifest of the only upload of a content comes from nowhere.
TraceStep(u) == OnlyUpload(u)' /\ Trace(u)' => Trace(u)

\* An upload is placed at the end of a push that was accepted throughout.
PlacedStep(u) ==
  u \in placed' => u \in placed \/ (Started(u) /\ Fragment(u) \subseteq Pushed(u))

\* What a task has had accepted was accepted before, or is stored now.
PushedStep(u) ==
  \A i \in Pushed(u)' :
    i \in Pushed(u) \/ \E n \in Node : i \in DOMAIN store'[n][upload[u].content].shares

StepOK ==
  /\ UploadsKept
  /\ \A n \in Node, c \in Content : Grows(n, c)
  /\ \A u \in Upload : PlacedStep(u)
  /\ \A u \in Upload : Started(u) => TraceStep(u) /\ PushedStep(u)

\* Directories that stay as they are, or are removed.
LEMMA RemovalGrows ==
  ASSUME removed \subseteq removed',
         \A n \in Node, c \in Content :
           \/ store'[n][c] = store[n][c]
           \/ store'[n][c] = Absent /\ <<n, c>> \in removed'
  PROVE  \A n \in Node, c \in Content : Grows(n, c)
BY DEF Grows, Kept

\* Where they do, a manifest is no news.
LEMMA RemovalLeaves ==
  ASSUME Coherent, UploadsKept,
         \A n \in Node, c \in Content :
           \/ store'[n][c] = store[n][c]
           \/ store'[n][c] = Absent /\ <<n, c>> \in removed',
         NEW u \in Upload, Started(u)
  PROVE  store'[upload[u].origin][upload[u].content].manifest # None => Trace(u)
<1>1. upload[u].origin \in Node /\ upload[u].content \in Content
  BY StartedIs DEF Coherent
<1> QED
  BY <1>1, AbsentIs DEF Trace

\* A step that starts, advances and places nothing.
LEMMA QuietStepOK ==
  ASSUME Coherent, UploadsKept,
         \A u \in Upload : Started(u) => push'[u] \in {None, push[u]},
         \A m \in inbox' : \E msg \in inbox : m.upload = msg.upload,
         placed' = placed,
         \A n \in Node, c \in Content : Grows(n, c),
         \A u \in Upload : Started(u) /\ OnlyUpload(u)' =>
           (store'[upload[u].origin][upload[u].content].manifest # None => Trace(u))
  PROVE  StepOK
<1>1. ASSUME NEW u \in Upload, Started(u) PROVE TraceStep(u) /\ PushedStep(u)
  <2>1. upload'[u] = upload[u]
    BY <1>1 DEF UploadsKept
  <2>2. push'[u] \in {None, push[u]}
    BY <1>1
  <2>3. TraceStep(u)
    BY <1>1, <2>1, <2>2 DEF TraceStep, Trace
  <2>4. PushedStep(u)
    BY <2>2 DEF PushedStep, Pushed
  <2> QED
    BY <2>3, <2>4
<1> QED
  BY <1>1 DEF StepOK, PlacedStep

\* Begin writes to a directory, which grows; its upload is the only one that starts.
LEMMA BeginStep ==
  ASSUME Coherent, Coherent', NEW u \in Upload, NEW origin \in Uploader,
         NEW content \in Content, NEW layout \in Layout, Begin(u, origin, content, layout)
  PROVE  StepOK
<1>1. /\ UploadsKept /\ ~Started(u) /\ Started(u)'
      /\ upload'[u] = [origin |-> origin, content |-> content, layout |-> layout]
      /\ upload'[u].content = content
  BY FreshKeeps DEF Begin, Coherent
<1>2. /\ \A m \in Node, e \in Content :
           m # origin \/ e # content => store'[m][e] = store[m][e]
      /\ store'[origin][content].shares = store[origin][content].shares
      /\ DOMAIN store'[origin][content].bins =
           DOMAIN store[origin][content].bins \union 0..(layout.fragments - 1)
  BY BeginStore
<1>3. UNCHANGED <<expired, optedIn, inbox, placed, removed>>
      /\ push' = [push EXCEPT ![u] = [pc |-> "created"]]
  BY DEF Begin
<1>4. \A w \in Upload : Started(w) => push'[w] \in {None, push[w]}
  BY <1>1, <1>3 DEF Coherent, Types
<1>5. ASSUME NEW n \in Node, NEW c \in Content PROVE Grows(n, c)
  BY <1>2, <1>3 DEF Grows, Kept
<1>6. ASSUME NEW w \in Upload, Started(w), OnlyUpload(w)',
             store'[upload[w].origin][upload[w].content].manifest # None
      PROVE  Trace(w)
  <2>1. upload'[w] = upload[w] /\ w # u
    BY <1>1, <1>6 DEF UploadsKept
  <2>2. upload[w].content # content
    BY <1>1, <1>6, <2>1 DEF OnlyUpload
  <2>3. upload[w].origin \in Node /\ upload[w].content \in Content
    BY <1>6, StartedIs DEF Coherent
  <2> QED
    BY <1>2, <1>6, <2>2, <2>3 DEF Trace
<1> QED
  BY <1>1, <1>3, <1>4, <1>5, <1>6, QuietStepOK

\* CrashInBegin does the same and writes no manifest.
LEMMA CrashInBeginStep ==
  ASSUME Coherent, Coherent', NEW u \in Upload, NEW origin \in Uploader,
         NEW content \in Content, NEW layout \in Layout, NEW count \in 1..layout.fragments,
         CrashInBegin(u, origin, content, layout, count)
  PROVE  StepOK
<1>1. UploadsKept
  BY FreshKeeps DEF CrashInBegin, Coherent
<1>2. /\ \A m \in Node, e \in Content :
           m # origin \/ e # content => store'[m][e] = store[m][e]
      /\ store'[origin][content].manifest = store[origin][content].manifest
      /\ store'[origin][content].shares = store[origin][content].shares
      /\ DOMAIN store'[origin][content].bins =
           DOMAIN store[origin][content].bins \union 0..(count - 1)
  BY CrashInBeginStore
<1>3. UNCHANGED <<expired, placed, removed>>
  BY DEF CrashInBegin
<1>4. (\A w \in Upload : push'[w] \in {None, push[w]}) /\ inbox' \subseteq inbox
  BY DiesIs, FragmentsAssumption DEF CrashInBegin, Coherent
<1>5. ASSUME NEW n \in Node, NEW c \in Content PROVE Grows(n, c)
  BY <1>2, <1>3 DEF Grows, Kept
<1>6. ASSUME NEW w \in Upload, Started(w), OnlyUpload(w)',
             store'[upload[w].origin][upload[w].content].manifest # None
      PROVE  Trace(w)
  <2>1. upload[w].origin \in Node /\ upload[w].content \in Content
    BY <1>6, StartedIs DEF Coherent
  <2> QED
    BY <1>2, <1>6, <2>1 DEF Trace
<1> QED
  BY <1>1, <1>3, <1>4, <1>5, <1>6, QuietStepOK

\* The steps that leave every directory as it is, or remove some.
LEMMA RemovalStep ==
  ASSUME Coherent, upload' = upload, placed' = placed, removed \subseteq removed',
         \A u \in Upload : push'[u] \in {None, push[u]},
         \A m \in inbox' : \E msg \in inbox : m.upload = msg.upload,
         \A n \in Node, c \in Content :
           \/ store'[n][c] = store[n][c]
           \/ store'[n][c] = Absent /\ <<n, c>> \in removed'
  PROVE  StepOK
<1>1. UploadsKept
  BY SameUploads DEF Coherent
<1>2. \A n \in Node, c \in Content : Grows(n, c)
  BY RemovalGrows
<1>3. \A u \in Upload : Started(u) /\ OnlyUpload(u)' =>
        (store'[upload[u].origin][upload[u].content].manifest # None => Trace(u))
  BY <1>1, RemovalLeaves
<1> QED
  BY <1>1, <1>2, <1>3, QuietStepOK

\* The writes of a POST.
LEMMA StoresGrows ==
  ASSUME Coherent, upload' = upload, removed' = removed,
         NEW msg \in inbox, NEW d, Stores(msg, d)
  PROVE  /\ \A n \in Node, c \in Content : Grows(n, c)
         /\ \A u \in Upload : Started(u) /\ OnlyUpload(u)' =>
              (store'[upload[u].origin][upload[u].content].manifest # None => Trace(u))
<1>1. /\ msg.to \in Node /\ msg.upload \in Upload /\ Started(msg.upload)
      /\ upload[msg.upload].content \in Content
      /\ \A m \in Node, e \in Content :
           m # msg.to \/ e # upload[msg.upload].content => store'[m][e] = store[m][e]
      /\ store'[msg.to][upload[msg.upload].content] = d
      /\ DOMAIN d.bins = DOMAIN Target(msg).bins \union {msg.index}
      /\ DOMAIN Target(msg).shares \subseteq DOMAIN d.shares
  BY StoresKeeps
<1>2. ASSUME NEW n \in Node, NEW c \in Content PROVE Grows(n, c)
  BY <1>1 DEF Grows, Kept, Target
<1>3. ASSUME NEW u \in Upload, Started(u), OnlyUpload(u)',
             store'[upload[u].origin][upload[u].content].manifest # None
      PROVE  Trace(u)
  <2>1. upload[u].origin \in Node /\ upload[u].content \in Content
    BY <1>3, StartedIs DEF Coherent
  <2>2. CASE upload[u].content = upload[msg.upload].content
    <3>1. msg.upload = u
      BY <1>1, <1>3, <2>2 DEF OnlyUpload, Started
    <3> QED
      BY <3>1 DEF Trace
  <2>3. CASE upload[u].content # upload[msg.upload].content
    BY <1>1, <1>3, <2>1, <2>3 DEF Trace
  <2> QED
    BY <2>2, <2>3
<1> QED
  BY <1>2, <1>3

\* CrashInStore stores what a POST under way carries.
LEMMA CrashInStoreStep ==
  ASSUME Coherent, NEW msg \in inbox, CrashInStore(msg)
  PROVE  StepOK
<1>1. UNCHANGED <<upload, expired, placed, removed>> /\ Dies(msg.to) /\ msg.to \in Node
  BY DEF CrashInStore, Coherent, Types, Message
<1>2. PICK d : Stores(msg, d)
  BY CrashInStoreKeeps
<1>3. (\A u \in Upload : push'[u] \in {None, push[u]}) /\ inbox' \subseteq inbox
  BY <1>1, DiesIs DEF Coherent
<1>4. UploadsKept
  BY <1>1, SameUploads DEF Coherent
<1>5. /\ \A n \in Node, c \in Content : Grows(n, c)
      /\ \A u \in Upload : Started(u) /\ OnlyUpload(u)' =>
           (store'[upload[u].origin][upload[u].content].manifest # None => Trace(u))
  BY <1>1, <1>2, StoresGrows
<1> QED
  BY <1>1, <1>3, <1>4, <1>5, QuietStepOK

\* The steps of a push, which leave uploads and directories as they are.
LEMMA PushStepOK ==
  ASSUME Coherent, UNCHANGED <<upload, store, removed>>,
         \A u \in Upload : PlacedStep(u),
         \A u \in Upload : Started(u) => PushedStep(u),
         \A u \in Upload : push'[u] # None => push[u] # None,
         \A m \in inbox' : push[m.upload] # None \/ \E msg \in inbox : m.upload = msg.upload
  PROVE  StepOK
<1>1. UploadsKept
  BY SameUploads DEF Coherent
<1>2. \A n \in Node, c \in Content : Grows(n, c)
  BY DEF Grows, Kept
<1>3. ASSUME NEW u \in Upload, Started(u) PROVE TraceStep(u)
  BY DEF TraceStep, Trace
<1> QED
  BY <1>1, <1>2, <1>3 DEF StepOK

\* EndPush places an upload after its last fragment.
LEMMA EndPushStep ==
  ASSUME Coherent, NEW u \in Upload, EndPush(u)
  PROVE  StepOK
<1>1. /\ UNCHANGED <<upload, expired, store, optedIn, inbox, removed>>
      /\ push' = [push EXCEPT ![u] = None] /\ push[u] # None
  BY DEF EndPush
<1>2. \A w \in Upload : push'[w] \in {None, push[w]}
  BY <1>1 DEF Coherent, Types
<1>3. ASSUME NEW w \in Upload PROVE PlacedStep(w)
  <2> SUFFICES ASSUME w \in placed', w \notin placed
               PROVE  Started(w) /\ Fragment(w) \subseteq Pushed(w)
    BY DEF PlacedStep
  <2>1. /\ w = u /\ push[u].pc = "ready" /\ push[u].accepted
        /\ push[u].next = upload[u].layout.fragments
    BY DEF EndPush
  <2> QED
    BY <1>1, <2>1 DEF Coherent, PushOK, Fragment, Pushed
<1>4. \A w \in Upload : Started(w) => PushedStep(w)
  BY <1>2 DEF PushedStep, Pushed
<1>5. \A w \in Upload : push'[w] # None => push[w] # None
  BY <1>2
<1> QED
  BY <1>1, <1>3, <1>4, <1>5, PushStepOK

\* Discover starts at fragment 0, so nothing was accepted yet.
LEMMA DiscoverStep ==
  ASSUME Coherent, NEW u \in Upload, NEW peers \in PeerOrders, Discover(u, peers)
  PROVE  StepOK
<1>1. PICK task : /\ task.next = 0
                  /\ push' = [push EXCEPT ![u] = task]
  BY DEF Discover
<1>2. UNCHANGED <<upload, expired, store, optedIn, inbox, placed, removed>> /\ push[u] # None
  BY DEF Discover
<1>3. push'[u] = task /\ \A w \in Upload \ {u} : push'[w] = push[w]
  BY <1>1 DEF Coherent, Types
<1>4. \A w \in Upload : PlacedStep(w)
  BY <1>2 DEF PlacedStep
<1>5. ASSUME NEW w \in Upload PROVE PushedStep(w)
  <2>1. CASE w = u
    <3>1. Pushed(u)' = {}
      BY <1>1, <1>3 DEF Pushed
    <3> QED
      BY <2>1, <3>1 DEF PushedStep
  <2>2. CASE w # u
    BY <1>3, <2>2 DEF PushedStep, Pushed
  <2> QED
    BY <2>1, <2>2
<1>6. \A w \in Upload : push'[w] # None => push[w] # None
  BY <1>2, <1>3
<1> QED
  BY <1>2, <1>4, <1>5, <1>6, PushStepOK

\* Post leaves what was accepted.
LEMMA PostStep ==
  ASSUME Coherent, NEW u \in Upload, Post(u)
  PROVE  StepOK
<1>1. PICK new \in Message : new.upload = u /\ inbox' = inbox \union {new}
  BY PostIs
<1>2. /\ UNCHANGED <<upload, expired, store, optedIn, placed, removed>>
      /\ push[u] # None /\ push[u].pc = "ready"
      /\ push' = [push EXCEPT ![u].pc = "waiting"]
  BY DEF Post
<1>3. PICK old \in PushTask : old = push[u] /\ old.pc = "ready"
  BY <1>2 DEF Coherent, Types
<1>4. old = [pc |-> "ready", manifest |-> old.manifest, peers |-> old.peers,
             next |-> old.next, accepted |-> old.accepted]
  BY <1>3 DEF PushTask
<1>5. PICK task : task = [old EXCEPT !.pc = "waiting"]
  OBVIOUS
<1>6. task.next = old.next /\ task.accepted = old.accepted /\ task.pc = "waiting"
  BY <1>4, <1>5
<1>7. push'[u] = task /\ \A w \in Upload \ {u} : push'[w] = push[w]
  BY <1>2, <1>3, <1>5 DEF Coherent, Types
<1>8. \A w \in Upload : PlacedStep(w)
  BY <1>2 DEF PlacedStep
<1>9. ASSUME NEW w \in Upload PROVE PushedStep(w)
  <2>1. CASE w = u
    <3>1. Pushed(u)' \subseteq Pushed(u)
      BY <1>2, <1>3, <1>6, <1>7 DEF Pushed
    <3> QED
      BY <2>1, <3>1 DEF PushedStep
  <2>2. CASE w # u
    BY <1>7, <2>2 DEF PushedStep, Pushed
  <2> QED
    BY <2>1, <2>2
<1>10. \A w \in Upload : push'[w] # None => push[w] # None
  BY <1>2, <1>7
<1>11. \A m \in inbox' : push[m.upload] # None \/ \E msg \in inbox : m.upload = msg.upload
  BY <1>1, <1>2
<1> QED
  BY <1>2, <1>8, <1>9, <1>10, <1>11, PushStepOK

\* Admit moves a POST that was there.
LEMMA AdmitStep ==
  ASSUME Coherent, NEW msg \in inbox, Admit(msg)
  PROVE  StepOK
<1>1. PICK new \in Message : new.upload = msg.upload /\ inbox' = (inbox \ {msg}) \union {new}
  BY AdmitIs
<1>2. UNCHANGED <<upload, expired, store, optedIn, push, placed, removed>>
  BY DEF Admit
<1>3. \A m \in inbox' : \E old \in inbox : m.upload = old.upload
  BY <1>1
<1> QED
  BY <1>2, <1>3, RemovalStep

\* The count of an answered POST moves by one; its fragment is stored if it is
\* counted as accepted.
LEMMA AnsweredStep ==
  ASSUME Coherent, UNCHANGED <<upload, placed>>, NEW msg \in inbox,
         NEW accepted \in BOOLEAN, Answered(msg, accepted),
         accepted => msg.index \in DOMAIN store'[msg.to][upload[msg.upload].content].shares
  PROVE  /\ \A u \in Upload : PlacedStep(u)
         /\ \A u \in Upload : Started(u) => PushedStep(u)
         /\ \A u \in Upload : push'[u] # None => push[u] # None
         /\ inbox' \subseteq inbox
<1>1. /\ inbox' = inbox \ {msg}
      /\ \A u \in Upload :
           \/ push'[u] = push[u]
           \/ /\ u = msg.upload /\ push[u] # None /\ push'[u] # None
              /\ push[u].pc = "waiting" /\ push[u].next = msg.index
              /\ push'[u].next = push[u].next + 1
              /\ push'[u].accepted => push[u].accepted /\ accepted
  BY AnsweredIs
<1>2. msg.index \in Nat /\ msg.to \in Node
  BY DEF Coherent, Types, Message
<1>3. ASSUME NEW u \in Upload PROVE PushedStep(u)
  <2>1. CASE push'[u] = push[u]
    BY <2>1 DEF PushedStep, Pushed
  <2>2. CASE /\ u = msg.upload /\ push[u] # None /\ push'[u] # None
             /\ push[u].pc = "waiting" /\ push[u].next = msg.index
             /\ push'[u].next = push[u].next + 1
             /\ push'[u].accepted => push[u].accepted /\ accepted
    <3> SUFFICES ASSUME NEW i \in Pushed(u)', i \notin Pushed(u)
                 PROVE  \E n \in Node : i \in DOMAIN store'[n][upload[u].content].shares
      BY DEF PushedStep
    <3>1. i \in 0..msg.index /\ push[u].accepted /\ accepted
      BY <1>2, <2>2 DEF Pushed
    <3>2. i \notin 0..(msg.index - 1)
      BY <2>2, <3>1 DEF Pushed
    <3>3. i = msg.index
      BY <1>2, <3>1, <3>2
    <3> QED
      BY <1>2, <2>2, <3>1, <3>3
  <2> QED
    BY <1>1, <2>1, <2>2
<1> QED
  BY <1>1, <1>3 DEF PlacedStep

\* Refuse counts its fragment as not accepted.
LEMMA RefuseStep ==
  ASSUME Coherent, NEW msg \in inbox, Refuse(msg)
  PROVE  StepOK
<1>1. UNCHANGED <<upload, expired, store, optedIn, placed, removed>> /\ Answered(msg, FALSE)
  BY DEF Refuse
<1>2. /\ \A u \in Upload : PlacedStep(u)
      /\ \A u \in Upload : Started(u) => PushedStep(u)
      /\ \A u \in Upload : push'[u] # None => push[u] # None
      /\ inbox' \subseteq inbox
  BY <1>1, AnsweredStep
<1> QED
  BY <1>1, <1>2, PushStepOK

\* StoreFragment counts its fragment as accepted, and stores it.
LEMMA StoreFragmentStep ==
  ASSUME Coherent, NEW msg \in inbox, StoreFragment(msg)
  PROVE  StepOK
<1>1. UNCHANGED <<upload, expired, optedIn, placed, removed>> /\ Answered(msg, TRUE)
  BY DEF StoreFragment
<1>2. PICK d : d = WithShare(Target(msg), msg) /\ Stores(msg, d)
  BY StoreFragmentKeeps
<1>3. /\ store'[msg.to][upload[msg.upload].content] = d
      /\ d = WithShare(Target(msg), msg) => msg.index \in DOMAIN d.shares
  BY <1>1, <1>2, StoresKeeps
<1>4. /\ \A u \in Upload : PlacedStep(u)
      /\ \A u \in Upload : Started(u) => PushedStep(u)
      /\ \A u \in Upload : push'[u] # None => push[u] # None
      /\ inbox' \subseteq inbox
  BY <1>1, <1>2, <1>3, AnsweredStep
<1>5. /\ \A n \in Node, c \in Content : Grows(n, c)
      /\ \A u \in Upload : Started(u) /\ OnlyUpload(u)' =>
           (store'[upload[u].origin][upload[u].content].manifest # None => Trace(u))
  BY <1>1, <1>2, StoresGrows
<1>6. ASSUME NEW u \in Upload, Started(u) PROVE TraceStep(u)
  <2>1. upload' = upload
    BY <1>1
  <2> QED
    BY <1>4, <1>5, <1>6, <2>1 DEF TraceStep, Trace
<1>7. UploadsKept
  BY <1>1, SameUploads DEF Coherent
<1> QED
  BY <1>4, <1>5, <1>6, <1>7 DEF StepOK

-----------------------------------------------------------------------------
(* Every step keeps what is whole and what was accepted *)

\* An upload that is the only one of its content has been so from its start.
LEMMA OnlyUploadWas ==
  ASSUME UploadsKept, NEW u \in Upload, Started(u), OnlyUpload(u)'
  PROVE  OnlyUpload(u)
BY DEF UploadsKept, OnlyUpload, Started

\* What is whole stays so: its directory grows, and no trace is new.
LEMMA WholeStep ==
  ASSUME Coherent, StepOK, NEW u \in Upload, Started(u), WholeAtOrigin(u)
  PROVE  WholeAtOrigin(u)'
<1>1. /\ upload'[u] = upload[u] /\ Fragment(u)' = Fragment(u)
      /\ upload[u].origin \in Node /\ upload[u].content \in Content
  BY StartedIs, KeptIs DEF StepOK, Coherent
<1> SUFFICES ASSUME OnlyUpload(u)', Kept(upload[u].origin, upload[u].content)', Trace(u)'
             PROVE  Fragment(u) \subseteq DOMAIN store'[upload[u].origin][upload[u].content].bins
  BY <1>1 DEF WholeAtOrigin, Kept
<1>2. OnlyUpload(u) /\ Trace(u)
  BY OnlyUploadWas DEF StepOK, TraceStep
<1>3. /\ Kept(upload[u].origin, upload[u].content)
      /\ DOMAIN store[upload[u].origin][upload[u].content].bins \subseteq
           DOMAIN store'[upload[u].origin][upload[u].content].bins
  BY <1>1 DEF StepOK, Grows
<1> QED
  BY <1>2, <1>3 DEF WholeAtOrigin

\* What was accepted stays so: it is stored, and directories only grow.
LEMMA AcceptedStep ==
  ASSUME Coherent, StepOK, NEW u \in Upload, Started(u), AcceptedOK(u)
  PROVE  AcceptedOK(u)'
<1>1. /\ upload'[u] = upload[u] /\ Fragment(u)' = Fragment(u) /\ Started(u)'
      /\ upload[u].content \in Content
  BY StartedIs, KeptIs DEF StepOK, Coherent
<1> SUFFICES ASSUME OnlyUpload(u)', \A n \in Node : Kept(n, upload[u].content)'
             PROVE  /\ u \in placed' => \A i \in Fragment(u) : Accepted(u, i)'
                    /\ \A i \in Pushed(u)' : Accepted(u, i)'
  BY <1>1 DEF AcceptedOK, Kept
<1>2. OnlyUpload(u)
  BY OnlyUploadWas DEF StepOK
<1>3. \A n \in Node : /\ Kept(n, upload[u].content)
                      /\ DOMAIN store[n][upload[u].content].shares \subseteq
                           DOMAIN store'[n][upload[u].content].shares
  BY <1>1 DEF StepOK, Grows
<1>4. /\ u \in placed => \A i \in Fragment(u) : Accepted(u, i)
      /\ \A i \in Pushed(u) : Accepted(u, i)
  BY <1>2, <1>3 DEF AcceptedOK
<1>5. ASSUME NEW i, Accepted(u, i) PROVE Accepted(u, i)'
  BY <1>1, <1>3, <1>5 DEF Accepted
<1>6. ASSUME u \in placed', NEW i \in Fragment(u) PROVE Accepted(u, i)'
  BY <1>4, <1>5, <1>6 DEF StepOK, PlacedStep
<1>7. ASSUME NEW i \in Pushed(u)' PROVE Accepted(u, i)'
  <2>1. CASE i \in Pushed(u)
    BY <1>4, <1>5, <2>1
  <2>2. CASE \E n \in Node : i \in DOMAIN store'[n][upload[u].content].shares
    BY <1>1, <2>2 DEF Accepted
  <2> QED
    BY <2>1, <2>2 DEF StepOK, PushedStep
<1> QED
  BY <1>6, <1>7

\* An upload that begins has everything where it was made, or leaves no trace.
LEMMA FreshWhole ==
  ASSUME Coherent, Coherent', NEW u \in Upload, NEW origin \in Uploader,
         NEW content \in Content, NEW layout \in Layout, AcceptedOK(u),
         \/ Begin(u, origin, content, layout)
         \/ \E count \in 1..layout.fragments : CrashInBegin(u, origin, content, layout, count)
  PROVE  WholeAtOrigin(u)' /\ AcceptedOK(u)'
<1>1. Fresh(u, origin, content, layout) /\ placed' = placed
  BY DEF Begin, CrashInBegin
<1>2. /\ UploadsKept /\ ~Started(u) /\ Started(u)'
      /\ upload'[u] = [origin |-> origin, content |-> content, layout |-> layout]
      /\ \A w \in Upload \ {u} : upload'[w] = upload[w]
  BY <1>1, FreshKeeps DEF Coherent
<1>3. upload'[u].origin = origin /\ upload'[u].content = content /\ upload'[u].layout = layout
  BY <1>2
<1>4. u \notin placed'
  BY <1>1, <1>2 DEF AcceptedOK
<1>5. push[u] = None /\ \A msg \in inbox : msg.upload # u
  BY <1>2 DEF Coherent, PushOK, MessageOK
<1>6. CASE Begin(u, origin, content, layout)
  <2>1. push'[u] = [pc |-> "created"]
    BY <1>6 DEF Begin, Coherent, Types
  <2>2. Pushed(u)' = {}
    BY <2>1 DEF Pushed
  <2>3. 0..(layout.fragments - 1) \subseteq DOMAIN store'[origin][content].bins
    BY <1>6, BeginStore
  <2>4. Fragment(u)' \subseteq DOMAIN store'[origin][content].bins
    BY <1>3, <2>3 DEF Fragment
  <2> QED
    BY <1>2, <1>3, <1>4, <2>2, <2>4 DEF WholeAtOrigin, AcceptedOK
<1>7. CASE \E count \in 1..layout.fragments : CrashInBegin(u, origin, content, layout, count)
  <2>1. PICK count \in 1..layout.fragments : CrashInBegin(u, origin, content, layout, count)
    BY <1>7
  <2>2. (\A w \in Upload : push'[w] \in {None, push[w]}) /\ inbox' \subseteq inbox
    <3>1. Dies(origin) /\ origin \in Node
      BY <2>1, FragmentsAssumption DEF CrashInBegin
    <3> QED
      BY <3>1, DiesIs DEF Coherent
  <2>3. store'[origin][content].manifest = store[origin][content].manifest
    BY <2>1, CrashInBeginStore
  <2>4. push'[u] = None
    BY <1>5, <2>2
  <2>5. Pushed(u)' = {}
    BY <2>4 DEF Pushed
  <2>6. ASSUME OnlyUpload(u)', Trace(u)' PROVE FALSE
    <3>1. store[origin][content].manifest # None
      BY <1>3, <1>5, <2>2, <2>3, <2>4, <2>6 DEF Trace
    <3>2. origin \in Node /\ store[origin][content] \in Directory
      BY FragmentsAssumption DEF Coherent, Types
    <3>3. PICK w \in Upload : w = store[origin][content].manifest /\ Of(w, content)
      <4>1. store[origin][content].manifest \in Upload
        BY <3>1, <3>2, DirectoryIs
      <4> QED
        BY <3>1, <3>2, <4>1 DEF Coherent, StoreOK
    <3>4. w # u /\ Started(w) /\ upload'[w] = upload[w]
      BY <1>2, <3>3 DEF Of, UploadsKept
    <3> QED
      BY <1>3, <2>6, <3>3, <3>4 DEF OnlyUpload, Of, Started
  <2> QED
    BY <1>2, <1>4, <2>5, <2>6 DEF WholeAtOrigin, AcceptedOK
<1> QED
  BY <1>6, <1>7

-----------------------------------------------------------------------------
(* Every step keeps room for what was admitted *)

\* A file is as large as its bytes.
LEMMA FileIs ==
  ASSUME NEW c, NEW kind, NEW i, NEW bytes \in Nat
  PROVE  /\ IsFiniteSet(File(c, kind, i, bytes))
         /\ Cardinality(File(c, kind, i, bytes)) = bytes
<1> DEFINE place == <<c, kind, i>>
<1>1. IsFiniteSet({place}) /\ Cardinality({place}) = 1
  BY FS_Singleton
<1>2. IsFiniteSet(1..bytes) /\ Cardinality(1..bytes) = bytes
  BY FS_Interval
<1> HIDE DEF place
<1>3. /\ IsFiniteSet({place} \X (1..bytes))
      /\ Cardinality({place} \X (1..bytes)) = Cardinality({place}) * Cardinality(1..bytes)
  BY <1>1, <1>2, FS_Product
<1>4. Cardinality({place} \X (1..bytes)) = bytes
  BY <1>1, <1>2, <1>3
<1> QED
  BY <1>3, <1>4 DEF File, place

\* A union is no larger than its parts together.
LEMMA UnionBound ==
  ASSUME NEW S, IsFiniteSet(S), NEW T, IsFiniteSet(T)
  PROVE  /\ IsFiniteSet(S \union T)
         /\ Cardinality(S \union T) <= Cardinality(S) + Cardinality(T)
<1>1. /\ IsFiniteSet(S \union T) /\ IsFiniteSet(S \cap T)
      /\ Cardinality(S \union T) = Cardinality(S) + Cardinality(T) - Cardinality(S \cap T)
  BY FS_Union, FS_Intersection
<1>2. Cardinality(S) \in Nat /\ Cardinality(T) \in Nat /\ Cardinality(S \cap T) \in Nat
  BY <1>1, FS_CardinalityType
<1> QED
  BY <1>1, <1>2

\* The sizes of what a started upload writes.
LEMMA SizesAre ==
  ASSUME Types, NEW u \in Upload, Started(u)
  PROVE  /\ upload[u].layout.manifest \in Nat /\ upload[u].layout.share \in Nat
         /\ \A i \in Fragment(u) : upload[u].layout.size[i] \in Nat
<1>1. upload[u].layout \in Layout
  BY StartedIs
<1> QED
  BY <1>1, FragmentsAssumption DEF Fragment

\* What finitely many finite sets cover is finite.
LEMMA FiniteCover ==
  ASSUME NEW S, IsFiniteSet(S), NEW f, \A x \in S : IsFiniteSet(f[x]),
         NEW U, \A y \in U : \E x \in S : y \in f[x]
  PROVE  IsFiniteSet(U)
<1> DEFINE g == [x \in S |-> f[x]]
           T == {f[x] : x \in S}
<1>1. g \in Surjection(S, T)
  BY DEF Surjection
<1> HIDE DEF g
<1>2. IsFiniteSet(T)
  BY <1>1, FS_Surjection
<1>3. \A t \in T : IsFiniteSet(t)
  OBVIOUS
<1>4. \A y \in U : y \in UNION T
  OBVIOUS
<1> HIDE DEF T
<1>5. IsFiniteSet(UNION T)
  BY <1>2, <1>3, FS_UNION
<1> QED
  BY <1>4, <1>5, FS_Subset

\* What POSTs bring beside one fragment, given the records of the uploads.
Begun(up) == {u \in Upload : up[u] # None}

Bins(up, u) ==
  UNION {File(u, "fragment", 0, up[u].layout.size[i]) : i \in 0..(up[u].layout.fragments - 1)}

OtherBins(up, last) == UNION {Bins(up, u) : u \in Begun(up) \ {last}}

Manifests(up) ==
  UNION {File(u, "manifest", 0, up[w].layout.manifest) : u, w \in Begun(up)}

Shares(up) == UNION {File(u, "share", 0, up[u].layout.share) : u \in Begun(up)}

BesideOf(up, last) == OtherBins(up, last) \union Manifests(up) \union Shares(up)

\* It is finite.
LEMMA BesideIs ==
  ASSUME NEW up \in [Upload -> UploadRecord \union {None}],
         IsFiniteSet(Begun(up)), NEW last
  PROVE  IsFiniteSet(BesideOf(up, last))
<1> DEFINE begun == Begun(up)
           Indices(u) == 0..(up[u].layout.fragments - 1)
<1>0. ASSUME NEW u \in begun
      PROVE  /\ up[u].layout.fragments \in Nat
             /\ up[u].layout.manifest \in Nat /\ up[u].layout.share \in Nat
             /\ \A i \in Indices(u) : up[u].layout.size[i] \in Nat
  <2>1. up[u] \in UploadRecord
    BY DEF Begun
  <2>2. up[u].layout \in Layout
    BY <2>1 DEF UploadRecord
  <2> QED
    BY <2>2, FragmentsAssumption
<1> DEFINE others == begun \ {last}
           pairs == begun \X begun
           A == OtherBins(up, last)
           B == Manifests(up)
           C == Shares(up)
<1>1. BesideOf(up, last) = A \union B \union C
  BY DEF BesideOf
<1>2. IsFiniteSet(others) /\ IsFiniteSet(pairs) /\ IsFiniteSet(begun)
  BY FS_RemoveElement, FS_Product
<1>3. ASSUME NEW u \in begun PROVE IsFiniteSet(Bins(up, u))
  <2> DEFINE f == [i \in Indices(u) |-> File(u, "fragment", 0, up[u].layout.size[i])]
  <2>1. IsFiniteSet(Indices(u))
    BY <1>0, FS_Interval
  <2>2. \A i \in Indices(u) : IsFiniteSet(f[i])
    BY <1>0, FileIs
  <2>3. \A y \in Bins(up, u) : \E i \in Indices(u) : y \in f[i]
    BY DEF Bins
  <2> HIDE DEF f, Indices
  <2> QED
    BY <2>1, <2>2, <2>3, FiniteCover
<1>4. IsFiniteSet(A)
  <2> DEFINE f == [u \in others |-> Bins(up, u)]
  <2>1. \A u \in others : IsFiniteSet(f[u])
    BY <1>3
  <2>2. \A y \in A : \E u \in others : y \in f[u]
    BY DEF OtherBins
  <2> HIDE DEF f, A, others
  <2> QED
    BY <1>2, <2>1, <2>2, FiniteCover
<1>5. IsFiniteSet(B)
  <2> DEFINE f == [z \in pairs |-> File(z[1], "manifest", 0, up[z[2]].layout.manifest)]
  <2>1. ASSUME NEW z \in pairs PROVE IsFiniteSet(f[z])
    <3>1. up[z[2]].layout.manifest \in Nat
      BY <1>0
    <3> QED
      BY <3>1, FileIs
  <2>2. ASSUME NEW y \in B PROVE \E z \in pairs : y \in f[z]
    <3>1. PICK u \in begun, w \in begun : y \in File(u, "manifest", 0, up[w].layout.manifest)
      BY DEF Manifests
    <3>2. <<u, w>> \in pairs /\ f[<<u, w>>] = File(u, "manifest", 0, up[w].layout.manifest)
      OBVIOUS
    <3> HIDE DEF f, pairs
    <3> QED
      BY <3>1, <3>2
  <2> HIDE DEF f, B, pairs
  <2> QED
    BY <1>2, <2>1, <2>2, FiniteCover
<1>6. IsFiniteSet(C)
  <2> DEFINE f == [u \in begun |-> File(u, "share", 0, up[u].layout.share)]
  <2>1. \A u \in begun : IsFiniteSet(f[u])
    BY <1>0, FileIs
  <2>2. \A y \in C : \E u \in begun : y \in f[u]
    BY DEF Shares
  <2> HIDE DEF f, C, begun
  <2> QED
    BY <1>2, <2>1, <2>2, FiniteCover
<1> HIDE DEF A, B, C
<1>7. IsFiniteSet(A \union B)
  BY <1>4, <1>5, FS_Union
<1>8. IsFiniteSet((A \union B) \union C)
  BY <1>6, <1>7, FS_Union
<1> QED
  BY <1>1, <1>8

\* What is in it.
LEMMA BesideHas ==
  ASSUME NEW up, NEW last, NEW x
  PROVE  x \in BesideOf(up, last) <=>
           \/ \E u \in Upload : up[u] # None /\ u # last /\
                \E i \in 0..(up[u].layout.fragments - 1) :
                  x \in File(u, "fragment", 0, up[u].layout.size[i])
           \/ \E u, w \in Upload : up[u] # None /\ up[w] # None /\
                x \in File(u, "manifest", 0, up[w].layout.manifest)
           \/ \E u \in Upload : up[u] # None /\ x \in File(u, "share", 0, up[u].layout.share)
<1>1. \A u : x \in Bins(up, u) <=> \E i \in 0..(up[u].layout.fragments - 1) :
                                 x \in File(u, "fragment", 0, up[u].layout.size[i])
  BY DEF Bins
<1>2. x \in OtherBins(up, last) <=>
        \E u \in Upload : up[u] # None /\ u # last /\ x \in Bins(up, u)
  BY DEF OtherBins, Begun
<1>3. x \in Manifests(up) <=> \E u, w \in Upload : up[u] # None /\ up[w] # None /\
                               x \in File(u, "manifest", 0, up[w].layout.manifest)
  BY DEF Manifests, Begun
<1>4. x \in Shares(up) <=>
        \E u \in Upload : up[u] # None /\ x \in File(u, "share", 0, up[u].layout.share)
  BY DEF Shares, Begun
<1> QED
  BY <1>1, <1>2, <1>3, <1>4 DEF BesideOf

\* It is what Fragments says, now and after the step.
LEMMA BesideThen ==
  ASSUME NEW last
  PROVE  Beside(last) = BesideOf(upload, last) /\ Beside(last)' = BesideOf(upload', last)
<1>1. Beside(last) = BesideOf(upload, last)
  <2>1. {u \in Upload : Started(u)} = Begun(upload)
    BY DEF Begun, Started
  <2>2. \A u \in Upload : UNION {File(u, "fragment", 0, upload[u].layout.size[i]) :
                               i \in Fragment(u)} = Bins(upload, u)
    BY DEF Bins, Fragment
  <2>3. UNION {UNION {File(u, "fragment", 0, upload[u].layout.size[i]) : i \in Fragment(u)} :
                 u \in {w \in Upload : Started(w)} \ {last}} = OtherBins(upload, last)
    BY <2>1, <2>2 DEF OtherBins
  <2>4. UNION {File(u, "manifest", 0, upload[w].layout.manifest) :
                 u, w \in {w \in Upload : Started(w)}} = Manifests(upload)
    BY <2>1 DEF Manifests
  <2>5. UNION {File(u, "share", 0, upload[u].layout.share) :
                 u \in {w \in Upload : Started(w)}} = Shares(upload)
    BY <2>1 DEF Shares
  <2> QED
    BY <2>3, <2>4, <2>5 DEF Beside, BesideOf, File
<1>2. Beside(last)' = BesideOf(upload', last)
  <2>1. {u \in Upload : Started(u)'} = Begun(upload')
    BY DEF Begun, Started
  <2>2. \A u \in Upload : UNION {File(u, "fragment", 0, upload'[u].layout.size[i]) :
                               i \in Fragment(u)'} = Bins(upload', u)
    BY DEF Bins, Fragment
  <2>3. UNION {UNION {File(u, "fragment", 0, upload'[u].layout.size[i]) : i \in Fragment(u)'} :
                 u \in {w \in Upload : Started(w)'} \ {last}} = OtherBins(upload', last)
    BY <2>1, <2>2 DEF OtherBins
  <2>4. UNION {File(u, "manifest", 0, upload'[w].layout.manifest) :
                 u, w \in {w \in Upload : Started(w)'}} = Manifests(upload')
    BY <2>1 DEF Manifests
  <2>5. UNION {File(u, "share", 0, upload'[u].layout.share) :
                 u \in {w \in Upload : Started(w)'}} = Shares(upload')
    BY <2>1 DEF Shares
  <2> QED
    BY <2>3, <2>4, <2>5 DEF Beside, BesideOf, File
<1> QED
  BY <1>1, <1>2

\* So it is finite now and d.
LEMMA BesideFinite ==
  ASSUME NEW last
  PROVE  /\ Types /\ IsFiniteSet(StartedUploads) => IsFiniteSet(Beside(last))
         /\ Types' /\ IsFiniteSet(StartedUploads') => IsFiniteSet(Beside(last)')
BY BesideIs, BesideThen DEF StartedUploads, Started, Begun, Types

\* It grows with the uploads.
LEMMA BesideGrows ==
  ASSUME UploadsKept, NEW last
  PROVE  Beside(last) \subseteq Beside(last)'
<1>1. \A u \in Upload : upload[u] # None => upload'[u] = upload[u]
  BY DEF UploadsKept, Started
<1>2. ASSUME NEW x \in BesideOf(upload, last) PROVE x \in BesideOf(upload', last)
  <2> DEFINE Has(up, u) == u \in Upload /\ up[u] # None
             Bin(up, u) == \E i \in 0..(up[u].layout.fragments - 1) :
                             x \in File(u, "fragment", 0, up[u].layout.size[i])
             In(up) == \/ \E u : Has(up, u) /\ u # last /\ Bin(up, u)
                       \/ \E u, w : Has(up, u) /\ Has(up, w) /\
                            x \in File(u, "manifest", 0, up[w].layout.manifest)
                       \/ \E u : Has(up, u) /\ x \in File(u, "share", 0, up[u].layout.share)
  <2>1. In(upload)
    BY BesideHas
  <2>2. \A u : Has(upload, u) => Has(upload', u) /\ upload'[u] = upload[u]
    BY <1>1
  <2>3. \A u : Has(upload, u) /\ Bin(upload, u) => Bin(upload', u)
    BY <2>2
  <2> HIDE DEF Has, Bin
  <2>4. In(upload')
    BY <2>1, <2>2, <2>3
  <2> QED
    BY <2>4, BesideHas DEF Has, Bin
<1> QED
  BY <1>2, BesideThen

\* Fewer bytes are bounded too, and more uploads bound no less.
LEMMA BoundedStays ==
  ASSUME Coherent, Coherent', UploadsKept,
         IsFiniteSet(StartedUploads), IsFiniteSet(StartedUploads'),
         NEW n \in Node, NEW many \in Nat, NEW few \in Nat, few <= many, Bounded(n, many)
  PROVE  \/ few <= Capacity[n]
         \/ \E last \in StartedUploads' : few <= Capacity[n] + Cardinality(Beside(last)')
<1>1. Capacity[n] \in Nat
  BY FragmentsAssumption
<1>2. CASE many <= Capacity[n]
  BY <1>1, <1>2 DEF Bounded
<1>3. CASE \E last \in StartedUploads : many <= Capacity[n] + Cardinality(Beside(last))
  <2>1. PICK last \in StartedUploads : many <= Capacity[n] + Cardinality(Beside(last))
    BY <1>3
  <2>2. IsFiniteSet(Beside(last)) /\ IsFiniteSet(Beside(last)')
    BY BesideFinite DEF Coherent
  <2>3. Beside(last) \in SUBSET (Beside(last)')
    BY BesideGrows DEF Coherent
  <2> DEFINE now == Beside(last)
             then == Beside(last)'
  <2> HIDE DEF now, then
  <2>4. Cardinality(now) <= Cardinality(then)
    BY <2>2, <2>3, FS_Subset DEF now, then
  <2>5. Cardinality(now) \in Nat /\ Cardinality(then) \in Nat
    BY <2>2, FS_CardinalityType DEF now, then
  <2>6. few <= Capacity[n] + Cardinality(then)
    BY <1>1, <2>1, <2>4, <2>5 DEF now
  <2>7. last \in StartedUploads'
    BY KeptIs DEF StartedUploads, Coherent
  <2> QED
    BY <2>6, <2>7 DEF then
<1> QED
  BY <1>2, <1>3 DEF Bounded

\* The bytes of a node are those of its fragments, shares and manifests.
LEMMA BytesAre ==
  ASSUME NEW n, NEW z
  PROVE  z \in Bytes(n) <=>
           \E c \in Content :
             \/ \E i \in DOMAIN store[n][c].bins :
                  z \in File(c, "fragment", i, upload[store[n][c].bins[i]].layout.size[i])
             \/ \E i \in DOMAIN store[n][c].shares :
                  z \in File(c, "share", i, upload[store[n][c].shares[i].upload].layout.share)
             \/ /\ store[n][c].manifest # None
                /\ z \in File(c, "manifest", 0, upload[store[n][c].manifest].layout.manifest)
<1>1. z \in Bytes(n) <=> \E c \in Content : z \in BytesIn(c, store[n][c])
  BY DEF Bytes
<1>2. ASSUME NEW c \in Content
      PROVE  z \in BytesIn(c, store[n][c]) <=>
               \/ \E i \in DOMAIN store[n][c].bins :
                    z \in File(c, "fragment", i, upload[store[n][c].bins[i]].layout.size[i])
               \/ \E i \in DOMAIN store[n][c].shares :
                    z \in File(c, "share", i, upload[store[n][c].shares[i].upload].layout.share)
               \/ /\ store[n][c].manifest # None
                  /\ z \in File(c, "manifest", 0, upload[store[n][c].manifest].layout.manifest)
  <2> DEFINE bins == UNION {File(c, "fragment", i, upload[store[n][c].bins[i]].layout.size[i]) :
                              i \in DOMAIN store[n][c].bins}
             shares == UNION {File(c, "share", i, upload[store[n][c].shares[i].upload].layout.share) :
                                i \in DOMAIN store[n][c].shares}
             manifest == IF store[n][c].manifest = None THEN {}
                         ELSE File(c, "manifest", 0, upload[store[n][c].manifest].layout.manifest)
  <2>1. BytesIn(c, store[n][c]) = bins \union shares \union manifest
    BY DEF BytesIn, File
  <2>2. z \in bins <=> \E i \in DOMAIN store[n][c].bins :
                       z \in File(c, "fragment", i, upload[store[n][c].bins[i]].layout.size[i])
    OBVIOUS
  <2>3. z \in shares <=> \E i \in DOMAIN store[n][c].shares :
                         z \in File(c, "share", i, upload[store[n][c].shares[i].upload].layout.share)
    OBVIOUS
  <2>4. z \in manifest <=> /\ store[n][c].manifest # None
                          /\ z \in File(c, "manifest", 0, upload[store[n][c].manifest].layout.manifest)
    OBVIOUS
  <2> HIDE DEF bins, shares, manifest
  <2> QED
    BY <2>1, <2>2, <2>3, <2>4
<1> QED
  BY <1>1, <1>2

\* And so they are after the step.
LEMMA BytesWillBe ==
  ASSUME NEW n, NEW z
  PROVE  z \in Bytes(n)' <=>
           \E c \in Content :
             \/ \E i \in DOMAIN store'[n][c].bins :
                  z \in File(c, "fragment", i, upload'[store'[n][c].bins[i]].layout.size[i])
             \/ \E i \in DOMAIN store'[n][c].shares :
                  z \in File(c, "share", i, upload'[store'[n][c].shares[i].upload].layout.share)
             \/ /\ store'[n][c].manifest # None
                /\ z \in File(c, "manifest", 0, upload'[store'[n][c].manifest].layout.manifest)
<1>1. z \in Bytes(n)' <=> \E c \in Content : z \in BytesIn(c, store[n][c])'
  BY DEF Bytes
<1>2. ASSUME NEW c \in Content
      PROVE  z \in BytesIn(c, store[n][c])' <=>
               \/ \E i \in DOMAIN store'[n][c].bins :
                    z \in File(c, "fragment", i, upload'[store'[n][c].bins[i]].layout.size[i])
               \/ \E i \in DOMAIN store'[n][c].shares :
                    z \in File(c, "share", i, upload'[store'[n][c].shares[i].upload].layout.share)
               \/ /\ store'[n][c].manifest # None
                  /\ z \in File(c, "manifest", 0, upload'[store'[n][c].manifest].layout.manifest)
  <2> DEFINE bins == UNION {File(c, "fragment", i, upload'[store'[n][c].bins[i]].layout.size[i]) :
                              i \in DOMAIN store'[n][c].bins}
             shares == UNION {File(c, "share", i, upload'[store'[n][c].shares[i].upload].layout.share) :
                                i \in DOMAIN store'[n][c].shares}
             manifest == IF store'[n][c].manifest = None THEN {}
                         ELSE File(c, "manifest", 0, upload'[store'[n][c].manifest].layout.manifest)
  <2>1. BytesIn(c, store[n][c])' = bins \union shares \union manifest
    BY DEF BytesIn, File
  <2>2. z \in bins <=> \E i \in DOMAIN store'[n][c].bins :
                       z \in File(c, "fragment", i, upload'[store'[n][c].bins[i]].layout.size[i])
    OBVIOUS
  <2>3. z \in shares <=> \E i \in DOMAIN store'[n][c].shares :
                         z \in File(c, "share", i, upload'[store'[n][c].shares[i].upload].layout.share)
    OBVIOUS
  <2>4. z \in manifest <=> /\ store'[n][c].manifest # None
                          /\ z \in File(c, "manifest", 0, upload'[store'[n][c].manifest].layout.manifest)
    OBVIOUS
  <2> HIDE DEF bins, shares, manifest
  <2> QED
    BY <2>1, <2>2, <2>3, <2>4
<1> QED
  BY <1>1, <1>2

\* What an admitted POST will write is its fragment, and then what every POST
\* of the upload may write beside it.
LEMMA WillWriteIs ==
  ASSUME Types, NEW msg \in Message, MessageOK(msg)
  PROVE  /\ msg.upload \in StartedUploads
         /\ IsFiniteSet(WillWrite(msg))
         /\ Cardinality(WillWrite(msg)) =
              upload[msg.upload].layout.size[msg.index]
                + upload[msg.manifest].layout.manifest + upload[msg.upload].layout.share
         /\ upload[msg.upload].layout.size[msg.index] \in Nat
         /\ upload[msg.manifest].layout.manifest \in Nat
         /\ upload[msg.upload].layout.share \in Nat
         /\ \A last : msg.upload # last => WillWrite(msg) \subseteq Beside(last)
         /\ WillWrite(msg)
              \ File(msg.upload, "fragment", 0, upload[msg.upload].layout.size[msg.index])
              \subseteq Beside(msg.upload)
<1> DEFINE u == msg.upload
           w == msg.manifest
           fragment == File(u, "fragment", 0, upload[u].layout.size[msg.index])
           manifest == File(u, "manifest", 0, upload[w].layout.manifest)
           share == File(u, "share", 0, upload[u].layout.share)
<1>1. /\ u \in Upload /\ Started(u) /\ w \in Upload /\ Started(w) /\ msg.index \in Fragment(u)
  BY DEF Message, MessageOK, Of
<1>2. /\ upload[u].layout.size[msg.index] \in Nat
      /\ upload[w].layout.manifest \in Nat /\ upload[u].layout.share \in Nat
  BY <1>1, SizesAre
<1>3. /\ IsFiniteSet(fragment) /\ Cardinality(fragment) = upload[u].layout.size[msg.index]
      /\ IsFiniteSet(manifest) /\ Cardinality(manifest) = upload[w].layout.manifest
      /\ IsFiniteSet(share) /\ Cardinality(share) = upload[u].layout.share
  BY <1>2, FileIs
<1>4. /\ fragment \cap manifest = {} /\ (fragment \union manifest) \cap share = {}
  BY DEF File
<1>5. /\ \A last : u # last => fragment \subseteq Beside(last)
      /\ \A last : manifest \subseteq Beside(last) /\ share \subseteq Beside(last)
  BY <1>1 DEF Beside
<1>6. WillWrite(msg) = (fragment \union manifest) \union share
  BY DEF WillWrite
<1> HIDE DEF fragment, manifest, share
<1>7. /\ IsFiniteSet(fragment \union manifest)
      /\ Cardinality(fragment \union manifest) =
           Cardinality(fragment) + Cardinality(manifest) - 0
  BY <1>3, <1>4, FS_Union, FS_EmptySet
<1>8. /\ IsFiniteSet((fragment \union manifest) \union share)
      /\ Cardinality((fragment \union manifest) \union share) =
           Cardinality(fragment \union manifest) + Cardinality(share) - 0
  BY <1>3, <1>4, <1>7, FS_Union, FS_EmptySet
<1>9. Cardinality(WillWrite(msg)) =
        upload[u].layout.size[msg.index] + upload[w].layout.manifest + upload[u].layout.share
  BY <1>2, <1>3, <1>6, <1>7, <1>8
<1>10. u \in StartedUploads
  BY <1>1 DEF StartedUploads
<1>11. /\ \A last : u # last => WillWrite(msg) \subseteq Beside(last)
       /\ WillWrite(msg) \ fragment \subseteq Beside(u)
  BY <1>5, <1>6
<1> QED
  BY <1>2, <1>6, <1>8, <1>9, <1>10, <1>11 DEF fragment

\* What is pending is finite.
LEMMA PendingIs ==
  ASSUME Coherent, IsFiniteSet(StartedUploads), NEW n
  PROVE  IsFiniteSet(Pending(n)) /\ Cardinality(Pending(n)) \in Nat
<1>1. Pending(n) \subseteq Beside(None)
  <2>1. \A msg \in inbox : WillWrite(msg) \subseteq Beside(None)
    BY WillWriteIs, AbsenceAssumption DEF StartedUploads, Coherent, Types
  <2> QED
    BY <2>1 DEF Pending
<1>2. IsFiniteSet(Beside(None))
  BY BesideFinite DEF Coherent
<1>3. IsFiniteSet(Pending(n))
  BY <1>1, <1>2, FS_Subset
<1> QED
  BY <1>3, FS_CardinalityType

\* The uploads only become more, by at most one.
LEMMA StartedGrows ==
  ASSUME UploadsKept, IsFiniteSet(StartedUploads), NEW u,
         \A w \in Upload \ {u} : upload'[w] = upload[w]
  PROVE  IsFiniteSet(StartedUploads')
<1>1. StartedUploads' \in SUBSET (StartedUploads \union {u})
  BY DEF StartedUploads, Started
<1>2. IsFiniteSet(StartedUploads \union {u})
  BY FS_AddElement
<1> QED
  BY <1>1, <1>2, FS_Subset

\* n writes nothing and admits nothing.
RoomSame(n) ==
  /\ \A c \in Content : store'[n][c] = store[n][c] \/ store'[n][c] = Absent
  /\ \A msg \in inbox' : msg.pc = "admitted" => msg \in inbox

\* Then it has no bytes it had not.
LEMMA BytesShrink ==
  ASSUME Coherent, UploadsKept, NEW n \in Node, RoomSame(n)
  PROVE  Bytes(n)' \subseteq Bytes(n)
<1> SUFFICES ASSUME NEW z \in Bytes(n)' PROVE z \in Bytes(n)
  OBVIOUS
<1>1. PICK c \in Content :
        \/ \E i \in DOMAIN store'[n][c].bins :
             z \in File(c, "fragment", i, upload'[store'[n][c].bins[i]].layout.size[i])
        \/ \E i \in DOMAIN store'[n][c].shares :
             z \in File(c, "share", i, upload'[store'[n][c].shares[i].upload].layout.share)
        \/ /\ store'[n][c].manifest # None
           /\ z \in File(c, "manifest", 0, upload'[store'[n][c].manifest].layout.manifest)
  BY BytesWillBe
<1>2. store'[n][c] = store[n][c]
  BY <1>1, AbsentIs DEF RoomSame
<1>3. store[n][c] \in Directory /\ StoreOK(n, c)
  BY DEF Coherent, Types
<1>4. /\ \A i \in DOMAIN store[n][c].bins :
           upload'[store[n][c].bins[i]] = upload[store[n][c].bins[i]]
      /\ \A i \in DOMAIN store[n][c].shares :
           upload'[store[n][c].shares[i].upload] = upload[store[n][c].shares[i].upload]
      /\ store[n][c].manifest # None =>
           upload'[store[n][c].manifest] = upload[store[n][c].manifest]
  BY <1>3, DirectoryIs DEF StoreOK, Of, UploadsKept
<1>5. \/ \E i \in DOMAIN store[n][c].bins :
             z \in File(c, "fragment", i, upload[store[n][c].bins[i]].layout.size[i])
      \/ \E i \in DOMAIN store[n][c].shares :
             z \in File(c, "share", i, upload[store[n][c].shares[i].upload].layout.share)
      \/ /\ store[n][c].manifest # None
         /\ z \in File(c, "manifest", 0, upload[store[n][c].manifest].layout.manifest)
  BY <1>1, <1>2, <1>4
<1> QED
  BY <1>5, BytesAre

\* Nor is more pending.
LEMMA PendingShrinks ==
  ASSUME Coherent, UploadsKept, NEW n, RoomSame(n)
  PROVE  Pending(n)' \subseteq Pending(n)
<1> SUFFICES ASSUME NEW msg \in inbox', msg.to = n, msg.pc = "admitted"
             PROVE  msg \in inbox /\ WillWrite(msg)' = WillWrite(msg)
  BY DEF Pending
<1>1. msg \in inbox
  BY DEF RoomSame
<1>2. /\ msg.upload \in Upload /\ Started(msg.upload)
      /\ msg.manifest \in Upload /\ Started(msg.manifest)
  BY <1>1 DEF Coherent, Types, Message, MessageOK, Of
<1>3. upload'[msg.upload] = upload[msg.upload] /\ upload'[msg.manifest] = upload[msg.manifest]
  BY <1>2 DEF UploadsKept
<1> QED
  BY <1>1, <1>3 DEF WillWrite

\* So neither number grows, and the bound does not shrink.
LEMMA RoomSameKeeps ==
  ASSUME Coherent, Coherent', UploadsKept, NEW n \in Node, RoomOK(n), RoomSame(n),
         IsFiniteSet(StartedUploads), IsFiniteSet(StartedUploads')
  PROVE  RoomOK(n)'
<1> DEFINE bytes == Bytes(n)'
           pending == Pending(n)'
<1> SUFFICES ASSUME OnlyStores(n)'
             PROVE  /\ IsFiniteSet(bytes)
                    /\ Capacity[n] # 0 =>
                         Bounded(n, Cardinality(Bytes(n)) + Cardinality(Pending(n)))'
  BY DEF RoomOK
<1>1. OnlyStores(n)
  BY DEF OnlyStores, UploadsKept, Started
<1>2. bytes \in SUBSET Bytes(n) /\ pending \in SUBSET Pending(n)
  BY BytesShrink, PendingShrinks
<1>3. IsFiniteSet(Bytes(n)) /\ IsFiniteSet(Pending(n))
  BY <1>1, PendingIs DEF RoomOK
<1> HIDE DEF bytes, pending
<1>4. /\ IsFiniteSet(bytes) /\ Cardinality(bytes) <= Cardinality(Bytes(n))
      /\ IsFiniteSet(pending) /\ Cardinality(pending) <= Cardinality(Pending(n))
  BY <1>2, <1>3, FS_Subset
<1>5. /\ Cardinality(Bytes(n)) \in Nat /\ Cardinality(bytes) \in Nat
      /\ Cardinality(Pending(n)) \in Nat /\ Cardinality(pending) \in Nat
  BY <1>3, <1>4, FS_CardinalityType
<1> DEFINE many == Cardinality(Bytes(n)) + Cardinality(Pending(n))
           few == Cardinality(bytes) + Cardinality(pending)
<1>6. many \in Nat /\ few \in Nat /\ few <= many
  BY <1>4, <1>5
<1>7. Capacity[n] # 0 => Bounded(n, many)
  BY <1>1 DEF RoomOK
<1> HIDE DEF many
<1>8. Capacity[n] # 0 =>
        \/ few <= Capacity[n]
        \/ \E last \in StartedUploads' : few <= Capacity[n] + Cardinality(Beside(last)')
  BY <1>6, <1>7, BoundedStays
<1> QED
  BY <1>4, <1>8 DEF bytes, pending, Bounded


\* A fragment is admitted while there is room for it: whatever is stored then
\* or admitted, at most what one POST of each upload brings is beside it.
LEMMA AdmitRoom ==
  ASSUME Coherent, Coherent', NEW msg \in inbox, Admit(msg), NEW n \in Node, RoomOK(n),
         IsFiniteSet(StartedUploads)
  PROVE  RoomOK(n)'
<1>1. UNCHANGED <<upload, expired, store, optedIn, push, placed, removed>>
  BY DEF Admit
<1>2. PICK new \in Message :
        /\ new.upload = msg.upload /\ new.to = msg.to /\ new.index = msg.index
        /\ inbox' = (inbox \ {msg}) \union {new}
  BY AdmitIs
<1>3. UploadsKept
  BY <1>1, SameUploads DEF Coherent
<1>4. /\ StartedUploads' = StartedUploads /\ OnlyStores(n)' = OnlyStores(n)
      /\ Bytes(n)' = Bytes(n) /\ \A last : Beside(last)' = Beside(last)
      /\ \A m : WillWrite(m)' = WillWrite(m)
  BY <1>1 DEF StartedUploads, Started, Bytes, BytesIn, OnlyStores, Beside, Fragment, WillWrite
<1>5. CASE msg.to = n
  <2> DEFINE u == msg.upload
             size == upload[u].layout.size[msg.index]
             fragment == File(u, "fragment", 0, size)
             bytes == Cardinality(Bytes(n))
             pending == Pending(n)'
             beside == Beside(u)
  <2>1. /\ u \in StartedUploads /\ size \in Nat
        /\ IsFiniteSet(fragment) /\ Cardinality(fragment) = size
    BY WillWriteIs, FileIs DEF Coherent, Types
  <2>2. Capacity[n] = 0 \/ bytes + size <= Capacity[n]
    BY <1>5 DEF Admit, Used, Bytes
  <2>3. ASSUME NEW m \in inbox' PROVE WillWrite(m) \ fragment \subseteq beside
    <3>1. m \in Message /\ MessageOK(m)
      BY <1>1 DEF Coherent, Types, MessageOK, Of, Started, Fragment
    <3>2. /\ \A last : m.upload # last => WillWrite(m) \subseteq Beside(last)
          /\ WillWrite(m)
               \ File(m.upload, "fragment", 0, upload[m.upload].layout.size[m.index])
               \subseteq Beside(m.upload)
      BY <3>1, WillWriteIs DEF Coherent
    <3>3. CASE m.upload # u
      BY <3>3, <3>2
    <3>4. CASE m.upload = u
      <4>1. m.index = msg.index
        BY <1>2, <3>4 DEF Coherent, OnePost
      <4> QED
        BY <3>4, <3>2, <4>1
    <3> QED
      BY <3>3, <3>4
  <2>4. pending \subseteq fragment \union beside
    <3>1. \A z \in pending : \E m \in inbox' : z \in WillWrite(m)
      BY <1>4 DEF Pending
    <3> HIDE DEF pending, fragment, beside
    <3> QED
      BY <2>3, <3>1
  <2>5. IsFiniteSet(beside)
    BY BesideFinite DEF Coherent
  <2> HIDE DEF size, fragment, bytes, pending, beside
  <2>6. /\ IsFiniteSet(fragment \union beside)
        /\ Cardinality(fragment \union beside) =
             Cardinality(fragment) + Cardinality(beside) - Cardinality(fragment \cap beside)
        /\ IsFiniteSet(fragment \cap beside)
    BY <2>1, <2>5, FS_Union, FS_Intersection
  <2>7. IsFiniteSet(pending) /\ Cardinality(pending) <= Cardinality(fragment \union beside)
    BY <2>4, <2>6, FS_Subset
  <2>8. /\ Cardinality(beside) \in Nat /\ Cardinality(fragment \cap beside) \in Nat
        /\ Cardinality(pending) \in Nat
    BY <2>5, <2>6, <2>7, FS_CardinalityType
  <2>9. Cardinality(pending) <= size + Cardinality(beside)
    BY <2>1, <2>6, <2>7, <2>8
  <2> SUFFICES ASSUME OnlyStores(n)
               PROVE  /\ IsFiniteSet(Bytes(n))
                      /\ Capacity[n] # 0 =>
                           \E last \in StartedUploads :
                             bytes + Cardinality(pending) <= Capacity[n] + Cardinality(Beside(last))
    BY <1>4 DEF RoomOK, Bounded, bytes, pending
  <2>10. IsFiniteSet(Bytes(n)) /\ bytes \in Nat
    BY FS_CardinalityType DEF RoomOK, bytes
  <2>11. Capacity[n] \in Nat
    BY FragmentsAssumption
  <2>12. Capacity[n] # 0 => bytes + Cardinality(pending) <= Capacity[n] + Cardinality(beside)
    BY <2>1, <2>2, <2>8, <2>9, <2>10, <2>11
  <2> QED
    BY <2>1, <2>10, <2>12 DEF beside
<1>6. CASE msg.to # n
  <2>1. Pending(n)' = Pending(n)
    BY <1>2, <1>4, <1>6 DEF Pending
  <2> QED
    BY <1>4, <2>1 DEF RoomOK, Bounded
<1> QED
  BY <1>5, <1>6

\* A POST writes no bytes but those that were pending for it.
LEMMA StoresBytes ==
  ASSUME Coherent, upload' = upload, NEW msg \in inbox, NEW d, Stores(msg, d)
  PROVE  Bytes(msg.to)' \subseteq
           Bytes(msg.to)
             \union File(upload[msg.upload].content, "fragment", msg.index,
                         upload[msg.upload].layout.size[msg.index])
             \union File(upload[msg.upload].content, "manifest", 0,
                         upload[msg.manifest].layout.manifest)
             \union File(upload[msg.upload].content, "share", msg.index,
                         upload[msg.upload].layout.share)
<1> DEFINE n == msg.to
           c == upload[msg.upload].content
           old == store[n][c]
           new == store'[n][c]
           wide == File(c, "fragment", msg.index, upload[msg.upload].layout.size[msg.index])
                     \union File(c, "manifest", 0, upload[msg.manifest].layout.manifest)
                     \union File(c, "share", msg.index, upload[msg.upload].layout.share)
<1>1. /\ n \in Node /\ c \in Content
      /\ \A e \in Content : e # c => store'[n][e] = store[n][e]
      /\ new = d /\ old = Target(msg) /\ old \in Directory /\ msg \in Message
  BY StoresKeeps DEF Target, Coherent, Types
<1>2. /\ new.manifest = old.manifest \/ new.manifest = msg.manifest
      /\ DOMAIN new.bins = DOMAIN old.bins \union {msg.index}
      /\ new.bins[msg.index] = msg.upload
      /\ \A i \in DOMAIN old.bins : i # msg.index => new.bins[i] = old.bins[i]
      /\ \/ new.shares = old.shares
         \/ /\ DOMAIN new.shares = DOMAIN old.shares \union {msg.index}
            /\ new.shares[msg.index].upload = msg.upload
            /\ \A i \in DOMAIN old.shares : i # msg.index => new.shares[i] = old.shares[i]
  <2>1. d \in {WithBin(old, msg), WithManifest(old, msg), WithShare(old, msg)}
    BY <1>1 DEF Stores
  <2>2. PICK was \in Directory : was = old
    BY <1>1
  <2>3. /\ d.manifest = was.manifest \/ d.manifest = msg.manifest
        /\ DOMAIN d.bins = DOMAIN was.bins \union {msg.index}
        /\ d.bins[msg.index] = msg.upload
        /\ \A i \in DOMAIN was.bins : i # msg.index => d.bins[i] = was.bins[i]
        /\ \/ d.shares = was.shares /\ d # WithShare(was, msg)
           \/ /\ DOMAIN d.shares = DOMAIN was.shares \union {msg.index}
              /\ d.shares[msg.index] = [upload |-> msg.upload, id |-> msg.share]
              /\ \A i \in DOMAIN was.shares : i # msg.index => d.shares[i] = was.shares[i]
    <3>1. d \in {WithBin(was, msg), WithManifest(was, msg), WithShare(was, msg)}
      BY <2>1, <2>2
    <3>2. msg \in Message
      BY <1>1
    <3> HIDE DEF n, c, old, new
    <3> QED
      BY <3>1, <3>2, StoredIs
  <2>4. new = d /\ old = was
    BY <1>1, <2>2
  <2> HIDE DEF old, new
  <2> QED
    BY <2>3, <2>4
<1> SUFFICES ASSUME NEW z \in Bytes(n)' PROVE z \in Bytes(n) \/ z \in wide
  OBVIOUS
<1>3. PICK e \in Content :
        \/ \E i \in DOMAIN store'[n][e].bins :
             z \in File(e, "fragment", i, upload[store'[n][e].bins[i]].layout.size[i])
        \/ \E i \in DOMAIN store'[n][e].shares :
             z \in File(e, "share", i, upload[store'[n][e].shares[i].upload].layout.share)
        \/ /\ store'[n][e].manifest # None
           /\ z \in File(e, "manifest", 0, upload[store'[n][e].manifest].layout.manifest)
  BY BytesWillBe
<1>4. CASE e # c
  BY <1>1, <1>3, <1>4, BytesAre
<1>5. CASE e = c
  <2> HIDE DEF n, c, old, new
  <2>1. CASE \E i \in DOMAIN new.bins : z \in File(c, "fragment", i, upload[new.bins[i]].layout.size[i])
    <3>1. PICK i \in DOMAIN new.bins : z \in File(c, "fragment", i, upload[new.bins[i]].layout.size[i])
      BY <2>1
    <3>2. CASE i = msg.index
      BY <1>2, <3>1, <3>2
    <3>3. CASE i # msg.index
      <4>1. i \in DOMAIN old.bins /\ z \in File(c, "fragment", i, upload[old.bins[i]].layout.size[i])
        BY <1>2, <3>1, <3>3
      <4> QED
        BY <1>1, <4>1, BytesAre DEF old
    <3> QED
      BY <3>2, <3>3
  <2>2. CASE \E i \in DOMAIN new.shares : z \in File(c, "share", i, upload[new.shares[i].upload].layout.share)
    <3>1. PICK i \in DOMAIN new.shares : z \in File(c, "share", i, upload[new.shares[i].upload].layout.share)
      BY <2>2
    <3>2. CASE i \in DOMAIN old.shares /\ new.shares[i] = old.shares[i]
      <4>1. z \in File(c, "share", i, upload[old.shares[i].upload].layout.share)
        BY <3>1, <3>2
      <4> QED
        BY <1>1, <3>2, <4>1, BytesAre DEF old
    <3>3. CASE ~(i \in DOMAIN old.shares /\ new.shares[i] = old.shares[i])
      <4>1. i = msg.index /\ new.shares[i].upload = msg.upload
        BY <1>2, <3>1, <3>3
      <4> QED
        BY <3>1, <4>1
    <3> QED
      BY <3>2, <3>3
  <2>3. CASE new.manifest # None /\ z \in File(c, "manifest", 0, upload[new.manifest].layout.manifest)
    <3>1. CASE new.manifest = old.manifest
      BY <1>1, <2>3, <3>1, BytesAre DEF old
    <3>2. CASE new.manifest = msg.manifest
      BY <2>3, <3>2
    <3> QED
      BY <1>2, <3>1, <3>2
  <2> QED
    BY <1>3, <1>5, <2>1, <2>2, <2>3 DEF new
<1> QED
  BY <1>4, <1>5

\* And it pends no more.
LEMMA StoresPending ==
  ASSUME Coherent, upload' = upload, NEW msg \in inbox, msg.pc = "admitted",
         inbox' \subseteq inbox, msg \notin inbox'
  PROVE  /\ WillWrite(msg) \subseteq Pending(msg.to)
         /\ Pending(msg.to)' \subseteq Pending(msg.to) \ WillWrite(msg)
<1>1. WillWrite(msg) \subseteq Pending(msg.to)
  BY DEF Pending
<1>2. ASSUME NEW m \in inbox'
      PROVE  WillWrite(m)' = WillWrite(m) /\ WillWrite(m) \cap WillWrite(msg) = {}
  <2>1. m \in inbox /\ m.upload # msg.upload
    BY DEF Coherent, OnePost
  <2> QED
    BY <2>1 DEF WillWrite, File
<1> QED
  BY <1>1, <1>2 DEF Pending

\* What an admitted POST writes was counted while it was pending.
LEMMA StoresRoom ==
  ASSUME Coherent, Coherent', upload' = upload, NEW msg \in inbox, msg.pc = "admitted",
         NEW d, Stores(msg, d), inbox' \subseteq inbox, msg \notin inbox',
         NEW n \in Node, RoomOK(n), IsFiniteSet(StartedUploads)
  PROVE  RoomOK(n)'
<1>1. UploadsKept
  BY SameUploads DEF Coherent
<1>2. StartedUploads' = StartedUploads /\ OnlyStores(n)' = OnlyStores(n)
  BY DEF StartedUploads, Started, OnlyStores
<1>3. CASE msg.to # n
  <2>1. RoomSame(n)
    BY <1>3, StoresKeeps DEF RoomSame
  <2> QED
    BY <1>1, <1>2, <2>1, RoomSameKeeps
<1>4. CASE msg.to = n
  <2> DEFINE c == upload[msg.upload].content
             size == upload[msg.upload].layout.size[msg.index]
             manifest == upload[msg.manifest].layout.manifest
             share == upload[msg.upload].layout.share
             f == File(c, "fragment", msg.index, size)
             m == File(c, "manifest", 0, manifest)
             s == File(c, "share", msg.index, share)
             write == WillWrite(msg)
             before == Bytes(n)
             after == Bytes(n)'
             pended == Pending(n)
             pending == Pending(n)'
  <2> SUFFICES ASSUME OnlyStores(n)
               PROVE  /\ IsFiniteSet(after)
                      /\ Capacity[n] # 0 =>
                           \/ Cardinality(after) + Cardinality(pending) <= Capacity[n]
                           \/ \E last \in StartedUploads' :
                                Cardinality(after) + Cardinality(pending) <=
                                  Capacity[n] + Cardinality(Beside(last)')
    BY <1>2 DEF RoomOK, Bounded
  <2>1. /\ IsFiniteSet(write) /\ Cardinality(write) = size + manifest + share
        /\ size \in Nat /\ manifest \in Nat /\ share \in Nat
    BY WillWriteIs DEF Coherent, Types
  <2>2. /\ IsFiniteSet(f) /\ Cardinality(f) = size
        /\ IsFiniteSet(m) /\ Cardinality(m) = manifest
        /\ IsFiniteSet(s) /\ Cardinality(s) = share
    BY <2>1, FileIs
  <2>3. after \subseteq before \union f \union m \union s
    BY <1>4, StoresBytes
  <2>4. write \subseteq pended /\ pending \subseteq pended \ write
    BY <1>4, StoresPending
  <2>5. IsFiniteSet(before) /\ IsFiniteSet(pended)
    BY PendingIs DEF RoomOK
  <2>6. Capacity[n] # 0 => Bounded(n, Cardinality(before) + Cardinality(pended))
    BY DEF RoomOK
  <2> HIDE DEF size, manifest, share, f, m, s, write, before, after, pended, pending
  <2>7. /\ IsFiniteSet(before \union f)
        /\ Cardinality(before \union f) <= Cardinality(before) + size
    BY <2>2, <2>5, UnionBound
  <2>8. /\ IsFiniteSet((before \union f) \union m)
        /\ Cardinality((before \union f) \union m) <= Cardinality(before \union f) + manifest
    BY <2>2, <2>7, UnionBound
  <2>9. /\ IsFiniteSet(((before \union f) \union m) \union s)
        /\ Cardinality(((before \union f) \union m) \union s) <=
             Cardinality((before \union f) \union m) + share
    BY <2>2, <2>8, UnionBound
  <2>10. /\ IsFiniteSet(after)
         /\ Cardinality(after) <= Cardinality(((before \union f) \union m) \union s)
    BY <2>3, <2>9, FS_Subset
  <2>11. /\ IsFiniteSet(pended \ write)
         /\ Cardinality(pended \ write) = Cardinality(pended) - Cardinality(write)
    <3>1. pended \cap write = write
      BY <2>4
    <3>2. /\ IsFiniteSet(pended \ write)
          /\ Cardinality(pended \ write) = Cardinality(pended) - Cardinality(pended \cap write)
      BY <2>5, FS_Difference
    <3> QED
      BY <3>1, <3>2
  <2>12. IsFiniteSet(pending) /\ Cardinality(pending) <= Cardinality(pended \ write)
    BY <2>4, <2>11, FS_Subset
  <2>13. /\ Cardinality(before) \in Nat /\ Cardinality(before \union f) \in Nat
         /\ Cardinality((before \union f) \union m) \in Nat
         /\ Cardinality(((before \union f) \union m) \union s) \in Nat
         /\ Cardinality(after) \in Nat /\ Cardinality(pended) \in Nat
         /\ Cardinality(pended \ write) \in Nat /\ Cardinality(pending) \in Nat
    BY <2>5, <2>7, <2>8, <2>9, <2>10, <2>11, <2>12, FS_CardinalityType
  <2> DEFINE many == Cardinality(before) + Cardinality(pended)
             few == Cardinality(after) + Cardinality(pending)
  <2>14. many \in Nat /\ few \in Nat /\ few <= many
    BY <2>1, <2>7, <2>8, <2>9, <2>10, <2>11, <2>12, <2>13
  <2>15. Capacity[n] # 0 => Bounded(n, many)
    BY <2>6
  <2> HIDE DEF many, few
  <2>16. Capacity[n] # 0 =>
           \/ few <= Capacity[n]
           \/ \E last \in StartedUploads' : few <= Capacity[n] + Cardinality(Beside(last)')
    BY <1>1, <1>2, <2>14, <2>15, BoundedStays
  <2> QED
    BY <2>10, <2>16 DEF few
<1> QED
  BY <1>3, <1>4

-----------------------------------------------------------------------------
(* The invariant *)

\* What is whole and what was accepted stays so for every upload, if it is so
\* for the upload that begins.
LEMMA UploadsStep ==
  ASSUME Inv, Coherent', StepOK,
         \A u \in Upload : Started(u)' /\ ~Started(u) => WholeAtOrigin(u)' /\ AcceptedOK(u)'
  PROVE  \A u \in Upload : WholeAtOrigin(u)' /\ AcceptedOK(u)'
<1> SUFFICES ASSUME NEW u \in Upload PROVE WholeAtOrigin(u)' /\ AcceptedOK(u)'
  OBVIOUS
<1>1. Coherent /\ WholeAtOrigin(u) /\ AcceptedOK(u)
  BY DEF Inv
<1>2. CASE Started(u)
  BY <1>1, <1>2, WholeStep, AcceptedStep
<1>3. CASE ~Started(u) /\ ~Started(u)'
  <2>1. ~OnlyUpload(u)'
    BY <1>3 DEF OnlyUpload
  <2>2. PlacedStep(u)
    BY DEF StepOK
  <2>3. u \notin placed'
    BY <1>1, <1>3, <2>2 DEF PlacedStep, AcceptedOK
  <2> QED
    BY <2>1, <2>3 DEF WholeAtOrigin, AcceptedOK
<1> QED
  BY <1>2, <1>3

\* The steps in which no upload begins.
LEMMA OldUploadsStep ==
  ASSUME Inv, upload' = upload, Coherent', StepOK, \A n \in Node : RoomOK(n)'
  PROVE  Inv'
<1>1. \A u \in Upload : WholeAtOrigin(u)' /\ AcceptedOK(u)'
  BY UploadsStep DEF Started
<1>2. IsFiniteSet(StartedUploads')
  <2>1. StartedUploads' = StartedUploads
    BY DEF StartedUploads, Started
  <2> QED
    BY <2>1 DEF Inv
<1> QED
  BY <1>1, <1>2 DEF Inv

\* Of these, the ones that store and admit nothing.
LEMMA IdleStep ==
  ASSUME Inv, upload' = upload, Coherent', StepOK, \A n \in Node : RoomSame(n)
  PROVE  Inv'
<1>1. StartedUploads' = StartedUploads /\ IsFiniteSet(StartedUploads)
  BY DEF StartedUploads, Started, Inv
<1>2. UploadsKept /\ Coherent
  BY DEF StepOK, Inv
<1>3. ASSUME NEW n \in Node PROVE RoomOK(n)'
  <2>1. RoomOK(n) /\ RoomSame(n)
    BY DEF Inv
  <2> QED
    BY <1>1, <1>2, <2>1, RoomSameKeeps
<1> QED
  BY <1>3, OldUploadsStep

\* Of these, the ones that remove directories at most.
LEMMA RemovalInv ==
  ASSUME Inv, Coherent', upload' = upload, placed' = placed, removed \subseteq removed',
         \A u \in Upload : push'[u] \in {None, push[u]}, inbox' \subseteq inbox,
         \A n \in Node, c \in Content :
           \/ store'[n][c] = store[n][c]
           \/ store'[n][c] = Absent /\ <<n, c>> \in removed'
  PROVE  Inv'
<1>1. \A m \in inbox' : \E msg \in inbox : m.upload = msg.upload
  OBVIOUS
<1>2. StepOK
  BY <1>1, RemovalStep DEF Inv
<1>3. \A n \in Node : RoomSame(n)
  BY DEF RoomSame
<1> QED
  BY <1>2, <1>3, IdleStep

\* Init, and then each action.
LEMMA InitInv == Init => Inv
<1> SUFFICES ASSUME Init PROVE Inv
  OBVIOUS
<1>1. Coherent
  BY InitCoherent
<1>2. \A u \in Upload : ~Started(u)
  BY DEF Init, Started
<1>3. ASSUME NEW u \in Upload PROVE WholeAtOrigin(u) /\ AcceptedOK(u)
  <2>1. ~OnlyUpload(u)
    BY <1>2 DEF OnlyUpload
  <2>2. u \notin placed
    BY DEF Init
  <2> QED
    BY <2>1, <2>2 DEF WholeAtOrigin, AcceptedOK
<1>4. StartedUploads = {} /\ IsFiniteSet(StartedUploads)
  <2>1. StartedUploads = {}
    BY <1>2 DEF StartedUploads
  <2> QED
    BY <2>1, FS_EmptySet
<1>5. ASSUME NEW n \in Node PROVE RoomOK(n)
  <2>1. Bytes(n) = {}
    <3>1. \A c \in Content : store[n][c] = Absent
      BY DEF Init
    <3>2. \A z : z \notin Bytes(n)
      BY <3>1, AbsentIs, BytesAre
    <3> QED
      BY <3>2
  <2>2. Pending(n) = {}
    BY DEF Pending, Init
  <2>3. IsFiniteSet(Bytes(n)) /\ Cardinality(Bytes(n)) = 0 /\ Cardinality(Pending(n)) = 0
    BY <2>1, <2>2, FS_EmptySet
  <2>4. Capacity[n] \in Nat
    BY FragmentsAssumption
  <2>5. Cardinality(Bytes(n)) + Cardinality(Pending(n)) <= Capacity[n]
    BY <2>3, <2>4
  <2> QED
    BY <2>3, <2>5 DEF RoomOK, Bounded
<1> QED
  BY <1>1, <1>3, <1>4, <1>5 DEF Inv

\* The steps in which an upload begins.
LEMMA FreshInv ==
  ASSUME Inv, NEW u \in Upload, NEW origin \in Uploader, NEW content \in Content,
         NEW layout \in Layout,
         \/ Begin(u, origin, content, layout)
         \/ \E count \in 1..layout.fragments : CrashInBegin(u, origin, content, layout, count)
  PROVE  Inv'
<1>1. Coherent /\ AcceptedOK(u) /\ IsFiniteSet(StartedUploads)
  BY DEF Inv
<1>2. Coherent' /\ StepOK
  BY <1>1, BeginKeeps, BeginStep, CrashInBeginKeeps, CrashInBeginStep
<1>3. /\ UploadsKept
      /\ upload'[u] = [origin |-> origin, content |-> content, layout |-> layout]
      /\ Started(u)' /\ \A w \in Upload \ {u} : upload'[w] = upload[w]
  BY <1>1, FreshKeeps DEF Begin, CrashInBegin, Coherent
<1>4. \A w \in Upload : WholeAtOrigin(w)' /\ AcceptedOK(w)'
  <2>1. WholeAtOrigin(u)' /\ AcceptedOK(u)'
    BY <1>1, <1>2, FreshWhole
  <2>2. \A w \in Upload : Started(w)' /\ ~Started(w) => w = u
    BY <1>3 DEF Started
  <2> QED
    BY <1>2, <2>1, <2>2, UploadsStep
<1>5. IsFiniteSet(StartedUploads')
  BY <1>1, <1>3, StartedGrows
<1>6. \A m \in Node, e \in Content :
        m # origin \/ e # content => store'[m][e] = store[m][e]
  BY <1>1, BeginStore, CrashInBeginStore
<1>7. inbox' \subseteq inbox
  BY DEF Begin, CrashInBegin, Dies
<1>8. ASSUME NEW n \in Node PROVE RoomOK(n)'
  <2>1. CASE n = origin
    <3>1. ~OnlyStores(n)'
      BY <1>3, <2>1 DEF OnlyStores
    <3> QED
      BY <3>1 DEF RoomOK
  <2>2. CASE n # origin
    <3>1. RoomSame(n)
      BY <1>6, <1>7, <2>2 DEF RoomSame
    <3>2. RoomOK(n)
      BY DEF Inv
    <3> QED
      BY <1>1, <1>2, <1>3, <1>5, <3>1, <3>2, RoomSameKeeps
  <2> QED
    BY <2>1, <2>2
<1> QED
  BY <1>2, <1>4, <1>5, <1>8 DEF Inv

\* The steps of a push.
LEMMA PushInv ==
  ASSUME Inv, NEW u \in Upload,
         (\E peers \in PeerOrders : Discover(u, peers)) \/ Post(u) \/ EndPush(u)
  PROVE  Inv'
<1>1. Coherent
  BY DEF Inv
<1>2. Coherent' /\ StepOK
  BY <1>1, DiscoverKeeps, DiscoverStep, PostKeeps, PostStep, EndPushKeeps, EndPushStep
<1>3. upload' = upload /\ store' = store
  BY DEF Discover, Post, EndPush
<1>4. \A msg \in inbox' : msg.pc = "admitted" => msg \in inbox
  <2>1. CASE Post(u)
    BY <1>1, <2>1, PostIs
  <2>2. CASE ~Post(u)
    BY <2>2 DEF Discover, EndPush
  <2> QED
    BY <2>1, <2>2
<1>5. \A n \in Node : RoomSame(n)
  BY <1>3, <1>4 DEF RoomSame
<1> QED
  BY <1>2, <1>3, <1>5, IdleStep

\* The steps of a receiver.
LEMMA InboxInv ==
  ASSUME Inv, NEW msg \in inbox,
         Admit(msg) \/ Refuse(msg) \/ StoreFragment(msg) \/ CrashInStore(msg)
  PROVE  Inv'
<1>1. Coherent /\ IsFiniteSet(StartedUploads) /\ \A n \in Node : RoomOK(n)
  BY DEF Inv
<1>2. upload' = upload
  BY DEF Admit, Refuse, StoreFragment, CrashInStore
<1>3. CASE Admit(msg)
  <2>1. Coherent' /\ StepOK
    BY <1>1, <1>3, AdmitIs, AdmitStep
  <2>2. \A n \in Node : RoomOK(n)'
    BY <1>1, <1>3, <2>1, AdmitRoom
  <2> QED
    BY <1>2, <2>1, <2>2, OldUploadsStep
<1>4. CASE Refuse(msg)
  <2>1. Coherent' /\ StepOK
    BY <1>1, <1>4, RefuseKeeps, RefuseStep
  <2>2. \A n \in Node : RoomSame(n)
    BY <1>4 DEF Refuse, Answered, RoomSame
  <2> QED
    BY <1>2, <2>1, <2>2, IdleStep
<1>5. CASE StoreFragment(msg)
  <2>1. Coherent' /\ StepOK /\ Stores(msg, WithShare(Target(msg), msg))
    BY <1>1, <1>5, StoreFragmentKeeps, StoreFragmentStep
  <2>2. msg.pc = "admitted" /\ inbox' \subseteq inbox /\ msg \notin inbox'
    BY <1>5 DEF StoreFragment, Answered
  <2>3. \A n \in Node : RoomOK(n)'
    BY <1>1, <1>2, <2>1, <2>2, StoresRoom
  <2> QED
    BY <1>2, <2>1, <2>3, OldUploadsStep
<1>6. CASE CrashInStore(msg)
  <2>1. Coherent' /\ StepOK /\ \E d : Stores(msg, d)
    BY <1>1, <1>6, CrashInStoreKeeps, CrashInStoreStep
  <2>2. msg.pc = "admitted" /\ inbox' \subseteq inbox /\ msg \notin inbox'
    BY <1>6 DEF CrashInStore, Dies
  <2>3. \A n \in Node : RoomOK(n)'
    BY <1>1, <1>2, <2>1, <2>2, StoresRoom
  <2> QED
    BY <1>2, <2>1, <2>3, OldUploadsStep
<1> QED
  BY <1>3, <1>4, <1>5, <1>6

\* The steps that store and send nothing.
LEMMA OtherInv ==
  ASSUME Inv,
         \/ \E u \in Upload : Expire(u)
         \/ \E n \in Node :
              Cleanup(n) \/ (\E c \in Content : Revoke(n, c)) \/ Toggle(n) \/ Crash(n)
         \/ UNCHANGED vars
  PROVE  Inv'
<1>1. Coherent
  BY DEF Inv
<1>2. CASE \E u \in Upload : Expire(u)
  <2>1. Coherent'
    BY <1>1, <1>2, ExpireKeeps
  <2> QED
    BY <1>2, <2>1, RemovalInv DEF Expire
<1>3. CASE \E n \in Node : Cleanup(n)
  <2>1. /\ Coherent'
        /\ \A m \in Node, c \in Content :
             \/ store'[m][c] = store[m][c]
             \/ store'[m][c] = Absent /\ <<m, c>> \in removed'
    BY <1>1, <1>3, CleanupIs
  <2>2. UNCHANGED <<upload, push, inbox, placed>> /\ removed \subseteq removed'
    BY <1>3 DEF Cleanup
  <2> QED
    BY <2>1, <2>2, RemovalInv
<1>4. CASE \E n \in Node : \E c \in Content : Revoke(n, c)
  <2>1. /\ Coherent'
        /\ \A m \in Node, c \in Content :
             \/ store'[m][c] = store[m][c]
             \/ store'[m][c] = Absent /\ <<m, c>> \in removed'
    BY <1>1, <1>4, RevokeIs
  <2>2. UNCHANGED <<upload, push, inbox, placed>> /\ removed \subseteq removed'
    BY <1>4 DEF Revoke
  <2> QED
    BY <2>1, <2>2, RemovalInv
<1>5. CASE \E n \in Node : Toggle(n)
  <2>1. Coherent'
    BY <1>1, <1>5, ToggleKeeps
  <2> QED
    BY <1>5, <2>1, RemovalInv DEF Toggle
<1>6. CASE \E n \in Node : Crash(n)
  <2>1. Coherent'
    BY <1>1, <1>6, CrashKeeps
  <2>2. (\A u \in Upload : push'[u] \in {None, push[u]}) /\ inbox' \subseteq inbox
    BY <1>1, <1>6, DiesIs DEF Crash, Coherent
  <2> QED
    BY <1>6, <2>1, <2>2, RemovalInv DEF Crash
<1>7. CASE UNCHANGED vars
  <2>1. UNCHANGED <<upload, expired, store, optedIn, push, inbox, placed, removed>>
    BY <1>7 DEF vars
  <2>2. UploadsKept
    BY <1>1, <2>1, SameUploads DEF Coherent
  <2>3. \A n \in Node, c \in Content : StoreOK(n, c)'
    BY <1>1, <2>1, <2>2, StoreKept DEF Coherent
  <2>4. expired' \subseteq Upload /\ \A u \in expired' : Started(u)'
    BY <1>1, <2>1, <2>2, KeptIs DEF Coherent, Types
  <2>5. Coherent'
    BY <1>1, <2>1, <2>2, <2>3, <2>4, QuietStep DEF Coherent, Types
  <2> QED
    BY <2>1, <2>5, RemovalInv
<1> QED
  BY <1>2, <1>3, <1>4, <1>5, <1>6, <1>7

\* Every step keeps the invariant.
LEMMA NextInv == Inv /\ [Next]_vars => Inv'
<1> SUFFICES ASSUME Inv, [Next]_vars PROVE Inv'
  OBVIOUS
<1>1. CASE \E u \in Upload, origin \in Uploader, content \in Content, layout \in Layout :
             \/ Begin(u, origin, content, layout)
             \/ \E count \in 1..layout.fragments :
                  CrashInBegin(u, origin, content, layout, count)
  BY <1>1, FreshInv
<1>2. CASE \E u \in Upload :
             (\E peers \in PeerOrders : Discover(u, peers)) \/ Post(u) \/ EndPush(u)
  BY <1>2, PushInv
<1>3. CASE \E msg \in inbox :
             Admit(msg) \/ Refuse(msg) \/ StoreFragment(msg) \/ CrashInStore(msg)
  BY <1>3, InboxInv
<1>4. CASE \/ \E u \in Upload : Expire(u)
           \/ \E n \in Node :
                Cleanup(n) \/ (\E c \in Content : Revoke(n, c)) \/ Toggle(n) \/ Crash(n)
           \/ UNCHANGED vars
  BY <1>4, OtherInv
<1> QED
  BY <1>1, <1>2, <1>3, <1>4 DEF Next

\* The invariant always holds.
THEOREM AlwaysInv == Spec => []Inv
<1> QED
  BY InitInv, NextInv, PTL DEF Spec

-----------------------------------------------------------------------------
(* What it implies *)

\* An upload has as many fragments as its layout says.
LEMMA FragmentsAre ==
  ASSUME Types, NEW u \in Upload, Started(u)
  PROVE  /\ IsFiniteSet(Fragment(u)) /\ Cardinality(Fragment(u)) = upload[u].layout.fragments
         /\ Fragment(u) \subseteq Nat
<1>1. PICK f \in Nat \ {0} : f = upload[u].layout.fragments
  BY StartedIs
<1>2. IsFiniteSet(0..(f - 1)) /\ Cardinality(0..(f - 1)) = f
  BY FS_Interval
<1> QED
  BY <1>1, <1>2 DEF Fragment

\* Everything a directory names is an upload of its content.
LEMMA HeldIs ==
  ASSUME Coherent, NEW n \in Node, NEW c \in Content
  PROVE  /\ store[n][c].manifest # None =>
              store[n][c].manifest \in Upload /\ Of(store[n][c].manifest, c)
         /\ \A i \in DOMAIN store[n][c].bins :
              store[n][c].bins[i] \in Upload /\ Of(store[n][c].bins[i], c)
         /\ \A i \in DOMAIN store[n][c].shares :
              LET share == store[n][c].shares[i]
              IN  /\ i \in DOMAIN store[n][c].bins
                  /\ share.upload \in Upload /\ Of(share.upload, c)
                  /\ i \in Fragment(share.upload)
                  /\ share.id = i % upload[share.upload].layout.shares
<1>1. PICK d \in Directory : d = store[n][c]
  BY DEF Coherent, Types
<1>2. /\ d.manifest # None => d.manifest \in Upload
      /\ \A i \in DOMAIN d.bins : d.bins[i] \in Upload
      /\ \A i \in DOMAIN d.shares : d.shares[i].upload \in Upload
  BY DirectoryIs
<1>3. StoreOK(n, c)
  BY DEF Coherent
<1> QED
  BY <1>1, <1>2, <1>3 DEF StoreOK

\* Every variable has its type, directories and POSTs are of one content, and
\* a push has at most one POST under way.
THEOREM AlwaysTypeOK == Spec => []TypeOK
<1>1. ASSUME Inv PROVE TypeOK
  <2>1. Types /\ Coherent
    BY <1>1 DEF Inv, Coherent
  <2>2. \A u \in Upload : Started(u) => upload[u] \in UploadRecord
    BY <2>1 DEF Types, Started
  <2>3. \A u \in expired : Started(u)
    BY <2>1 DEF Coherent
  <2>4. optedIn \subseteq Node /\ placed \subseteq Upload /\ removed \subseteq Node \X Content
    BY <2>1 DEF Types
  <2>5. \A n \in Node, c \in Content :
          LET held == {store[n][c].bins[i] : i \in DOMAIN store[n][c].bins}
                        \union {store[n][c].shares[i].upload : i \in DOMAIN store[n][c].shares}
                        \union ({store[n][c].manifest} \ {None})
          IN  \A u \in held : u \in Upload /\ Started(u) /\ upload[u].content = c
    <3> TAKE n \in Node, c \in Content
    <3> DEFINE bins == {store[n][c].bins[i] : i \in DOMAIN store[n][c].bins}
               shares == {store[n][c].shares[i].upload : i \in DOMAIN store[n][c].shares}
               manifests == {store[n][c].manifest} \ {None}
    <3>1. \A u \in bins : u \in Upload /\ Of(u, c)
      BY <2>1, HeldIs
    <3>2. \A u \in shares : u \in Upload /\ Of(u, c)
      BY <2>1, HeldIs
    <3>3. \A u \in manifests : u \in Upload /\ Of(u, c)
      BY <2>1, HeldIs
    <3> HIDE DEF bins, shares, manifests
    <3>4. \A u \in bins \union shares \union manifests :
            u \in Upload /\ Started(u) /\ upload[u].content = c
      BY <3>1, <3>2, <3>3 DEF Of
    <3> QED
      BY <3>4 DEF bins, shares, manifests
  <2>6. ASSUME NEW u \in Upload, push[u] # None
        PROVE  /\ Started(u)
               /\ push[u].pc \in {"created", "ready", "waiting"}
               /\ push[u].pc \in {"ready", "waiting"} =>
                    push[u].next \in 0..Cardinality(Fragment(u))
    <3>1. PushOK(u) /\ Started(u)
      BY <2>1, <2>6 DEF Coherent, PushOK
    <3>2. push[u] \in PushTask
      BY <2>1, <2>6 DEF Types
    <3>3. push[u].pc \in {"created", "ready", "waiting"}
      BY <3>2 DEF PushTask
    <3>4. ASSUME push[u].pc \in {"ready", "waiting"}
          PROVE  push[u].next \in 0..Cardinality(Fragment(u))
      <4>1. push[u].next \in Nat
        BY <3>2, <3>4 DEF PushTask
      <4>2. push[u].next <= upload[u].layout.fragments
        BY <2>6, <3>1, <3>4 DEF PushOK
      <4>3. PICK f \in Nat \ {0} : f = upload[u].layout.fragments
        BY <2>1, <3>1, StartedIs
      <4>4. Cardinality(Fragment(u)) = f
        BY <2>1, <3>1, <4>3, FragmentsAre
      <4> QED
        BY <4>1, <4>2, <4>3, <4>4
    <3> QED
      BY <3>1, <3>3, <3>4
  <2>7. \A msg \in inbox : msg.pc \in {"sent", "admitted"} /\ msg.to \in Node
    BY <2>1 DEF Types, Message
  <2>8. \A m1, m2 \in inbox : m1.upload = m2.upload => m1 = m2
    BY <2>1 DEF Coherent, OnePost
  <2> QED
    BY <2>2, <2>3, <2>4, <2>5, <2>6, <2>7, <2>8 DEF TypeOK
<1> QED
  BY <1>1, AlwaysInv, PTL

\* As long as a content has been encrypted once, a directory holds one key, and
\* where the upload was made a manifest means that all fragments are there.
THEOREM AlwaysWholeUnlessReuploaded == Spec => []WholeUnlessReuploaded
<1>1. ASSUME Inv PROVE WholeUnlessReuploaded
  <2> SUFFICES ASSUME NEW u \in Upload, OnlyUpload(u)
               PROVE  LET c == upload[u].content
                          directory == store[upload[u].origin][c]
                      IN  /\ \A n \in Node :
                               /\ store[n][c].manifest \in {None, u}
                               /\ \A i \in DOMAIN store[n][c].bins : store[n][c].bins[i] = u
                          /\ \/ directory.manifest = None \/ u \in expired
                             \/ <<upload[u].origin, c>> \in removed
                             \/ Decrypts(upload[u].origin, c, u)
    BY DEF WholeUnlessReuploaded
  <2>1. Coherent /\ Types /\ WholeAtOrigin(u) /\ Started(u)
    BY <1>1 DEF Inv, Coherent, OnlyUpload
  <2>2. PICK c \in Content, o \in Node : c = upload[u].content /\ o = upload[u].origin
    BY <2>1, StartedIs
  <2>3. \A w \in Upload : Of(w, c) => w = u
    BY <2>2 DEF OnlyUpload, Of
  <2>4. \A n \in Node :
          /\ store[n][c].manifest \in {None, u}
          /\ \A i \in DOMAIN store[n][c].bins : store[n][c].bins[i] = u
    BY <2>1, <2>3, HeldIs
  <2>5. ASSUME store[o][c].manifest # None, u \notin expired, <<o, c>> \notin removed
        PROVE  Decrypts(o, c, u)
    <3>1. Fragment(u) \subseteq DOMAIN store[o][c].bins
      BY <2>1, <2>2, <2>5 DEF WholeAtOrigin, Kept, Trace
    <3>2. store[o][c].manifest = u /\ u # None
      BY <2>4, <2>5, AbsenceAssumption
    <3> QED
      BY <2>4, <2>5, <3>1, <3>2 DEF Decrypts
  <2> QED
    BY <2>2, <2>4, <2>5
<1> QED
  BY <1>1, AlwaysInv, PTL

\* The capacity of a node that uploads nothing is overshot by no more than
\* one POST of each upload brings beside the fragment compared last.
THEOREM AlwaysCapacityOvershoot == Spec => []CapacityOvershoot
<1>1. ASSUME Inv PROVE CapacityOvershoot
  <2> SUFFICES ASSUME NEW n \in Node, Capacity[n] # 0, OnlyStores(n)
               PROVE  \/ Used(n) <= Capacity[n]
                      \/ \E last \in Upload :
                           Started(last) /\ Used(n) <= Capacity[n] + Cardinality(Beside(last))
    BY DEF CapacityOvershoot, OnlyStores
  <2>1. /\ IsFiniteSet(Bytes(n)) /\ Used(n) = Cardinality(Bytes(n))
        /\ Bounded(n, Cardinality(Bytes(n)) + Cardinality(Pending(n)))
    BY <1>1 DEF Inv, RoomOK, Used, Bytes
  <2>2. Cardinality(Pending(n)) \in Nat /\ Cardinality(Bytes(n)) \in Nat
    BY <1>1, <2>1, PendingIs, FS_CardinalityType DEF Inv
  <2>3. Capacity[n] \in Nat
    BY FragmentsAssumption
  <2>4. CASE Cardinality(Bytes(n)) + Cardinality(Pending(n)) <= Capacity[n]
    BY <2>1, <2>2, <2>3, <2>4
  <2>5. CASE \E last \in StartedUploads :
               Cardinality(Bytes(n)) + Cardinality(Pending(n)) <=
                 Capacity[n] + Cardinality(Beside(last))
    <3>1. PICK last \in StartedUploads :
            Cardinality(Bytes(n)) + Cardinality(Pending(n)) <=
              Capacity[n] + Cardinality(Beside(last))
      BY <2>5
    <3>2. Cardinality(Beside(last)) \in Nat
      BY <1>1, BesideFinite, FS_CardinalityType DEF Inv, Coherent
    <3>3. Used(n) <= Capacity[n] + Cardinality(Beside(last))
      BY <2>1, <2>2, <2>3, <3>1, <3>2
    <3> QED
      BY <3>1, <3>3 DEF StartedUploads
  <2> QED
    BY <2>1, <2>4, <2>5 DEF Bounded
<1> QED
  BY <1>1, AlwaysInv, PTL

\* A remainder is less than its divisor, and what is less stays.
LEMMA RemainderIs ==
  ASSUME NEW i \in Nat, NEW s \in Nat \ {0}
  PROVE  i % s \in 0..(s - 1) /\ (i < s => i % s = i)
OBVIOUS

\* What every receiver accepted can be put together again, unless it was
\* removed or the content uploaded again.
THEOREM AlwaysPlacedMeansRecoverable == Spec => []PlacedMeansRecoverable
<1>1. ASSUME Inv PROVE PlacedMeansRecoverable
  <2> SUFFICES ASSUME NEW u \in placed, OnlyUpload(u),
                      \A n \in Node : <<n, upload[u].content>> \notin removed
               PROVE  /\ FragmentsAtPeers(u) = Fragment(u)
                      /\ upload[u].layout.fragments >= upload[u].layout.threshold =>
                           Cardinality(SharesAtPeers(u)) >= upload[u].layout.threshold
    BY DEF PlacedMeansRecoverable
  <2>1. Coherent /\ Types /\ u \in Upload /\ AcceptedOK(u) /\ Started(u)
    BY <1>1 DEF Inv, Coherent, Types, OnlyUpload
  <2>2. PICK c \in Content, f \in Nat \ {0}, s \in Nat \ {0}, t \in Nat \ {0} :
          /\ c = upload[u].content /\ f = upload[u].layout.fragments
          /\ s = upload[u].layout.shares /\ t = upload[u].layout.threshold /\ t <= s
    BY <2>1, StartedIs
  <2>3. \A w \in Upload : Of(w, c) => w = u
    BY <2>2 DEF OnlyUpload, Of
  <2>4. Fragment(u) = 0..(f - 1)
    BY <2>2 DEF Fragment
  <2>5. ASSUME NEW n \in Node, NEW i \in DOMAIN store[n][c].shares
        PROVE  /\ i \in Fragment(u) /\ store[n][c].bins[i] = u
               /\ store[n][c].shares[i].upload = u /\ store[n][c].shares[i].id = i % s
    <3>1. PICK share : share = store[n][c].shares[i]
      OBVIOUS
    <3>2. /\ i \in DOMAIN store[n][c].bins
          /\ share.upload \in Upload /\ Of(share.upload, c)
          /\ i \in Fragment(share.upload)
          /\ share.id = i % upload[share.upload].layout.shares
      BY <2>1, <3>1, HeldIs
    <3>3. store[n][c].bins[i] \in Upload /\ Of(store[n][c].bins[i], c)
      BY <2>1, <3>2, HeldIs
    <3>4. share.upload = u /\ store[n][c].bins[i] = u
      BY <2>3, <3>2, <3>3
    <3> QED
      BY <2>2, <3>1, <3>2, <3>4
  <2>6. \A i \in Fragment(u) : \E n \in Node : i \in DOMAIN store[n][c].shares
    BY <2>1, <2>2 DEF AcceptedOK, Accepted, Kept
  <2>7. FragmentsAtPeers(u) = Fragment(u)
    <3>1. FragmentsAtPeers(u) =
            UNION {{i \in DOMAIN store[n][c].shares :
                      store[n][c].bins[i] = u /\ store[n][c].shares[i].upload = u} : n \in Node}
      BY <2>2 DEF FragmentsAtPeers
    <3> QED
      BY <2>5, <2>6, <3>1
  <2>8. SharesAtPeers(u) =
          UNION {{store[n][c].shares[i].id : i \in DOMAIN store[n][c].shares} : n \in Node}
    BY <2>2 DEF SharesAtPeers
  <2>9. \A i \in Fragment(u) : i % s \in SharesAtPeers(u)
    BY <2>5, <2>6, <2>8
  <2>10. SharesAtPeers(u) \in SUBSET (0..(s - 1))
    <3> SUFFICES ASSUME NEW id \in SharesAtPeers(u) PROVE id \in 0..(s - 1)
      OBVIOUS
    <3>1. PICK n \in Node : \E i \in DOMAIN store[n][c].shares : id = store[n][c].shares[i].id
      BY <2>8
    <3>2. PICK i \in DOMAIN store[n][c].shares : id = store[n][c].shares[i].id
      BY <3>1
    <3>3. i \in Nat /\ id = i % s
      BY <2>4, <2>5, <3>2
    <3> QED
      BY <3>3, RemainderIs
  <2>11. ASSUME f >= t PROVE Cardinality(SharesAtPeers(u)) >= t
    <3>1. 0..(t - 1) \in SUBSET SharesAtPeers(u)
      <4> SUFFICES ASSUME NEW i \in 0..(t - 1) PROVE i \in SharesAtPeers(u)
        OBVIOUS
      <4>1. i \in Fragment(u) /\ i \in Nat /\ i < s
        <5>1. t <= s /\ t <= f /\ i \in 0..(t - 1)
          BY <2>2, <2>11
        <5>2. i \in Nat /\ i < s /\ i \in 0..(f - 1)
          BY <5>1
        <5> QED
          BY <2>4, <5>2
      <4>2. i % s = i
        BY <4>1, RemainderIs
      <4> QED
        BY <2>9, <4>1, <4>2
    <3>2. IsFiniteSet(0..(s - 1)) /\ IsFiniteSet(0..(t - 1)) /\ Cardinality(0..(t - 1)) = t
      BY FS_Interval
    <3>3. IsFiniteSet(SharesAtPeers(u))
      BY <2>10, <3>2, FS_Subset
    <3>4. t <= Cardinality(SharesAtPeers(u))
      BY <3>1, <3>2, <3>3, FS_Subset
    <3>5. Cardinality(SharesAtPeers(u)) \in Nat
      BY <3>3, FS_CardinalityType
    <3> QED
      BY <3>4, <3>5
  <2> QED
    BY <2>2, <2>7, <2>11
<1> QED
  BY <1>1, AlwaysInv, PTL

-----------------------------------------------------------------------------
(* What is removed stays removed *)

\* No directory gets a fragment of u that it did not have.
NoneArrives(u) ==
  \A n \in Node, c \in Content : \A i \in DOMAIN store'[n][c].bins :
    store'[n][c].bins[i] = u => i \in DOMAIN store[n][c].bins /\ store[n][c].bins[i] = u

\* An upload that is over gets neither a task nor a POST, and arrives nowhere.
OverStep(u) == Over(u)' /\ NoneArrives(u)

\* An upload that is over stays so, if it gets no task, POST or fragment.
LEMMA OverKept ==
  ASSUME Types, UploadsKept, NEW u \in Upload, Over(u), push'[u] \in {None, push[u]},
         \A m \in inbox' : m.upload = u => \E msg \in inbox : m.upload = msg.upload,
         NoneArrives(u)
  PROVE  OverStep(u)
<1>1. Started(u)'
  BY KeptIs DEF Over
<1> QED
  BY <1>1 DEF Over, OverStep

\* Directories that stay as they are, or are removed.
LEMMA NoneArrivesByRemoval ==
  ASSUME NEW u,
         \A n \in Node, c \in Content : store'[n][c] = store[n][c] \/ store'[n][c] = Absent
  PROVE  NoneArrives(u)
<1> SUFFICES ASSUME NEW n \in Node, NEW c \in Content, NEW i \in DOMAIN store'[n][c].bins,
                    store'[n][c].bins[i] = u
             PROVE  i \in DOMAIN store[n][c].bins /\ store[n][c].bins[i] = u
  BY DEF NoneArrives
<1>1. store'[n][c] # Absent
  BY AbsentIs
<1> QED
  BY <1>1

\* The writes of a POST of another upload.
LEMMA NoneArrivesByPost ==
  ASSUME Coherent, upload' = upload, NEW msg \in inbox, NEW d, Stores(msg, d),
         NEW u \in Upload, msg.upload # u
  PROVE  NoneArrives(u)
<1>1. /\ msg.to \in Node /\ upload[msg.upload].content \in Content
      /\ \A m \in Node, e \in Content :
           m # msg.to \/ e # upload[msg.upload].content => store'[m][e] = store[m][e]
      /\ store'[msg.to][upload[msg.upload].content] = d
      /\ \A i \in DOMAIN d.bins :
           \/ d.bins[i] = msg.upload
           \/ i \in DOMAIN Target(msg).bins /\ d.bins[i] = Target(msg).bins[i]
  BY StoresKeeps
<1> SUFFICES ASSUME NEW n \in Node, NEW c \in Content, NEW i \in DOMAIN store'[n][c].bins,
                    store'[n][c].bins[i] = u
             PROVE  i \in DOMAIN store[n][c].bins /\ store[n][c].bins[i] = u
  BY DEF NoneArrives
<1>2. CASE n = msg.to /\ c = upload[msg.upload].content
  BY <1>1, <1>2 DEF Target
<1>3. CASE n # msg.to \/ c # upload[msg.upload].content
  BY <1>1, <1>3
<1> QED
  BY <1>2, <1>3

\* The writes of another upload.
LEMMA FreshOver ==
  ASSUME Coherent, NEW w \in Upload, NEW origin \in Uploader, NEW content \in Content,
         NEW layout \in Layout,
         \/ Begin(w, origin, content, layout)
         \/ \E count \in 1..layout.fragments : CrashInBegin(w, origin, content, layout, count),
         NEW u \in Upload, Over(u)
  PROVE  OverStep(u)
<1>1. UploadsKept /\ ~Started(w) /\ u # w
  BY FreshKeeps DEF Begin, CrashInBegin, Coherent, Over
<1>2. /\ \A m \in Node, e \in Content :
           m # origin \/ e # content => store'[m][e] = store[m][e]
      /\ \A i \in DOMAIN store'[origin][content].bins :
           \/ store'[origin][content].bins[i] = w
           \/ /\ i \in DOMAIN store[origin][content].bins
              /\ store'[origin][content].bins[i] = store[origin][content].bins[i]
  BY BeginStore, CrashInBeginStore
<1>3. NoneArrives(u)
  <2> SUFFICES ASSUME NEW n \in Node, NEW c \in Content, NEW i \in DOMAIN store'[n][c].bins,
                      store'[n][c].bins[i] = u
               PROVE  i \in DOMAIN store[n][c].bins /\ store[n][c].bins[i] = u
    BY DEF NoneArrives
  <2>1. CASE n = origin /\ c = content
    BY <1>1, <1>2, <2>1
  <2>2. CASE n # origin \/ c # content
    BY <1>2, <2>2
  <2> QED
    BY <2>1, <2>2
<1>4. push'[u] \in {None, push[u]} /\ inbox' \subseteq inbox
  <2>1. CASE Begin(w, origin, content, layout)
    BY <1>1, <2>1 DEF Begin, Coherent, Types
  <2>2. CASE \E count \in 1..layout.fragments : CrashInBegin(w, origin, content, layout, count)
    BY <2>2, DiesIs, FragmentsAssumption DEF CrashInBegin, Coherent
  <2> QED
    BY <2>1, <2>2
<1> QED
  BY <1>1, <1>3, <1>4, OverKept DEF Coherent

\* The steps of another push.
LEMMA PushOver ==
  ASSUME Coherent, NEW w \in Upload,
         (\E peers \in PeerOrders : Discover(w, peers)) \/ Post(w) \/ EndPush(w),
         NEW u \in Upload, Over(u)
  PROVE  OverStep(u)
<1>1. push[w] # None /\ u # w /\ upload' = upload /\ store' = store
  BY DEF Discover, Post, EndPush, Over
<1>2. UploadsKept
  BY <1>1, SameUploads DEF Coherent
<1>3. NoneArrives(u)
  BY <1>1, NoneArrivesByRemoval
<1>4. push'[u] = push[u]
  BY <1>1 DEF Discover, Post, EndPush, Coherent, Types
<1>5. \A m \in inbox' : m.upload = u => \E msg \in inbox : m.upload = msg.upload
  <2>1. CASE Post(w)
    BY <1>1, <2>1, PostIs
  <2>2. CASE ~Post(w)
    BY <2>2 DEF Discover, EndPush
  <2> QED
    BY <2>1, <2>2
<1> QED
  BY <1>2, <1>3, <1>4, <1>5, OverKept DEF Coherent

\* The steps of a receiver.
LEMMA InboxOver ==
  ASSUME Coherent, NEW msg \in inbox,
         Admit(msg) \/ Refuse(msg) \/ StoreFragment(msg) \/ CrashInStore(msg),
         NEW u \in Upload, Over(u)
  PROVE  OverStep(u)
<1>1. upload' = upload /\ msg.upload # u /\ msg.to \in Node
  BY DEF Admit, Refuse, StoreFragment, CrashInStore, Over, Coherent, Types, Message
<1>2. UploadsKept
  BY <1>1, SameUploads DEF Coherent
<1>3. NoneArrives(u)
  <2>1. CASE Admit(msg) \/ Refuse(msg)
    BY <2>1, NoneArrivesByRemoval DEF Admit, Refuse
  <2>2. CASE StoreFragment(msg) \/ CrashInStore(msg)
    <3>1. \E d : Stores(msg, d)
      BY <2>2, StoreFragmentKeeps, CrashInStoreKeeps
    <3> QED
      BY <1>1, <3>1, NoneArrivesByPost
  <2> QED
    BY <2>1, <2>2
<1>4. push'[u] \in {None, push[u]}
  <2>1. CASE Admit(msg)
    BY <2>1 DEF Admit
  <2>2. CASE Refuse(msg) \/ StoreFragment(msg)
    BY <1>1, <2>2 DEF Refuse, StoreFragment, Answered, Coherent, Types
  <2>3. CASE CrashInStore(msg)
    BY <1>1, <2>3, DiesIs DEF CrashInStore, Coherent
  <2> QED
    BY <2>1, <2>2, <2>3
<1>5. \A m \in inbox' : \E old \in inbox : m.upload = old.upload
  <2>1. CASE Admit(msg)
    BY <2>1, AdmitIs
  <2>2. CASE ~Admit(msg)
    BY <2>2 DEF Refuse, StoreFragment, CrashInStore, Answered, Dies
  <2> QED
    BY <2>1, <2>2
<1> QED
  BY <1>2, <1>3, <1>4, <1>5, OverKept DEF Coherent

\* The other steps.
LEMMA OtherOver ==
  ASSUME Coherent,
         \/ \E w \in Upload : Expire(w)
         \/ \E n \in Node :
              Cleanup(n) \/ (\E c \in Content : Revoke(n, c)) \/ Toggle(n) \/ Crash(n)
         \/ UNCHANGED vars,
         NEW u \in Upload, Over(u)
  PROVE  OverStep(u)
<1>1. upload' = upload
  BY DEF Expire, Cleanup, Revoke, Toggle, Crash, vars
<1>2. UploadsKept
  BY <1>1, SameUploads DEF Coherent
<1>3. push'[u] \in {None, push[u]} /\ inbox' \subseteq inbox
  <2>1. CASE \E n \in Node : Crash(n)
    BY <2>1, DiesIs DEF Crash, Coherent
  <2>2. CASE ~\E n \in Node : Crash(n)
    BY <2>2 DEF Expire, Cleanup, Revoke, Toggle, vars
  <2> QED
    BY <2>1, <2>2
<1>4. \A n \in Node, c \in Content : store'[n][c] = store[n][c] \/ store'[n][c] = Absent
  <2>1. CASE (\E n \in Node : Cleanup(n)) \/ \E n \in Node, c \in Content : Revoke(n, c)
    BY <2>1, CleanupIs, RevokeIs
  <2>2. CASE ~((\E n \in Node : Cleanup(n)) \/ \E n \in Node, c \in Content : Revoke(n, c))
    BY <2>2 DEF Expire, Toggle, Crash, vars
  <2> QED
    BY <2>1, <2>2
<1>5. NoneArrives(u)
  BY <1>4, NoneArrivesByRemoval
<1> QED
  BY <1>2, <1>3, <1>5, OverKept DEF Coherent

\* A node that has no fragment of an upload gets none unless one arrives.
LEMMA HoldsKept ==
  ASSUME Types, UploadsKept, NEW u \in Upload, Started(u), NEW n \in Node, Holds(n, u)',
         NoneArrives(u)
  PROVE  Holds(n, u)
<1>1. PICK c \in Content : c = upload[u].content /\ c = upload'[u].content
  BY StartedIs, KeptIs
<1>2. PICK i \in DOMAIN store'[n][c].bins : store'[n][c].bins[i] = u
  BY <1>1 DEF Holds
<1> QED
  BY <1>1, <1>2 DEF Holds, NoneArrives

\* Once the push of an upload and its POSTs are over, a node that does not hold
\* a fragment of it never gets one.
THEOREM AlwaysRemovalIsFinal == Spec => RemovalIsFinal
<1>1. ASSUME Inv, [Next]_vars
      PROVE  \A u \in Upload : Over(u) =>
               /\ Over(u)'
               /\ \A n \in Node : ~Holds(n, u) => ~Holds(n, u)'
  <2> SUFFICES ASSUME NEW u \in Upload, Over(u)
               PROVE  /\ Over(u)'
                      /\ \A n \in Node : ~Holds(n, u) => ~Holds(n, u)'
    OBVIOUS
  <2>1. Coherent /\ Types /\ Started(u)
    BY <1>1 DEF Inv, Coherent, Over
  <2>2. OverStep(u)
    <3>1. CASE \E w \in Upload, origin \in Uploader, content \in Content, layout \in Layout :
                 \/ Begin(w, origin, content, layout)
                 \/ \E count \in 1..layout.fragments :
                      CrashInBegin(w, origin, content, layout, count)
      BY <2>1, <3>1, FreshOver
    <3>2. CASE \E w \in Upload :
                 (\E peers \in PeerOrders : Discover(w, peers)) \/ Post(w) \/ EndPush(w)
      BY <2>1, <3>2, PushOver
    <3>3. CASE \E msg \in inbox :
                 Admit(msg) \/ Refuse(msg) \/ StoreFragment(msg) \/ CrashInStore(msg)
      BY <2>1, <3>3, InboxOver
    <3>4. CASE \/ \E w \in Upload : Expire(w)
               \/ \E n \in Node :
                    Cleanup(n) \/ (\E c \in Content : Revoke(n, c)) \/ Toggle(n) \/ Crash(n)
               \/ UNCHANGED vars
      BY <2>1, <3>4, OtherOver
    <3> QED
      BY <1>1, <3>1, <3>2, <3>3, <3>4 DEF Next
  <2>3. UploadsKept
    <3>1. CASE \E w \in Upload, origin \in Uploader, content \in Content, layout \in Layout :
                 Fresh(w, origin, content, layout)
      BY <2>1, <3>1, FreshKeeps
    <3>2. CASE upload' = upload
      BY <2>1, <3>2, SameUploads
    <3>3. CASE \E w \in Upload, origin \in Uploader, content \in Content, layout \in Layout :
                 \/ Begin(w, origin, content, layout)
                 \/ \E count \in 1..layout.fragments :
                      CrashInBegin(w, origin, content, layout, count)
      BY <3>1, <3>3 DEF Begin, CrashInBegin
    <3>4. CASE \E w \in Upload :
                 (\E peers \in PeerOrders : Discover(w, peers)) \/ Post(w) \/ EndPush(w)
      BY <3>2, <3>4 DEF Discover, Post, EndPush
    <3>5. CASE \E msg \in inbox :
                 Admit(msg) \/ Refuse(msg) \/ StoreFragment(msg) \/ CrashInStore(msg)
      BY <3>2, <3>5 DEF Admit, Refuse, StoreFragment, CrashInStore
    <3>6. CASE \/ \E w \in Upload : Expire(w)
               \/ \E n \in Node :
                    Cleanup(n) \/ (\E c \in Content : Revoke(n, c)) \/ Toggle(n) \/ Crash(n)
               \/ UNCHANGED vars
      BY <3>2, <3>6 DEF Expire, Cleanup, Revoke, Toggle, Crash, vars
    <3> QED
      BY <1>1, <3>3, <3>4, <3>5, <3>6 DEF Next
  <2> QED
    BY <2>1, <2>2, <2>3, HoldsKept DEF OverStep
<1> QED
  BY <1>1, AlwaysInv, PTL DEF Spec, RemovalIsFinal

=============================================================================
