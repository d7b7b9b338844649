------------------------------- MODULE Gossip -------------------------------
(***************************************************************************)
(* The membership tables of the nodes and the rounds that spread them.     *)
(*                                                                         *)
(* A node inserts its seeds under the fingerprint of their keys, every     *)
(* other row is named by a node's domain: one node can have two rows.  In  *)
(* a round a node raises its generation, POSTs its table to a peer it      *)
(* believes alive, merges the table in the answer and ages its rows.  The  *)
(* receiver registers the sender as a direct contact and merges its table. *)
(*                                                                         *)
(* Each of these is a database session of its own: it reads rows, one by   *)
(* one and without a lock, and its commit updates the columns that it has  *)
(* changed in rows that others may have changed meanwhile.  The rows that  *)
(* an open session is going to write are its plan.                         *)
(*                                                                         *)
(* Time is left out: any row may have been silent for long enough when     *)
(* rows are aged.                                                          *)
(***************************************************************************)
EXTENDS Integers, Sequences, FiniteSets

CONSTANTS
  Node,            \* the resolver nodes
  Seeds,           \* GOSSIP_SEEDS of each node
  None,            \* no row, no target, no answer
  Stored,          \* the tables that earlier processes have left
  Earlier,         \* per node, the highest generation they had
  MaxGeneration,   \* bound, per node: the rounds of each process it has
                   \* from now on; <<>>, if it is down
  MaxPosts,        \* bound: POSTs of one node under way or being handled
  Silent           \* bound: the rows that may have been silent for too long

ASSUME GossipAssumption ==
  /\ Seeds \in [Node -> SUBSET Node]
  /\ \A n \in Node : n \notin Seeds[n]
  /\ Earlier \in [Node -> Nat]
  /\ MaxGeneration \in [Node -> Seq(Nat)] /\ MaxPosts \in Nat

VARIABLES
  generation,   \* per node, _generation of its process
  table,        \* per node, its gossip_peers: a function of node ids
  round,        \* per node, the round at work: [pc, to, reply, plan]
  inbox,        \* POSTs under way or being handled: [from, to, digest, pc,
                \* waited, plan]; of a reply or digest, what is not merged yet
  pending,      \* per node, the seeds it still means to reach
  boot,         \* per node, the plan of its bootstrap
  issued,       \* per node, the highest generation it ever had
  starts        \* per node, how often it was started

vars == <<generation, table, round, inbox, pending, boot, issued, starts>>

-----------------------------------------------------------------------------
Status == {"alive", "suspect", "dead"}

\* A node's id is its domain, or in rows of seeds its key's fingerprint.
Host(n) == <<"host", n>>
Key(n) == <<"key", n>>
Id == {"host", "key"} \X Node

\* The node at a row's endpoint.
NodeOf(id) == id[2]

Peer == [status: Status, generation: Nat]

ASSUME AbsenceAssumption == None \notin Peer

\* A set of rows, as tables and digests are.
Rows(rows) == DOMAIN rows \subseteq Id /\ \A id \in DOMAIN rows : rows[id] \in Peer

\* Earlier processes had the same seeds, and kept to what is checked here.
ASSUME StoredAssumption ==
  /\ DOMAIN Stored = Node
  /\ \A n \in Node :
       /\ Rows(Stored[n])
       /\ \A m \in Node :
            /\ Host(m) \in DOMAIN Stored[n] => Stored[n][Host(m)].generation <= Earlier[m]
            /\ Key(m) \in DOMAIN Stored[n] =>
                 Stored[n][Key(m)].generation = 0 /\ \E k \in Node : m \in Seeds[k]
       /\ Host(n) \in DOMAIN Stored[n] => Key(n) \in DOMAIN Stored[n]

Alive(g) == [status |-> "alive", generation |-> g]

Larger(a, b) == IF a > b THEN a ELSE b

\* A table with one row inserted or overwritten.
WithRow(rows, id, row) ==
  [i \in DOMAIN rows \union {id} |-> IF i = id THEN row ELSE rows[i]]

\* The nodes that are up.
Running == {n \in Node : MaxGeneration[n] # << >>}

\* What a SELECT of one row returns.
Row(rows, id) == IF id \in DOMAIN rows THEN rows[id] ELSE None

\* A wrong Digest: the node's own row is not added.
DigestOfRows(rows, n, g) == rows

\* build_digest on node n: the rows it has, with n itself first.
Digest(rows, n, g) == WithRow(rows, Host(n), Alive(g))

-----------------------------------------------------------------------------
(* Plans: for each row that a session is going to write what it read of    *)
(* it, at first and when it decided, and what it makes of it.  A row that  *)
(* the first SELECT did not find is looked up a second time; between the   *)
(* two its entry is NotFound.                                              *)

NoPlan == [id \in {} |-> None]

\* The row, as it was read, becomes new.
Changed(row, new) == [first |-> row, last |-> row, new |-> new]

\* Nothing was found, and nothing is decided yet.
NotFound == Changed(None, None)

\* Two wrong Heards: newer news revive a dead row, older news are taken.
HeardAlways(known, news) == IF news.generation > known.generation THEN news ELSE known

HeardLast(known, news) ==
  [news EXCEPT !.status = IF known.status = "dead" /\ @ = "alive" THEN "dead" ELSE @]

\* merge_digest: a known row and what another node says of it.
Heard(known, news) ==
  IF news.generation > known.generation
    THEN [news EXCEPT !.status =
            IF known.status = "dead" /\ @ = "alive" THEN "dead" ELSE @]
    ELSE known

\* _upsert_peer: the news are taken, but for an earlier generation.
Upserted(row, news) ==
  IF row = None THEN news
  ELSE [news EXCEPT !.generation = Larger(row.generation, @)]

\* A wrong Suspected: the suspicion is spread as news of the peer.
SuspectedAsNews(row) == [status |-> "suspect", generation |-> row.generation + 1]

\* _mark_suspect, of an alive row.
Suspected(row) == [row EXCEPT !.status = "suspect"]

\* _age_peers, of a row that has been silent for too long.
Aged(row) == [row EXCEPT !.status = IF @ = "alive" THEN "suspect" ELSE "dead"]

\* The commit fails: a row to be inserted is there by now.
Clash(rows, plan) == \E id \in DOMAIN plan : plan[id].last = None /\ id \in DOMAIN rows

\* The value a column has after the commit.
Column(now, was, new) == IF new = was THEN now ELSE new

\* The table after the commit: new rows, and the columns that were changed.
Committed(rows, plan) ==
  [id \in DOMAIN rows \union DOMAIN plan |->
     IF id \notin DOMAIN plan THEN rows[id]
     ELSE IF id \notin DOMAIN rows THEN plan[id].new
     ELSE LET was == plan[id].last
              new == plan[id].new
          IN  [status |-> Column(rows[id].status, was.status, new.status),
               generation |-> Column(rows[id].generation, was.generation, new.generation)]]

\* The session of node n commits.
Commit(n, plan) ==
  /\ ~Clash(table[n], plan)
  /\ table' = [table EXCEPT ![n] = Committed(@, plan)]

\* The rows but that one.
Without(rows, id) == [i \in DOMAIN rows \ {id} |-> rows[i]]

\* A wrong Others: a node takes what it hears of itself.
OthersAndSelf(rows, n) == rows

\* What merge_digest on node n looks at: not the own entry.
Others(rows, n) == Without(rows, Host(n))

\* merge_digest reads a row: one that is there is decided about, one that is
\* not is read once more, by _upsert_peer.
Look(plan, id, row, news) ==
  IF id \in DOMAIN plan
    THEN WithRow(plan, id, [first |-> None, last |-> row, new |-> Upserted(row, news)])
  ELSE IF row = None THEN WithRow(plan, id, NotFound)
  ELSE IF Heard(row, news) = row THEN plan
  ELSE WithRow(plan, id, Changed(row, Heard(row, news)))

\* What is left of the digest then.
Left(digest, plan, id, row) ==
  IF id \notin DOMAIN plan /\ row = None THEN digest ELSE Without(digest, id)

\* A round at some point of it, and between rounds.
RoundAt(pc, to, plan) == [pc |-> pc, to |-> to, reply |-> None, plan |-> plan]
Asleep == RoundAt("asleep", None, NoPlan)

Init ==
  /\ generation = [n \in Node |-> 0]
  /\ table = Stored
  /\ round = [n \in Node |-> Asleep]
  /\ inbox = {}
  /\ pending = Seeds
  /\ boot = [n \in Node |-> NoPlan]
  /\ issued = Earlier
  /\ starts = [n \in Node |-> 1]

-----------------------------------------------------------------------------
(* bootstrap_peers *)

\* A seed has answered with its signed descriptor, and its row is read.
ReachSeed(n, seed) ==
  LET row == Row(table[n], Key(seed))
  IN  /\ seed \in pending[n] \cap Running
      /\ pending' = [pending EXCEPT ![n] = @ \ {seed}]
      /\ boot' = [boot EXCEPT ![n] = WithRow(@, Key(seed), Changed(row, Upserted(row, Alive(0))))]
      /\ UNCHANGED <<generation, table, round, inbox, issued, starts>>

\* All seeds were tried; those that failed are tried again.
CommitSeeds(n) ==
  /\ boot[n] # NoPlan
  /\ Commit(n, boot[n])
  /\ boot' = [boot EXCEPT ![n] = NoPlan]
  /\ UNCHANGED <<generation, round, inbox, pending, issued, starts>>

\* The last retry has failed, or a commit.
GiveUpSeeds(n) ==
  /\ pending[n] # {} \/ boot[n] # NoPlan
  /\ pending' = [pending EXCEPT ![n] = {}]
  /\ boot' = [boot EXCEPT ![n] = NoPlan]
  /\ UNCHANGED <<generation, table, round, inbox, issued, starts>>

-----------------------------------------------------------------------------
(* gossip_sync: each handler works through its sessions *)

\* The POST at a later point of its handling.
At(msg, pc, plan) == [msg EXCEPT !.pc = pc, !.plan = plan]

Becomes(msg, new) == inbox' = (inbox \ {msg}) \union {new}

\* register_direct_contact reads the sender's row.
Contact(msg) ==
  LET id == Host(msg.from)
      row == Row(table[msg.to], id)
      news == Alive(msg.digest[id].generation)
  IN  /\ msg.pc = "sent" /\ msg.to \in Running
      /\ Becomes(msg, At(msg, "contact", WithRow(NoPlan, id, Changed(row, Upserted(row, news)))))
      /\ UNCHANGED <<generation, table, round, pending, boot, issued, starts>>

CommitContact(msg) ==
  /\ msg.pc = "contact"
  /\ Commit(msg.to, msg.plan)
  /\ Becomes(msg, [At(msg, "merging", NoPlan) EXCEPT !.digest = Others(@, msg.to)])
  /\ UNCHANGED <<generation, round, pending, boot, issued, starts>>

\* merge_digest reads a row.
ReadRow(msg, id) ==
  LET row == Row(table[msg.to], id)
  IN  /\ msg.pc = "merging"
      /\ id \in DOMAIN msg.digest
      /\ Becomes(msg, [msg EXCEPT !.plan = Look(@, id, row, msg.digest[id]),
                                  !.digest = Left(@, msg.plan, id, row)])
      /\ UNCHANGED <<generation, table, round, pending, boot, issued, starts>>

CommitMerge(msg) ==
  /\ msg.pc = "merging"
  /\ DOMAIN msg.digest = {}
  /\ Commit(msg.to, msg.plan)
  /\ Becomes(msg, At(msg, "merged", NoPlan))
  /\ UNCHANGED <<generation, round, pending, boot, issued, starts>>

\* The own digest is returned, to the sender's round if it still waits.
Reply(msg) ==
  /\ msg.pc = "merged"
  /\ inbox' = inbox \ {msg}
  /\ round' = IF msg.waited
                THEN [round EXCEPT ![msg.from] =
                        [pc |-> "merging", to |-> @.to, plan |-> NoPlan,
                         reply |-> Others(Digest(table[msg.to], msg.to, generation[msg.to]),
                                          msg.from)]]
                ELSE round
  /\ UNCHANGED <<generation, table, pending, boot, issued, starts>>

\* The POST is lost, or its handler fails, as in a commit that clashes.
Lose(msg) ==
  /\ inbox' = inbox \ {msg}
  /\ UNCHANGED <<generation, table, round, pending, boot, issued, starts>>

-----------------------------------------------------------------------------
(* _gossip_round *)

\* The peers a round may choose from.
Choices(n) == {id \in DOMAIN table[n] : table[n][id].status = "alive" /\ id # Host(n)}

\* The generation is raised.
StartRound(n) ==
  /\ n \in Running /\ round[n].pc = "asleep"
  /\ generation[n] < MaxGeneration[n][starts[n]]
  /\ generation' = [generation EXCEPT ![n] = @ + 1]
  /\ issued' = [issued EXCEPT ![n] = Larger(@, generation[n] + 1)]
  /\ round' = [round EXCEPT ![n] = RoundAt("begun", None, NoPlan)]
  /\ UNCHANGED <<table, inbox, pending, boot, starts>>

\* A target is chosen.
Choose(n, to) ==
  /\ round[n].pc = "begun"
  /\ to \in Choices(n)
  /\ round' = [round EXCEPT ![n] = RoundAt("chosen", to, NoPlan)]
  /\ UNCHANGED <<generation, table, inbox, pending, boot, issued, starts>>

\* The digest is built and sent.
Send(n) ==
  LET to == round[n].to
  IN  /\ round[n].pc = "chosen"
      /\ Cardinality({msg \in inbox : msg.from = n}) < MaxPosts
      /\ round' = [round EXCEPT ![n].pc = "waiting"]
      /\ inbox' = inbox \union
           {[from |-> n, to |-> NodeOf(to), pc |-> "sent", waited |-> TRUE, plan |-> NoPlan,
             digest |-> Digest(table[n], n, generation[n])]}
      /\ UNCHANGED <<generation, table, pending, boot, issued, starts>>

\* The answer is merged, row by row.
ReadReply(n, id) ==
  LET row == Row(table[n], id)
  IN  /\ round[n].pc = "merging"
      /\ id \in DOMAIN round[n].reply
      /\ round' = [round EXCEPT ![n].plan = Look(@, id, row, round[n].reply[id]),
                                ![n].reply = Left(@, round[n].plan, id, row)]
      /\ UNCHANGED <<generation, table, inbox, pending, boot, issued, starts>>

CommitReply(n) ==
  /\ round[n].pc = "merging"
  /\ DOMAIN round[n].reply = {}
  /\ Commit(n, round[n].plan)
  /\ round' = [round EXCEPT ![n] = RoundAt("ageing", None, NoPlan)]
  /\ UNCHANGED <<generation, inbox, pending, boot, issued, starts>>

\* Nobody waits for the answer to a POST of n any more.
Unwaited(n) ==
  inbox' = {IF msg.from = n THEN [msg EXCEPT !.waited = FALSE] ELSE msg : msg \in inbox}

\* No answer in time, an error, an unusable answer or one whose commit fails:
\* _mark_suspect reads the target's row.
Fail(n) ==
  LET to == round[n].to
      row == table[n][to]
  IN  /\ round[n].pc \in {"waiting", "merging"}
      /\ round' = [round EXCEPT ![n] =
           IF row.status = "alive"
             THEN RoundAt("failing", None, WithRow(NoPlan, to, Changed(row, Suspected(row))))
             ELSE RoundAt("ageing", None, NoPlan)]
      /\ Unwaited(n)
      /\ UNCHANGED <<generation, table, pending, boot, issued, starts>>

\* A suspicion is committed before the rows are aged; after an answer other
\* than 200 they are not, which is to age none of them.
CommitSuspect(n) ==
  /\ round[n].pc = "failing"
  /\ Commit(n, round[n].plan)
  /\ round' = [round EXCEPT ![n] = RoundAt("ageing", None, NoPlan)]
  /\ UNCHANGED <<generation, inbox, pending, boot, issued, starts>>

\* _age_peers reads all rows; ids are the ones that were silent for too long.
ReadAges(n, ids) ==
  /\ round[n].pc = "ageing"
  /\ ids \subseteq {id \in Silent \cap DOMAIN table[n] : table[n][id].status # "dead"}
  /\ round' = [round EXCEPT ![n] =
       IF ids = {} THEN Asleep
       ELSE RoundAt("aged", None, [id \in ids |-> Changed(table[n][id], Aged(table[n][id]))])]
  /\ UNCHANGED <<generation, table, inbox, pending, boot, issued, starts>>

CommitAges(n) ==
  /\ round[n].pc = "aged"
  /\ Commit(n, round[n].plan)
  /\ round' = [round EXCEPT ![n] = Asleep]
  /\ UNCHANGED <<generation, inbox, pending, boot, issued, starts>>

\* There is nobody to talk to, or a session fails: the round ends, before it
\* ages any row, and the loop goes on.
EndRound(n) ==
  /\ \/ round[n].pc = "begun" /\ Choices(n) = {}
     \/ round[n].pc \in {"chosen", "failing", "aged"}
  /\ round' = [round EXCEPT ![n] = Asleep]
  /\ UNCHANGED <<generation, table, inbox, pending, boot, issued, starts>>

\* Nothing is under way; the loops sleep until their next rounds.
Sleep ==
  /\ inbox = {}
  /\ \A n \in Node : round[n] = Asleep /\ pending[n] = {} /\ boot[n] = NoPlan
  /\ UNCHANGED vars

-----------------------------------------------------------------------------
\* The process dies and starts anew: the table is kept, the generation is not.
Restart(n) ==
  /\ n \in Running /\ starts[n] < Len(MaxGeneration[n])
  /\ starts' = [starts EXCEPT ![n] = @ + 1]
  /\ generation' = [generation EXCEPT ![n] = 0]
  /\ round' = [round EXCEPT ![n] = Asleep]
  /\ inbox' = {IF msg.from = n THEN [msg EXCEPT !.waited = FALSE] ELSE msg :
                 msg \in {m \in inbox : m.to # n \/ m.pc = "sent"}}
  /\ pending' = [pending EXCEPT ![n] = Seeds[n]]
  /\ boot' = [boot EXCEPT ![n] = NoPlan]
  /\ UNCHANGED <<table, issued>>

Next ==
  \/ \E n \in Node :
       \/ \E seed \in Seeds[n] : ReachSeed(n, seed)
       \/ CommitSeeds(n)
       \/ GiveUpSeeds(n)
       \/ StartRound(n)
       \/ \E id \in Id : Choose(n, id) \/ ReadReply(n, id)
       \/ Send(n)
       \/ CommitReply(n)
       \/ Fail(n)
       \/ CommitSuspect(n)
       \/ \E ids \in SUBSET Id : ReadAges(n, ids)
       \/ CommitAges(n)
       \/ EndRound(n)
       \/ Restart(n)
  \/ \E msg \in inbox :
       \/ Contact(msg)
       \/ CommitContact(msg)
       \/ \E id \in Id : ReadRow(msg, id)
       \/ CommitMerge(msg)
       \/ Reply(msg)
       \/ Lose(msg)
  \/ Sleep

Spec == Init /\ [][Next]_vars

-----------------------------------------------------------------------------
(* Properties *)

\* What a session may have read and decided: a later generation, or the row's.
Entry(entry) ==
  \/ entry = NotFound
  \/ /\ {entry.first, entry.last} \subseteq Peer \union {None} /\ entry.new \in Peer
     /\ entry.last # None => entry.new.generation >= entry.last.generation

Plan(plan) == DOMAIN plan \subseteq Id /\ \A id \in DOMAIN plan : Entry(plan[id])

\* Every variable has its type; a round's target has a row, and at most one
\* POST of a node, that of its round, is waited for.
TypeOK ==
  /\ generation \in [Node -> Nat] /\ issued \in [Node -> Nat] /\ starts \in [Node -> Nat]
  /\ \A n \in Node :
       /\ generation[n] <= issued[n]
       /\ Rows(table[n])
       /\ pending[n] \subseteq Seeds[n]
       /\ Plan(boot[n])
       /\ round[n].pc \in {"asleep", "begun", "chosen", "waiting", "merging", "failing", "ageing", "aged"}
       /\ round[n].pc \in {"chosen", "waiting", "merging"} => round[n].to \in DOMAIN table[n]
       /\ round[n].pc = "merging" => Rows(round[n].reply)
       /\ Plan(round[n].plan)
  /\ \A msg \in inbox :
       /\ {msg.from, msg.to} \subseteq Node
       /\ msg.pc \in {"sent", "contact", "merging", "merged"}
       /\ Rows(msg.digest) /\ msg.pc = "sent" => Host(msg.from) \in DOMAIN msg.digest
       /\ Plan(msg.plan)
       /\ msg.waited => round[msg.from].pc = "waiting"
  /\ \A m1, m2 \in inbox : m1.waited /\ m2.waited /\ m1.from = m2.from => m1 = m2

\* What a node can truthfully be said to have reached: rows of seeds are
\* never given a generation.
Reached(id) == IF id = Host(NodeOf(id)) THEN issued[NodeOf(id)] ELSE 0

Truthful(rows) == \A id \in DOMAIN rows : rows[id].generation <= Reached(id)

\* No table and no message names a generation its node never had, however
\* rows were merged, repeated, overwritten and kept over restarts: else news
\* of the node would be taken for old.
NoForgedGeneration ==
  /\ \A n \in Node :
       /\ Truthful(table[n])
       /\ round[n].pc = "merging" => Truthful(round[n].reply)
  /\ \A msg \in inbox : Truthful(msg.digest)

\* The sessions open on node n, by their plans.
Open(n) ==
  {boot[n], round[n].plan} \union {msg.plan : msg \in {m \in inbox : m.to = n}}

\* The step is the commit of a session that writes row id.
Writes(n, id, plan) ==
  /\ plan \in Open(n) /\ id \in DOMAIN plan
  /\ \A i \in DOMAIN plan : plan[i] # NotFound
  /\ table'[n] = Committed(table[n], plan)

\* No row is deleted.  One goes back to an earlier generation, also when its
\* node restarts from generation 0 or is bootstrapped anew, only if another
\* session commits between a session's SELECT and its commit; and then not
\* behind what that session had read.
RowsGoBackByLostUpdate ==
  [][\A n \in Node : \A id \in DOMAIN table[n] :
       /\ id \in DOMAIN table'[n]
       /\ table'[n][id].generation < table[n][id].generation =>
            \E plan \in Open(n) :
              /\ Writes(n, id, plan)
              /\ plan[id].last # table[n][id]
              /\ table'[n][id].generation >= plan[id].last.generation]_vars

\* Node n hears from the node of row id itself, or has fetched the seed's
\* descriptor: the commit of that session.
Contacted(n, id) ==
  \/ \E msg \in inbox : msg.to = n /\ Host(msg.from) = id /\ CommitContact(msg)
  \/ CommitSeeds(n) /\ id \in DOMAIN boot[n]

\* Death ends by a direct contact, by news of a later generation that suspect
\* the peer, or by a session that saw an earlier row.  Hearsay alone cannot
\* turn a dead row alive in one step; it can in two, by way of a suspicion.
DeathEnds ==
  [][\A n \in Node : \A id \in DOMAIN table[n] :
       table[n][id].status = "dead" /\ table'[n][id].status # "dead" =>
         \/ Contacted(n, id)
         \/ /\ table'[n][id].status = "suspect"
            /\ table'[n][id].generation > table[n][id].generation
         \/ \E plan \in Open(n) : Writes(n, id, plan) /\ plan[id].first # table[n][id]]_vars

\* A node can become its own peer, contact itself and take its own news for
\* another's, but only if another node has it as a seed and it has learnt the
\* row with its own fingerprint: merge_digest, which skips the node's domain,
\* never takes the row under that domain from another node's table.
SelfOnlyByFingerprint ==
  \A n \in Node :
    /\ Host(n) \in DOMAIN table[n] => Key(n) \in DOMAIN table[n]
    /\ Key(n) \in DOMAIN table[n] => \E m \in Node : n \in Seeds[m]

=============================================================================
