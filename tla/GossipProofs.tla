---------------------------- MODULE GossipProofs ----------------------------
(***************************************************************************)
(* Proofs about Gossip, for every set of nodes, seeds, stored tables and   *)
(* bounds.                                                                 *)
(***************************************************************************)
EXTENDS Gossip, TLAPS

(* What rows, plans, rounds and messages have to be, with the table tab of *)
(* node n and the generations is issued so far.                            *)

Seed(n) == \E m \in Node : n \in Seeds[m]

Cap(is, id) == IF id = Host(NodeOf(id)) THEN is[NodeOf(id)] ELSE 0

\* A row that may be anywhere: its generation is true, and a node is named by
\* its key only if it is a seed.
May(is, id, row) ==
  /\ row.generation <= Cap(is, id)
  /\ \A m \in Node : id = Key(m) => Seed(m)

Good(is, rows) == Rows(rows) /\ \A id \in DOMAIN rows : May(is, id, rows[id])

TabOK(n, is, tab) ==
  /\ Good(is, tab)
  /\ Host(n) \in DOMAIN tab => Key(n) \in DOMAIN tab

EntryOK(n, is, tab, id, e) ==
  /\ e.first \in Peer \union {None} /\ e.last \in Peer \union {None} /\ e.new \in Peer
  /\ May(is, id, e.new)
  /\ e.last # None => id \in DOMAIN tab /\ e.new.generation >= e.last.generation
  /\ id = Host(n) => Key(n) \in DOMAIN tab

\* An entry without a decision is of a row that is still to be read.
PlanOK(n, is, tab, plan, unread) ==
  /\ DOMAIN plan \subseteq Id
  /\ \A id \in DOMAIN plan :
       \/ plan[id] = NotFound /\ id \in unread
       \/ EntryOK(n, is, tab, id, plan[id])

\* The session does not revive a row that it read as dead, but may suspect it.
SoberEntry(e) ==
  e.first # None /\ e.first.status = "dead" =>
    \/ e.new.status = "dead"
    \/ e.new.status = "suspect" /\ e.last = e.first /\ e.new.generation > e.first.generation

Sober(plan) == \A id \in DOMAIN plan : SoberEntry(plan[id])

Pcs == {"asleep", "begun", "chosen", "waiting", "merging", "failing", "ageing", "aged"}

Unread(pc, rows) == IF pc = "merging" THEN DOMAIN rows ELSE {}

RoundOK(n, is, tab, r) ==
  /\ DOMAIN r = {"pc", "to", "reply", "plan"}
  /\ r.pc \in Pcs
  /\ r.pc \in {"chosen", "waiting", "merging"} => r.to \in DOMAIN tab
  /\ r.pc = "merging" => Good(is, r.reply) /\ Host(n) \notin DOMAIN r.reply
  /\ PlanOK(n, is, tab, r.plan, Unread(r.pc, r.reply))
  /\ Sober(r.plan)

Fields == {"from", "to", "digest", "pc", "waited", "plan"}

\* A node that POSTs to itself has found itself under its key.
MsgOK(is, tab, m) ==
  /\ DOMAIN m = Fields
  /\ m.from \in Node /\ m.to \in Node /\ m.pc \in {"sent", "contact", "merging", "merged"}
  /\ Good(is, m.digest)
  /\ m.pc = "sent" => Host(m.from) \in DOMAIN m.digest
  /\ m.pc = "contact" => DOMAIN m.plan = {Host(m.from)}
  /\ m.pc \in {"merging", "merged"} => Host(m.to) \notin DOMAIN m.digest /\ Sober(m.plan)
  /\ m.from = m.to => Key(m.to) \in DOMAIN tab
  /\ PlanOK(m.to, is, tab, m.plan, Unread(m.pc, m.digest))

Types ==
  /\ generation \in [Node -> Nat] /\ issued \in [Node -> Nat] /\ starts \in [Node -> Nat]
  /\ DOMAIN table = Node /\ DOMAIN round = Node /\ DOMAIN pending = Node /\ DOMAIN boot = Node
  /\ \A n \in Node : generation[n] <= issued[n] /\ pending[n] \subseteq Seeds[n]

\* At most one POST of a node is waited for, while its round waits.
Waits ==
  /\ \A m \in inbox : m.waited => round[m.from].pc = "waiting"
  /\ \A m1, m2 \in inbox : m1.waited /\ m2.waited /\ m1.from = m2.from => m1 = m2

Inv ==
  /\ Types
  /\ \A n \in Node : TabOK(n, issued, table[n])
  /\ \A n \in Node : PlanOK(n, issued, table[n], boot[n], {})
  /\ \A n \in Node : RoundOK(n, issued, table[n], round[n])
  /\ \A m \in inbox : MsgOK(issued, table[m.to], m)
  /\ Waits

-----------------------------------------------------------------------------
(* Names and rows. *)

\* Every node has two names, which tell it and each other apart.
LEMMA Names ==
  ASSUME NEW n \in Node
  PROVE  /\ Host(n) \in Id /\ Key(n) \in Id
         /\ NodeOf(Host(n)) = n /\ NodeOf(Key(n)) = n
         /\ Host(n) # Key(n)
         /\ \A m \in Node : /\ Host(m) = Host(n) => m = n
                            /\ Key(m) = Key(n) => m = n
                            /\ Host(m) # Key(n)
BY DEF Host, Key, Id, NodeOf

\* Every name is a host or a key of its node.
LEMMA IdCases ==
  ASSUME NEW id \in Id
  PROVE  NodeOf(id) \in Node /\ (id = Host(NodeOf(id)) \/ id = Key(NodeOf(id)))
BY DEF Id, NodeOf, Host, Key

\* What a node can be said to have reached.
LEMMA CapIs ==
  ASSUME NEW is \in [Node -> Nat]
  PROVE  /\ \A n \in Node : Cap(is, Host(n)) = is[n] /\ Cap(is, Key(n)) = 0
         /\ \A id \in Id : Cap(is, id) \in Nat
<1>1. \A n \in Node : Cap(is, Host(n)) = is[n] /\ Cap(is, Key(n)) = 0
  BY Names DEF Cap
<1>2. \A id \in Id : Cap(is, id) \in Nat
  BY IdCases DEF Cap
<1> QED BY <1>1, <1>2

\* A row of a peer.
LEMMA PeerIs ==
  ASSUME NEW row \in Peer
  PROVE  /\ row.status \in Status /\ row.generation \in Nat /\ row # None
         /\ row = [status |-> row.status, generation |-> row.generation]
BY AbsenceAssumption DEF Peer

\* A status and a generation are a row.
LEMMA PeerIf ==
  ASSUME NEW s \in Status, NEW g \in Nat
  PROVE  [status |-> s, generation |-> g] \in Peer
BY DEF Peer

\* The row of a node that was heard of.
LEMMA AliveIs ==
  ASSUME NEW g \in Nat
  PROVE  Alive(g) \in Peer /\ Alive(g).generation = g /\ Alive(g).status = "alive"
BY DEF Alive, Peer, Status

\* Truthful rows stay so with another truthful one,
LEMMA WithRowGood ==
  ASSUME NEW is, NEW rows, Good(is, rows), NEW id \in Id, NEW row \in Peer, May(is, id, row)
  PROVE  Good(is, WithRow(rows, id, row))
<1> DEFINE new == WithRow(rows, id, row)
<1>1. DOMAIN new = DOMAIN rows \union {id} /\ new[id] = row
      /\ \A i \in DOMAIN rows : i # id => new[i] = rows[i]
  BY DEF WithRow
<1> HIDE DEF new
<1>2. Rows(new)
  BY <1>1 DEF Good, Rows
<1>3. ASSUME NEW i \in DOMAIN new PROVE May(is, i, new[i])
  <2>1. CASE i = id
    BY <2>1, <1>1
  <2>2. CASE i # id
    BY <2>2, <1>1 DEF Good
  <2> QED BY <2>1, <2>2
<1>4. Good(is, new)
  BY <1>2, <1>3 DEF Good
<1> QED BY <1>4 DEF new

\* and with one row less.
LEMMA WithoutGood ==
  ASSUME NEW is, NEW rows, Good(is, rows), NEW id
  PROVE  /\ Good(is, Without(rows, id)) /\ DOMAIN Without(rows, id) = DOMAIN rows \ {id}
         /\ \A i \in DOMAIN rows \ {id} : Without(rows, id)[i] = rows[i]
BY DEF Without, Good, Rows

\* build_digest: the node's own generation is one it has reached.
LEMMA DigestGood ==
  ASSUME NEW is \in [Node -> Nat], NEW rows, Good(is, rows), NEW n \in Node, NEW g \in Nat,
         g <= is[n]
  PROVE  Good(is, Digest(rows, n, g)) /\ Host(n) \in DOMAIN Digest(rows, n, g)
<1>1. May(is, Host(n), Alive(g))
  BY CapIs, AliveIs, Names DEF May
<1>2. Good(is, Digest(rows, n, g))
  BY <1>1, Names, AliveIs, WithRowGood DEF Digest
<1>3. DOMAIN Digest(rows, n, g) = DOMAIN rows \union {Host(n)}
  BY DEF Digest, WithRow
<1> QED BY <1>2, <1>3

-----------------------------------------------------------------------------
(* Growth: rows are not deleted, generations issued do not go back. *)

\* What holds of a row holds when generations have grown,
LEMMA MayGrows ==
  ASSUME NEW is \in [Node -> Nat], NEW js \in [Node -> Nat],
         \A m \in Node : is[m] <= js[m],
         NEW id \in Id, NEW row \in Peer, May(is, id, row)
  PROVE  May(js, id, row)
<1>1. Cap(is, id) <= Cap(js, id)
  BY IdCases DEF Cap
<1> QED BY <1>1, CapIs, PeerIs DEF May

\* so of tables and digests,
LEMMA GoodGrows ==
  ASSUME NEW is \in [Node -> Nat], NEW js \in [Node -> Nat],
         \A m \in Node : is[m] <= js[m],
         NEW rows, Good(is, rows)
  PROVE  Good(js, rows)
BY MayGrows DEF Good, Rows

\* of entries, also when the table has got more rows,
LEMMA EntryGrows ==
  ASSUME NEW is \in [Node -> Nat], NEW js \in [Node -> Nat],
         \A m \in Node : is[m] <= js[m],
         NEW tab, NEW new, DOMAIN tab \subseteq DOMAIN new,
         NEW n, NEW id \in Id, NEW e, EntryOK(n, is, tab, id, e)
  PROVE  EntryOK(n, js, new, id, e)
<1>1. May(js, id, e.new)
  BY MayGrows DEF EntryOK
<1> QED BY <1>1 DEF EntryOK

\* of plans,
LEMMA PlanGrows ==
  ASSUME NEW is \in [Node -> Nat], NEW js \in [Node -> Nat],
         \A m \in Node : is[m] <= js[m],
         NEW tab, NEW new, DOMAIN tab \subseteq DOMAIN new,
         NEW n, NEW plan, NEW unread, PlanOK(n, is, tab, plan, unread)
  PROVE  PlanOK(n, js, new, plan, unread)
BY EntryGrows DEF PlanOK

\* of rounds,
LEMMA RoundGrows ==
  ASSUME NEW is \in [Node -> Nat], NEW js \in [Node -> Nat],
         \A m \in Node : is[m] <= js[m],
         NEW tab, NEW new, DOMAIN tab \subseteq DOMAIN new,
         NEW n, NEW r, RoundOK(n, is, tab, r)
  PROVE  RoundOK(n, js, new, r)
<1>1. PlanOK(n, js, new, r.plan, Unread(r.pc, r.reply))
  BY PlanGrows DEF RoundOK
<1>2. r.pc = "merging" => Good(js, r.reply)
  BY GoodGrows DEF RoundOK
<1> QED BY <1>1, <1>2 DEF RoundOK

\* and of POSTs.
LEMMA MsgGrows ==
  ASSUME NEW is \in [Node -> Nat], NEW js \in [Node -> Nat],
         \A m \in Node : is[m] <= js[m],
         NEW tab, NEW new, DOMAIN tab \subseteq DOMAIN new,
         NEW m, MsgOK(is, tab, m)
  PROVE  MsgOK(js, new, m)
<1>1. PlanOK(m.to, js, new, m.plan, Unread(m.pc, m.digest))
  BY PlanGrows DEF MsgOK
<1>2. Good(js, m.digest)
  BY GoodGrows DEF MsgOK
<1> QED BY <1>1, <1>2 DEF MsgOK

\* Whether a POST is still waited for does not matter to it.
Unheard(m) == [m EXCEPT !.waited = FALSE]

\* A POST that is no longer waited for.
LEMMA UnheardIs ==
  ASSUME NEW is, NEW tab, NEW m, MsgOK(is, tab, m)
  PROVE  /\ MsgOK(is, tab, Unheard(m)) /\ ~Unheard(m).waited
         /\ Unheard(m).to = m.to /\ Unheard(m).from = m.from
<1>1. /\ DOMAIN Unheard(m) = Fields /\ Unheard(m).waited = FALSE
      /\ Unheard(m).to = m.to /\ Unheard(m).from = m.from /\ Unheard(m).pc = m.pc
      /\ Unheard(m).digest = m.digest /\ Unheard(m).plan = m.plan
  BY DEF MsgOK, Fields, Unheard
<1> QED BY <1>1 DEF MsgOK

\* A session that has read nothing yet.
LEMMA NoPlanOK ==
  ASSUME NEW n, NEW is, NEW tab, NEW unread
  PROVE  PlanOK(n, is, tab, NoPlan, unread) /\ Sober(NoPlan)
BY DEF PlanOK, NoPlan, Sober

\* What an action has to show: its new tables, plans, rounds and messages are
\* right; the others stay so.
LEMMA Frame ==
  ASSUME Inv, Types', Waits',
         \A n \in Node : issued[n] <= issued'[n] /\ DOMAIN table[n] \subseteq DOMAIN table'[n],
         \A n \in Node : table'[n] = table[n] \/ TabOK(n, issued', table'[n]),
         \A n \in Node : boot'[n] = boot[n] \/ PlanOK(n, issued', table'[n], boot'[n], {}),
         \A n \in Node : round'[n] = round[n] \/ RoundOK(n, issued', table'[n], round'[n]),
         \A m \in inbox' : \/ m \in inbox
                           \/ \E o \in inbox : m = Unheard(o)
                           \/ MsgOK(issued', table'[m.to], m)
  PROVE  Inv'
<1>1. issued \in [Node -> Nat] /\ issued' \in [Node -> Nat]
  BY DEF Inv, Types
<1>2. ASSUME NEW n \in Node PROVE TabOK(n, issued', table'[n])
  <2>1. TabOK(n, issued, table[n])
    BY DEF Inv
  <2>2. Good(issued', table[n])
    BY <2>1, <1>1, GoodGrows DEF TabOK
  <2> QED BY <2>1, <2>2 DEF TabOK
<1>3. ASSUME NEW n \in Node PROVE PlanOK(n, issued', table'[n], boot'[n], {})
  <2>1. PlanOK(n, issued, table[n], boot[n], {})
    BY DEF Inv
  <2>2. PlanOK(n, issued', table'[n], boot[n], {})
    BY <2>1, <1>1, PlanGrows
  <2> QED BY <2>2
<1>4. ASSUME NEW n \in Node PROVE RoundOK(n, issued', table'[n], round'[n])
  <2>1. CASE round'[n] = round[n]
    <3>1. RoundOK(n, issued, table[n], round[n])
      BY DEF Inv
    <3>2. RoundOK(n, issued', table'[n], round[n])
      BY <3>1, <1>1, RoundGrows
    <3> QED BY <3>2, <2>1
  <2> QED BY <2>1
<1>5. ASSUME NEW m \in inbox PROVE MsgOK(issued', table'[m.to], m)
  <2>1. MsgOK(issued, table[m.to], m) /\ m.to \in Node
    BY DEF Inv, MsgOK
  <2> QED BY <2>1, <1>1, MsgGrows
<1>6. ASSUME NEW m \in inbox' PROVE MsgOK(issued', table'[m.to], m)
  <2>1. ASSUME NEW o \in inbox, m = Unheard(o) PROVE MsgOK(issued', table'[m.to], m)
    <3>1. MsgOK(issued', table'[o.to], o)
      BY <1>5
    <3>2. MsgOK(issued', table'[o.to], m) /\ m.to = o.to
      BY <3>1, <2>1, UnheardIs
    <3> QED BY <3>2
  <2> QED BY <2>1, <1>5
<1> QED BY <1>2, <1>3, <1>4, <1>6 DEF Inv

-----------------------------------------------------------------------------
(* Sessions: what is read and decided, and what a commit makes of it. *)

\* The entry between two SELECTs.
LEMMA NotFoundIs == NotFound.first = None /\ NotFound.last = None /\ NotFound.new = None
BY DEF NotFound, Changed

\* An entry with a decision is not NotFound.
LEMMA EntryIs ==
  ASSUME NEW n, NEW is, NEW tab, NEW id, NEW e, EntryOK(n, is, tab, id, e)
  PROVE  e # NotFound
BY NotFoundIs, AbsenceAssumption DEF EntryOK

\* One of two statuses and one of two generations make a row.
LEMMA HeardIs ==
  ASSUME NEW known \in Peer, NEW news \in Peer
  PROVE  /\ Heard(known, news) \in Peer
         /\ Heard(known, news).generation >= known.generation
         /\ Heard(known, news).generation \in {known.generation, news.generation}
         /\ known.status = "dead" =>
              \/ Heard(known, news).status = "dead"
              \/ /\ Heard(known, news).status = "suspect"
                 /\ Heard(known, news).generation > known.generation
<1> DEFINE s == IF known.status = "dead" /\ news.status = "alive" THEN "dead" ELSE news.status
<1>1. known.status \in Status /\ known.generation \in Nat
      /\ news.status \in Status /\ news.generation \in Nat
  BY PeerIs
<1>2. CASE news.generation > known.generation
  <2>1. Heard(known, news) = [status |-> s, generation |-> news.generation]
    BY <1>2, PeerIs DEF Heard
  <2>2. s \in Status
    BY <1>1 DEF Status
  <2>3. Heard(known, news) \in Peer
    BY <2>1, <2>2, <1>1, PeerIf
  <2>4. Heard(known, news).status = s /\ Heard(known, news).generation = news.generation
    BY <2>1
  <2>5. known.status = "dead" => s \in {"dead", "suspect"}
    BY <1>1 DEF Status
  <2> QED BY <2>3, <2>4, <2>5, <1>1, <1>2
<1>3. CASE ~(news.generation > known.generation)
  BY <1>3, <1>1 DEF Heard
<1> QED BY <1>2, <1>3

\* _upsert_peer: the news' generation or the row's, never an earlier one.
LEMMA UpsertedIs ==
  ASSUME NEW row \in Peer \union {None}, NEW news \in Peer
  PROVE  /\ Upserted(row, news) \in Peer
         /\ row # None => Upserted(row, news).generation >= row.generation
         /\ \/ Upserted(row, news).generation = news.generation
            \/ row # None /\ Upserted(row, news).generation = row.generation
<1>1. CASE row = None
  BY <1>1 DEF Upserted
<1>2. CASE row # None
  <2> DEFINE g == Larger(row.generation, news.generation)
  <2>1. row \in Peer /\ row.generation \in Nat /\ news.generation \in Nat /\ news.status \in Status
    BY <1>2, PeerIs
  <2>2. Upserted(row, news) = [status |-> news.status, generation |-> g]
    BY <1>2, PeerIs DEF Upserted
  <2>3. g \in Nat /\ g >= row.generation /\ g \in {row.generation, news.generation}
    BY <2>1 DEF Larger
  <2> HIDE DEF g
  <2>4. Upserted(row, news) \in Peer /\ Upserted(row, news).generation = g
    BY <2>1, <2>2, <2>3, PeerIf
  <2> QED BY <2>3, <2>4, <1>2
<1> QED BY <1>1, <1>2

\* What a SELECT returns.
LEMMA RowIs ==
  ASSUME NEW is, NEW tab, Good(is, tab), NEW id
  PROVE  /\ Row(tab, id) \in Peer \union {None}
         /\ Row(tab, id) # None => id \in DOMAIN tab /\ Row(tab, id) = tab[id]
                                   /\ May(is, id, Row(tab, id))
BY DEF Row, Good, Rows

\* A row that may be there and news that may be there make one that may.
LEMMA MayEither ==
  ASSUME NEW is, NEW id, NEW new, NEW news, May(is, id, news),
         \/ new.generation = news.generation
         \/ \E row : May(is, id, row) /\ new.generation = row.generation
  PROVE  May(is, id, new)
BY DEF May

\* An entry that says how a row becomes new.
LEMMA DecidedOK ==
  ASSUME NEW is, NEW tab, NEW n, NEW id,
         NEW first \in Peer \union {None}, NEW last \in Peer \union {None}, NEW new \in Peer,
         May(is, id, new),
         last # None => id \in DOMAIN tab /\ new.generation >= last.generation,
         id = Host(n) => Key(n) \in DOMAIN tab
  PROVE  EntryOK(n, is, tab, id, [first |-> first, last |-> last, new |-> new])
BY DEF EntryOK

\* A session of _upsert_peer, for a row in which nobody is named wrongly.
LEMMA UpsertOK ==
  ASSUME NEW is, NEW tab, Good(is, tab), NEW n, NEW id, NEW news \in Peer, May(is, id, news),
         id = Host(n) => Key(n) \in DOMAIN tab, NEW first \in Peer \union {None}
  PROVE  LET row == Row(tab, id)
         IN  EntryOK(n, is, tab, id, [first |-> first, last |-> row, new |-> Upserted(row, news)])
<1> DEFINE row == Row(tab, id)
           new == Upserted(row, news)
<1>1. /\ row \in Peer \union {None}
      /\ row # None => id \in DOMAIN tab /\ May(is, id, row)
  BY RowIs
<1> HIDE DEF row
<1>2. /\ new \in Peer /\ (row # None => new.generation >= row.generation)
      /\ \/ new.generation = news.generation
         \/ row # None /\ new.generation = row.generation
  BY <1>1, UpsertedIs
<1> HIDE DEF new
<1>3. May(is, id, new)
  BY <1>1, <1>2, MayEither
<1>4. EntryOK(n, is, tab, id, [first |-> first, last |-> row, new |-> new])
  BY <1>1, <1>2, <1>3, DecidedOK
<1> QED BY <1>4 DEF row, new

\* A plan with one more entry, or another one.
LEMMA PlanWith ==
  ASSUME NEW n, NEW is, NEW tab, NEW plan, NEW unread, PlanOK(n, is, tab, plan, unread),
         NEW id \in Id, NEW e, NEW still, unread \ {id} \subseteq still,
         (e = NotFound /\ id \in still) \/ EntryOK(n, is, tab, id, e)
  PROVE  PlanOK(n, is, tab, WithRow(plan, id, e), still)
<1> DEFINE new == WithRow(plan, id, e)
<1>1. DOMAIN new = DOMAIN plan \union {id} /\ new[id] = e
      /\ \A i \in DOMAIN plan : i # id => new[i] = plan[i]
  BY DEF WithRow
<1> HIDE DEF new
<1>2. ASSUME NEW i \in DOMAIN new
      PROVE  (new[i] = NotFound /\ i \in still) \/ EntryOK(n, is, tab, i, new[i])
  <2>1. CASE i = id
    BY <2>1, <1>1
  <2>2. CASE i # id
    BY <2>2, <1>1 DEF PlanOK
  <2> QED BY <2>1, <2>2
<1>3. PlanOK(n, is, tab, new, still)
  BY <1>1, <1>2 DEF PlanOK
<1> QED BY <1>3 DEF new

\* A plan stays sober with another sober entry.
LEMMA SoberWith ==
  ASSUME NEW plan, Sober(plan), NEW id, NEW e, SoberEntry(e)
  PROVE  Sober(WithRow(plan, id, e))
<1> DEFINE new == WithRow(plan, id, e)
<1>1. DOMAIN new = DOMAIN plan \union {id} /\ new[id] = e
      /\ \A i \in DOMAIN plan : i # id => new[i] = plan[i]
  BY DEF WithRow
<1> HIDE DEF new
<1>2. Sober(new)
  BY <1>1 DEF Sober
<1> QED BY <1>2 DEF new


\* A plan that needs no reading of a row that it does not have.
LEMMA PlanLess ==
  ASSUME NEW n, NEW is, NEW tab, NEW plan, NEW unread, PlanOK(n, is, tab, plan, unread),
         NEW id, id \notin DOMAIN plan, NEW still, unread \ {id} \subseteq still
  PROVE  PlanOK(n, is, tab, plan, still)
BY DEF PlanOK

\* A merge that reads one more row.
LEMMA LookOK ==
  ASSUME NEW n, NEW is, NEW tab, TabOK(n, is, tab), NEW plan, NEW digest, Good(is, digest),
         PlanOK(n, is, tab, plan, DOMAIN digest), Sober(plan),
         NEW id \in DOMAIN digest, id # Host(n)
  PROVE  LET row == Row(tab, id)
             rest == Left(digest, plan, id, row)
             next == Look(plan, id, row, digest[id])
         IN  /\ Good(is, rest) /\ DOMAIN rest \subseteq DOMAIN digest
             /\ PlanOK(n, is, tab, next, DOMAIN rest) /\ Sober(next)
<1> DEFINE row == Row(tab, id)
           news == digest[id]
           rest == Left(digest, plan, id, row)
           next == Look(plan, id, row, news)
<1>1. Good(is, tab) /\ id \in Id /\ news \in Peer /\ May(is, id, news)
  BY DEF TabOK, Good, Rows
<1>2. /\ row \in Peer \union {None}
      /\ row # None => id \in DOMAIN tab /\ May(is, id, row)
  BY <1>1, RowIs
<1>3. CASE id \in DOMAIN plan
  <2> DEFINE e == [first |-> None, last |-> row, new |-> Upserted(row, news)]
  <2>1. rest = Without(digest, id)
    BY <1>3 DEF Left
  <2>2. Good(is, rest) /\ DOMAIN rest = DOMAIN digest \ {id}
    <3>1. Good(is, Without(digest, id)) /\ DOMAIN Without(digest, id) = DOMAIN digest \ {id}
      BY WithoutGood
    <3> QED BY <2>1, <3>1
  <2>3. EntryOK(n, is, tab, id, e)
    BY <1>1, UpsertOK
  <2>4. SoberEntry(e)
    BY DEF SoberEntry
  <2>5. next = WithRow(plan, id, e)
    BY <1>3 DEF Look
  <2> HIDE DEF e, rest, row, news, next
  <2>6. PlanOK(n, is, tab, next, DOMAIN rest)
    BY <2>2, <2>3, <2>5, <1>1, PlanWith
  <2>7. Sober(next)
    BY <2>4, <2>5, SoberWith
  <2> QED BY <2>2, <2>6, <2>7 DEF rest, row, news, next
<1>4. CASE id \notin DOMAIN plan /\ row = None
  <2>1. rest = digest
    BY <1>4 DEF Left
  <2>2. next = WithRow(plan, id, NotFound)
    BY <1>4 DEF Look
  <2>3. SoberEntry(NotFound)
    BY NotFoundIs DEF SoberEntry
  <2> HIDE DEF rest, row, news, next
  <2>4. PlanOK(n, is, tab, next, DOMAIN rest)
    BY <2>1, <2>2, <1>1, PlanWith
  <2>5. Sober(next)
    BY <2>2, <2>3, SoberWith
  <2> QED BY <2>1, <2>4, <2>5 DEF rest, row, news, next
<1>5. CASE id \notin DOMAIN plan /\ row # None
  <2> DEFINE new == Heard(row, news)
             e == Changed(row, new)
  <2>1. rest = Without(digest, id)
    BY <1>5 DEF Left
  <2>2. Good(is, rest) /\ DOMAIN rest = DOMAIN digest \ {id}
    <3>1. Good(is, Without(digest, id)) /\ DOMAIN Without(digest, id) = DOMAIN digest \ {id}
      BY WithoutGood
    <3> QED BY <2>1, <3>1
  <2>3. next = IF new = row THEN plan ELSE WithRow(plan, id, e)
    BY <1>5 DEF Look
  <2>4. row \in Peer /\ id \in DOMAIN tab /\ May(is, id, row)
    BY <1>2, <1>5
  <2> HIDE DEF rest, row, news, next
  <2>5. /\ new \in Peer /\ new.generation >= row.generation
        /\ new.generation = row.generation \/ new.generation = news.generation
        /\ row.status = "dead" => \/ new.status = "dead"
                                  \/ new.status = "suspect" /\ new.generation > row.generation
    BY <2>4, <1>1, HeardIs
  <2> HIDE DEF new
  <2>6. May(is, id, new)
    BY <2>4, <2>5, <1>1 DEF May
  <2>7. EntryOK(n, is, tab, id, e)
    BY <2>4, <2>5, <2>6, DecidedOK DEF Changed
  <2>8. SoberEntry(e)
    BY <2>5 DEF SoberEntry, Changed
  <2> HIDE DEF e
  <2>9. PlanOK(n, is, tab, next, DOMAIN rest)
    <3>1. CASE new = row
      BY <3>1, <2>2, <2>3, <1>5, PlanLess
    <3>2. CASE new # row
      BY <3>2, <2>2, <2>3, <2>7, <1>1, PlanWith
    <3> QED BY <3>1, <3>2
  <2>10. Sober(next)
    BY <2>3, <2>8, SoberWith
  <2> QED BY <2>2, <2>9, <2>10 DEF rest, row, news, next
<1> QED BY <1>3, <1>4, <1>5

\* What a commit writes: rows that may be, none of them less than was read.
LEMMA CommittedRows ==
  ASSUME NEW n, NEW is, NEW tab, TabOK(n, is, tab), NEW plan, PlanOK(n, is, tab, plan, {}),
         ~Clash(tab, plan), NEW new, new = Committed(tab, plan)
  PROVE  /\ DOMAIN new = DOMAIN tab \union DOMAIN plan
         /\ \A id \in DOMAIN tab : id \notin DOMAIN plan => new[id] = tab[id]
         /\ \A id \in DOMAIN plan : id \notin DOMAIN tab => new[id] = plan[id].new
         /\ \A id \in DOMAIN tab \cap DOMAIN plan :
              /\ plan[id].last \in Peer /\ plan[id].new \in Peer
              /\ plan[id].new.generation >= plan[id].last.generation
              /\ new[id].status = Column(tab[id].status, plan[id].last.status,
                                         plan[id].new.status)
              /\ new[id].generation = Column(tab[id].generation, plan[id].last.generation,
                                             plan[id].new.generation)
              /\ new[id] \in Peer /\ May(is, id, new[id])
<1>1. DOMAIN new = DOMAIN tab \union DOMAIN plan /\ DOMAIN new \subseteq Id
  BY DEF Committed, TabOK, Good, Rows, PlanOK
<1>2. \A id \in DOMAIN tab : tab[id] \in Peer /\ May(is, id, tab[id])
  BY DEF TabOK, Good, Rows
<1>3. \A id \in DOMAIN plan : EntryOK(n, is, tab, id, plan[id])
  BY DEF PlanOK
<1>4. ASSUME NEW id \in DOMAIN tab, id \notin DOMAIN plan PROVE new[id] = tab[id]
  BY <1>4 DEF Committed
<1>5. ASSUME NEW id \in DOMAIN plan, id \notin DOMAIN tab PROVE new[id] = plan[id].new
  BY <1>5 DEF Committed
<1>6. ASSUME NEW id \in DOMAIN tab, id \in DOMAIN plan
      PROVE  /\ plan[id].last \in Peer /\ plan[id].new \in Peer
             /\ plan[id].new.generation >= plan[id].last.generation
             /\ new[id].status = Column(tab[id].status, plan[id].last.status,
                                        plan[id].new.status)
             /\ new[id].generation = Column(tab[id].generation, plan[id].last.generation,
                                            plan[id].new.generation)
             /\ new[id] \in Peer /\ May(is, id, new[id])
  <2> DEFINE was == plan[id].last
             to == plan[id].new
             s == Column(tab[id].status, was.status, to.status)
             g == Column(tab[id].generation, was.generation, to.generation)
  <2>1. was # None
    BY <1>6 DEF Clash
  <2>2. was \in Peer /\ to \in Peer /\ to.generation >= was.generation /\ May(is, id, to)
    BY <1>3, <1>6, <2>1 DEF EntryOK
  <2>3. new[id] = [status |-> s, generation |-> g]
    BY <1>6 DEF Committed
  <2>4. s \in Status /\ g \in Nat /\ g \in {tab[id].generation, to.generation}
    BY <1>2, <1>6, <2>2, PeerIs DEF Column
  <2> HIDE DEF s, g
  <2>5. new[id].status = s /\ new[id].generation = g /\ new[id] \in Peer
    BY <2>3, <2>4, PeerIf
  <2>6. May(is, id, new[id])
    BY <2>4, <2>5, <2>2, <1>2, <1>6 DEF May
  <2> QED BY <2>2, <2>5, <2>6 DEF s, g
<1> QED BY <1>1, <1>4, <1>5, <1>6

\* The table after it is right.
LEMMA CommittedTab ==
  ASSUME NEW n, NEW is, NEW tab, TabOK(n, is, tab), NEW plan, PlanOK(n, is, tab, plan, {}),
         ~Clash(tab, plan), NEW new, new = Committed(tab, plan)
  PROVE  TabOK(n, is, new)
<1>1. /\ DOMAIN new = DOMAIN tab \union DOMAIN plan /\ DOMAIN new \subseteq Id
      /\ \A id \in DOMAIN tab : id \notin DOMAIN plan => new[id] = tab[id]
      /\ \A id \in DOMAIN plan : id \notin DOMAIN tab => new[id] = plan[id].new
  BY DEF Committed, TabOK, Good, Rows, PlanOK
<1>2. ASSUME NEW id \in DOMAIN tab \cap DOMAIN plan
      PROVE  new[id] \in Peer /\ May(is, id, new[id])
  BY CommittedRows, ZenonT(30)
<1>3. \A id \in DOMAIN tab : tab[id] \in Peer /\ May(is, id, tab[id])
  BY DEF TabOK, Good, Rows
<1>4. \A id \in DOMAIN plan : EntryOK(n, is, tab, id, plan[id])
  BY DEF PlanOK
<1>5. ASSUME NEW id \in DOMAIN new PROVE new[id] \in Peer /\ May(is, id, new[id])
  <2>1. CASE id \notin DOMAIN plan
    BY <2>1, <1>1, <1>3
  <2>2. CASE id \notin DOMAIN tab
    BY <2>2, <1>1, <1>4 DEF EntryOK
  <2>3. CASE id \in DOMAIN tab /\ id \in DOMAIN plan
    BY <2>3, <1>2
  <2> QED BY <2>1, <2>2, <2>3
<1>6. Good(is, new)
  BY <1>1, <1>5 DEF Good, Rows
<1>7. Host(n) \in DOMAIN new => Key(n) \in DOMAIN new
  BY <1>1, <1>4 DEF EntryOK, TabOK
<1> QED BY <1>6, <1>7 DEF TabOK


-----------------------------------------------------------------------------
(* Every step keeps the invariant. *)

\* The parts of it that an action starts from.
LEMMA Parts ==
  ASSUME Inv, NEW n \in Node
  PROVE  /\ issued \in [Node -> Nat] /\ generation[n] \in Nat /\ generation[n] <= issued[n]
         /\ TabOK(n, issued, table[n]) /\ Good(issued, table[n])
         /\ PlanOK(n, issued, table[n], boot[n], {})
         /\ RoundOK(n, issued, table[n], round[n])
BY DEF Inv, Types, TabOK

\* What the invariant says of one POST.
LEMMA Letters ==
  ASSUME Inv, NEW m \in inbox
  PROVE  /\ MsgOK(issued, table[m.to], m)
         /\ m.from \in Node /\ m.to \in Node
BY DEF Inv, MsgOK

\* A commit, of a plan in which all is decided.
LEMMA CommitTables ==
  ASSUME Inv, NEW n \in Node, NEW plan, PlanOK(n, issued, table[n], plan, {}),
         Commit(n, plan), issued' = issued
  PROVE  /\ DOMAIN table' = Node
         /\ \A m \in Node : DOMAIN table[m] \subseteq DOMAIN table'[m]
         /\ \A m \in Node : table'[m] = table[m] \/ TabOK(m, issued', table'[m])
         /\ \A m \in Node : m # n => table'[m] = table[m]
         /\ table'[n] = Committed(table[n], plan)
         /\ DOMAIN table'[n] = DOMAIN table[n] \union DOMAIN plan
<1>1. DOMAIN table = Node
  BY DEF Inv, Types
<1>2. /\ DOMAIN table' = Node /\ table'[n] = Committed(table[n], plan)
      /\ \A m \in Node : m # n => table'[m] = table[m]
  BY <1>1 DEF Commit
<1>3. ~Clash(table[n], plan)
  BY DEF Commit
<1>4. TabOK(n, issued, table[n])
  BY DEF Inv
<1>5. PICK tab : tab = table[n]
  OBVIOUS
<1>6. PICK new : new = Committed(tab, plan)
  OBVIOUS
<1>7. TabOK(n, issued, tab) /\ PlanOK(n, issued, tab, plan, {}) /\ ~Clash(tab, plan)
  BY <1>3, <1>4, <1>5
<1>8. DOMAIN new = DOMAIN tab \union DOMAIN plan /\ TabOK(n, issued, new)
  <2>1. TabOK(n, issued, new)
    BY <1>6, <1>7, CommittedTab
  <2>2. DOMAIN new = DOMAIN tab \union DOMAIN plan
    BY <1>6 DEF Committed
  <2> QED BY <2>1, <2>2
<1> QED BY <1>2, <1>5, <1>6, <1>8

\* Steps of a handler: the POST changes, but not who sent it and who waits.
LEMMA WaitsBecomes ==
  ASSUME Waits, NEW msg \in inbox, NEW new, Becomes(msg, new), round' = round,
         new.from = msg.from, new.waited = msg.waited
  PROVE  Waits'
<1>1. inbox' = (inbox \ {msg}) \union {new}
  BY DEF Becomes
<1> QED BY <1>1 DEF Waits

\* Steps of a round that is not waiting.
LEMMA WaitsRound ==
  ASSUME Waits, inbox' \subseteq inbox, \A m \in inbox : m.from \in Node,
         \A m \in Node : round'[m] = round[m] \/ round[m].pc # "waiting"
  PROVE  Waits'
BY DEF Waits

\* bootstrap_peers: a seed answers.
LEMMA ReachSeedKeeps ==
  ASSUME Inv, NEW n \in Node, NEW seed \in Seeds[n], ReachSeed(n, seed)
  PROVE  Inv'
<1> DEFINE row == Row(table[n], Key(seed))
           e == Changed(row, Upserted(row, Alive(0)))
           new == WithRow(boot[n], Key(seed), e)
<1>1. /\ DOMAIN boot = Node /\ DOMAIN pending = Node
      /\ Seeds[n] \subseteq Node
  BY GossipAssumption DEF Inv, Types
<1>2. /\ pending' = [pending EXCEPT ![n] = pending[n] \ {seed}]
      /\ boot' = [boot EXCEPT ![n] = new]
      /\ UNCHANGED <<generation, table, round, inbox, issued, starts>>
  BY DEF ReachSeed
<1>3. /\ Key(seed) \in Id /\ Key(seed) # Host(n)
      /\ Alive(0) \in Peer /\ May(issued, Key(seed), Alive(0))
  <2>1. seed \in Node
    BY <1>1
  <2>2. Cap(issued, Key(seed)) = 0
    BY <2>1, CapIs DEF Inv, Types
  <2>3. \A m \in Node : Key(seed) = Key(m) => Seed(m)
    BY <2>1, Names DEF Seed
  <2>4. Key(seed) \in Id /\ Key(seed) # Host(n)
    BY <2>1, Names
  <2>5. Alive(0) \in Peer /\ Alive(0).generation = 0
    BY AliveIs
  <2> QED BY <2>2, <2>3, <2>4, <2>5 DEF May
<1>4. EntryOK(n, issued, table[n], Key(seed), e)
  <2>1. Good(issued, table[n])
    BY Parts
  <2>2. row \in Peer \union {None}
    BY <2>1, RowIs
  <2> HIDE DEF row
  <2>3. EntryOK(n, issued, table[n], Key(seed),
                [first |-> row, last |-> row, new |-> Upserted(row, Alive(0))])
    BY <1>3, <2>1, <2>2, UpsertOK DEF row
  <2> QED BY <2>3 DEF Changed
<1> HIDE DEF e
<1>5. PlanOK(n, issued, table[n], new, {})
  BY <1>3, <1>4, Parts, PlanWith
<1> HIDE DEF new
<1>6. Types'
  BY <1>1, <1>2 DEF Inv, Types
<1>7. Waits'
  BY <1>2 DEF Inv, Waits
<1>8. \A m \in Node : boot'[m] = boot[m] \/ PlanOK(m, issued', table'[m], boot'[m], {})
  BY <1>1, <1>2, <1>5
<1> QED BY <1>2, <1>6, <1>7, <1>8, Frame DEF Inv, Types

\* bootstrap_peers: the seeds are committed.
LEMMA CommitSeedsKeeps ==
  ASSUME Inv, NEW n \in Node, CommitSeeds(n)
  PROVE  Inv'
<1>1. /\ Commit(n, boot[n]) /\ boot' = [boot EXCEPT ![n] = NoPlan]
      /\ UNCHANGED <<generation, round, inbox, pending, issued, starts>>
  BY DEF CommitSeeds
<1>2. PlanOK(n, issued, table[n], boot[n], {})
  BY Parts
<1>3. DOMAIN boot = Node
  BY DEF Inv, Types
<1>4. \A m \in Node : boot'[m] = boot[m] \/ PlanOK(m, issued', table'[m], boot'[m], {})
  BY <1>1, <1>3, NoPlanOK
<1>5. /\ DOMAIN table' = Node
      /\ \A m \in Node : DOMAIN table[m] \subseteq DOMAIN table'[m]
      /\ \A m \in Node : table'[m] = table[m] \/ TabOK(m, issued', table'[m])
  BY <1>1, <1>2, CommitTables
<1>6. Types'
  BY <1>1, <1>5 DEF Inv, Types
<1>7. Waits'
  BY <1>1 DEF Inv, Waits
<1> QED BY <1>1, <1>4, <1>5, <1>6, <1>7, Frame DEF Inv, Types

\* bootstrap_peers: the last retry has failed.
LEMMA GiveUpSeedsKeeps ==
  ASSUME Inv, NEW n \in Node, GiveUpSeeds(n)
  PROVE  Inv'
<1>1. /\ pending' = [pending EXCEPT ![n] = {}] /\ boot' = [boot EXCEPT ![n] = NoPlan]
      /\ UNCHANGED <<generation, table, round, inbox, issued, starts>>
  BY DEF GiveUpSeeds
<1>2. DOMAIN boot = Node /\ DOMAIN pending = Node
  BY DEF Inv, Types
<1>3. \A m \in Node : boot'[m] = boot[m] \/ PlanOK(m, issued', table'[m], boot'[m], {})
  BY <1>1, <1>2, NoPlanOK
<1>4. Types'
  BY <1>1, <1>2 DEF Inv, Types
<1>5. Waits'
  BY <1>1 DEF Inv, Waits
<1> QED BY <1>1, <1>3, <1>4, <1>5, Frame DEF Inv, Types


\* A handler's step that leaves everything else alone.
LEMMA HandlerKeeps ==
  ASSUME Inv, NEW msg \in inbox, NEW new, Becomes(msg, new),
         UNCHANGED <<generation, table, round, pending, boot, issued, starts>>,
         MsgOK(issued, table[new.to], new), new.from = msg.from, new.waited = msg.waited
  PROVE  Inv'
<1>1. Types'
  BY DEF Inv, Types
<1>2. Waits'
  BY WaitsBecomes DEF Inv
<1>3. \A m \in inbox' : m \in inbox \/ MsgOK(issued', table'[m.to], m)
  BY DEF Becomes
<1> QED BY <1>1, <1>2, <1>3, Frame DEF Inv, Types

\* A POST at a later point of its handling.
LEMMA AtIs ==
  ASSUME NEW m, DOMAIN m = Fields, NEW pc, NEW plan
  PROVE  /\ DOMAIN At(m, pc, plan) = Fields
         /\ At(m, pc, plan).pc = pc /\ At(m, pc, plan).plan = plan
         /\ At(m, pc, plan).from = m.from /\ At(m, pc, plan).to = m.to
         /\ At(m, pc, plan).digest = m.digest /\ At(m, pc, plan).waited = m.waited
BY DEF At, Fields

\* gossip_sync: the sender is looked up.
LEMMA ContactKeeps ==
  ASSUME Inv, NEW msg \in inbox, Contact(msg)
  PROVE  Inv'
<1> DEFINE id == Host(msg.from)
           tab == table[msg.to]
           row == Row(tab, id)
           news == Alive(msg.digest[id].generation)
           e == Changed(row, Upserted(row, news))
           plan == WithRow(NoPlan, id, e)
           new == At(msg, "contact", plan)
<1>1. /\ msg.pc = "sent" /\ Becomes(msg, new)
      /\ UNCHANGED <<generation, table, round, pending, boot, issued, starts>>
  BY DEF Contact
<1>2. MsgOK(issued, tab, msg) /\ msg.from \in Node /\ msg.to \in Node
  BY Letters
<1>3. Good(issued, tab)
  BY <1>2, Parts
<1>4. id \in Id /\ id \in DOMAIN msg.digest
  BY <1>1, <1>2, Names DEF MsgOK
<1>5. msg.digest[id] \in Peer /\ May(issued, id, msg.digest[id])
  BY <1>2, <1>4 DEF MsgOK, Good, Rows
<1>6. news \in Peer /\ May(issued, id, news)
  BY <1>5, PeerIs, AliveIs DEF May
<1>7. id = Host(msg.to) => Key(msg.to) \in DOMAIN tab
  BY <1>2, Names DEF MsgOK
<1>8. row \in Peer \union {None}
  BY <1>3, RowIs
<1> HIDE DEF news
<1>9. EntryOK(msg.to, issued, tab, id, e)
  <2> HIDE DEF row
  <2>1. EntryOK(msg.to, issued, tab, id,
                [first |-> row, last |-> row, new |-> Upserted(row, news)])
    BY <1>3, <1>6, <1>7, <1>8, UpsertOK DEF row
  <2> QED BY <2>1 DEF Changed
<1> HIDE DEF e
<1>10. PlanOK(msg.to, issued, tab, plan, {})
  BY <1>4, <1>9, NoPlanOK, PlanWith
<1>11. DOMAIN plan = {id}
  BY DEF WithRow, NoPlan
<1> HIDE DEF plan
<1>12. /\ DOMAIN new = Fields /\ new.pc = "contact" /\ new.plan = plan
       /\ new.from = msg.from /\ new.to = msg.to
       /\ new.digest = msg.digest /\ new.waited = msg.waited
  BY <1>2, AtIs DEF MsgOK
<1> HIDE DEF new
<1>13. Unread("contact", msg.digest) = {}
  BY DEF Unread
<1>14. MsgOK(issued, tab, new)
  BY <1>2, <1>10, <1>11, <1>12, <1>13 DEF MsgOK
<1> HIDE DEF tab
<1> QED BY <1>1, <1>12, <1>14, HandlerKeeps DEF tab

\* A handler's commit.
LEMMA HandlerCommits ==
  ASSUME Inv, NEW msg \in inbox, NEW new, Becomes(msg, new), Commit(msg.to, msg.plan),
         UNCHANGED <<generation, round, pending, boot, issued, starts>>,
         PlanOK(msg.to, issued, table[msg.to], msg.plan, {}),
         MsgOK(issued, table[msg.to], new), new.to = msg.to, new.from = msg.from,
         new.waited = msg.waited
  PROVE  Inv'
<1>1. msg.to \in Node
  BY Letters
<1>2. /\ DOMAIN table' = Node
      /\ \A m \in Node : DOMAIN table[m] \subseteq DOMAIN table'[m]
      /\ \A m \in Node : table'[m] = table[m] \/ TabOK(m, issued', table'[m])
  BY <1>1, CommitTables
<1>3. Types'
  BY <1>2 DEF Inv, Types
<1>4. Waits'
  BY WaitsBecomes DEF Inv
<1>5. MsgOK(issued', table'[new.to], new)
  <2>1. issued \in [Node -> Nat] /\ issued' \in [Node -> Nat] /\ issued' = issued
    BY DEF Inv, Types
  <2>2. \A m \in Node : issued[m] <= issued'[m]
    BY <2>1
  <2>3. DOMAIN table[msg.to] \subseteq DOMAIN table'[msg.to]
    BY <1>1, <1>2
  <2> QED BY <2>1, <2>2, <2>3, MsgGrows
<1>6. \A m \in inbox' : m \in inbox \/ MsgOK(issued', table'[m.to], m)
  BY <1>5 DEF Becomes
<1> QED BY <1>2, <1>3, <1>4, <1>6, Frame DEF Inv, Types

\* gossip_sync: the sender is registered.
LEMMA CommitContactKeeps ==
  ASSUME Inv, NEW msg \in inbox, CommitContact(msg)
  PROVE  Inv'
<1> DEFINE rest == Others(msg.digest, msg.to)
           new == [At(msg, "merging", NoPlan) EXCEPT !.digest = rest]
<1>1. MsgOK(issued, table[msg.to], msg) /\ msg.to \in Node
  BY Letters
<1>2. DOMAIN At(msg, "merging", NoPlan) = Fields
  BY <1>1, AtIs DEF MsgOK
<1>3. At(msg, "merging", NoPlan).digest = msg.digest
  BY <1>1, AtIs DEF MsgOK
<1>4. /\ msg.pc = "contact" /\ Commit(msg.to, msg.plan) /\ Becomes(msg, new)
      /\ UNCHANGED <<generation, round, pending, boot, issued, starts>>
  BY <1>3 DEF CommitContact
<1>5. /\ DOMAIN new = Fields /\ new.pc = "merging" /\ new.plan = NoPlan /\ new.digest = rest
      /\ new.from = msg.from /\ new.to = msg.to /\ new.waited = msg.waited
  BY <1>1, <1>2, AtIs DEF MsgOK, Fields
<1> HIDE DEF new
<1>6. Good(issued, rest) /\ Host(msg.to) \notin DOMAIN rest
  <2>1. Good(issued, msg.digest)
    BY <1>1 DEF MsgOK
  <2>2. PICK own : own = Host(msg.to)
    OBVIOUS
  <2>3. /\ Good(issued, Without(msg.digest, own))
        /\ DOMAIN Without(msg.digest, own) = DOMAIN msg.digest \ {own}
    BY <2>1, WithoutGood
  <2> QED BY <2>2, <2>3 DEF Others
<1> HIDE DEF rest
<1>7. MsgOK(issued, table[msg.to], new)
  BY <1>1, <1>5, <1>6, NoPlanOK DEF MsgOK
<1>8. PlanOK(msg.to, issued, table[msg.to], msg.plan, {})
  BY <1>1, <1>4 DEF MsgOK, Unread
<1> QED BY <1>4, <1>5, <1>7, <1>8, HandlerCommits

\* gossip_sync: a row is merged.
LEMMA ReadRowKeeps ==
  ASSUME Inv, NEW msg \in inbox, NEW id \in Id, ReadRow(msg, id)
  PROVE  Inv'
<1> DEFINE tab == table[msg.to]
           row == Row(tab, id)
           rest == Left(msg.digest, msg.plan, id, row)
           next == Look(msg.plan, id, row, msg.digest[id])
           new == [msg EXCEPT !.plan = next, !.digest = rest]
<1>1. MsgOK(issued, tab, msg) /\ msg.to \in Node
  BY Letters
<1>2. DOMAIN msg = Fields
  BY <1>1 DEF MsgOK
<1>3. /\ msg.pc = "merging" /\ id \in DOMAIN msg.digest /\ Becomes(msg, new)
      /\ UNCHANGED <<generation, table, round, pending, boot, issued, starts>>
  BY <1>2 DEF ReadRow, Fields
<1>4. TabOK(msg.to, issued, tab)
  BY <1>1, Parts
<1>5. /\ Good(issued, msg.digest) /\ PlanOK(msg.to, issued, tab, msg.plan, DOMAIN msg.digest)
      /\ Sober(msg.plan) /\ Host(msg.to) \notin DOMAIN msg.digest
  BY <1>1, <1>3 DEF MsgOK, Unread
<1>6. /\ Good(issued, rest) /\ DOMAIN rest \subseteq DOMAIN msg.digest
      /\ PlanOK(msg.to, issued, tab, next, DOMAIN rest) /\ Sober(next)
  <2> HIDE DEF tab
  <2> QED BY <1>3, <1>4, <1>5, LookOK
<1>7. /\ DOMAIN new = Fields /\ new.pc = "merging" /\ new.plan = next /\ new.digest = rest
      /\ new.from = msg.from /\ new.to = msg.to /\ new.waited = msg.waited
  BY <1>2, <1>3 DEF Fields
<1> HIDE DEF new, next, rest
<1>8. MsgOK(issued, tab, new)
  BY <1>1, <1>3, <1>5, <1>6, <1>7 DEF MsgOK, Unread
<1> QED BY <1>3, <1>7, <1>8, HandlerKeeps

\* gossip_sync: the digest is merged.
LEMMA CommitMergeKeeps ==
  ASSUME Inv, NEW msg \in inbox, CommitMerge(msg)
  PROVE  Inv'
<1> DEFINE new == At(msg, "merged", NoPlan)
<1>1. MsgOK(issued, table[msg.to], msg) /\ msg.to \in Node
  BY Letters
<1>2. /\ msg.pc = "merging" /\ DOMAIN msg.digest = {}
      /\ Commit(msg.to, msg.plan) /\ Becomes(msg, new)
      /\ UNCHANGED <<generation, round, pending, boot, issued, starts>>
  BY DEF CommitMerge
<1>3. /\ DOMAIN new = Fields /\ new.pc = "merged" /\ new.plan = NoPlan
      /\ new.digest = msg.digest
      /\ new.from = msg.from /\ new.to = msg.to /\ new.waited = msg.waited
  BY <1>1, AtIs DEF MsgOK
<1> HIDE DEF new
<1>4. MsgOK(issued, table[msg.to], new)
  BY <1>1, <1>2, <1>3, NoPlanOK DEF MsgOK
<1>5. PlanOK(msg.to, issued, table[msg.to], msg.plan, {})
  BY <1>1, <1>2 DEF MsgOK, Unread
<1> QED BY <1>2, <1>3, <1>4, <1>5, HandlerCommits

\* A POST or its handler fails.
LEMMA LoseKeeps ==
  ASSUME Inv, NEW msg \in inbox, Lose(msg)
  PROVE  Inv'
<1>1. /\ inbox' = inbox \ {msg}
      /\ UNCHANGED <<generation, table, round, pending, boot, issued, starts>>
  BY DEF Lose
<1>2. Types'
  BY <1>1 DEF Inv, Types
<1>3. Waits'
  BY <1>1 DEF Inv, Waits
<1> QED BY <1>1, <1>2, <1>3, Frame DEF Inv, Types


\* A round's step that leaves everything else alone.
LEMMA RoundKeeps ==
  ASSUME Inv, NEW n \in Node, NEW r, round' = [round EXCEPT ![n] = r],
         RoundOK(n, issued, table[n], r), round[n].pc # "waiting",
         UNCHANGED <<generation, table, inbox, pending, boot, issued, starts>>
  PROVE  Inv'
<1>1. DOMAIN round = Node
  BY DEF Inv, Types
<1>2. DOMAIN round' = Node /\ round'[n] = r /\ \A m \in Node : m # n => round'[m] = round[m]
  BY <1>1
<1>3. Types'
  BY <1>2 DEF Inv, Types
<1>4. Waits'
  BY <1>2, WaitsRound, Letters DEF Inv
<1>5. \A m \in Node : round'[m] = round[m] \/ RoundOK(m, issued', table'[m], round'[m])
  BY <1>2
<1> QED BY <1>3, <1>4, <1>5, Frame DEF Inv, Types

\* A round's commit.
LEMMA RoundCommits ==
  ASSUME Inv, NEW n \in Node, NEW r, round' = [round EXCEPT ![n] = r],
         Commit(n, round[n].plan), PlanOK(n, issued, table[n], round[n].plan, {}),
         RoundOK(n, issued, table[n], r), round[n].pc # "waiting",
         UNCHANGED <<generation, inbox, pending, boot, issued, starts>>
  PROVE  Inv'
<1>1. DOMAIN round = Node
  BY DEF Inv, Types
<1>2. DOMAIN round' = Node /\ round'[n] = r /\ \A m \in Node : m # n => round'[m] = round[m]
  BY <1>1
<1>3. /\ DOMAIN table' = Node
      /\ \A m \in Node : DOMAIN table[m] \subseteq DOMAIN table'[m]
      /\ \A m \in Node : table'[m] = table[m] \/ TabOK(m, issued', table'[m])
  BY CommitTables
<1>4. Types'
  BY <1>2, <1>3 DEF Inv, Types
<1>5. Waits'
  BY <1>2, WaitsRound, Letters DEF Inv
<1>6. RoundOK(n, issued', table'[n], r)
  <2>1. issued \in [Node -> Nat] /\ issued' \in [Node -> Nat] /\ issued' = issued
    BY DEF Inv, Types
  <2>2. \A m \in Node : issued[m] <= issued'[m]
    BY <2>1
  <2> QED BY <2>1, <2>2, <1>3, RoundGrows
<1>7. \A m \in Node : round'[m] = round[m] \/ RoundOK(m, issued', table'[m], round'[m])
  BY <1>2, <1>6
<1> QED BY <1>3, <1>4, <1>5, <1>7, Frame DEF Inv, Types

\* Points of a round without an answer.
LEMMA RoundAtOK ==
  ASSUME NEW n, NEW is, NEW tab, NEW pc \in Pcs \ {"merging"}, NEW to, NEW plan,
         pc \in {"chosen", "waiting"} => to \in DOMAIN tab,
         PlanOK(n, is, tab, plan, {}), Sober(plan)
  PROVE  RoundOK(n, is, tab, RoundAt(pc, to, plan))
<1> DEFINE r == RoundAt(pc, to, plan)
<1>1. DOMAIN r = {"pc", "to", "reply", "plan"} /\ r.pc = pc /\ r.to = to /\ r.plan = plan
  BY DEF RoundAt
<1> HIDE DEF r
<1>2. Unread(r.pc, r.reply) = {}
  BY <1>1 DEF Unread
<1>3. RoundOK(n, is, tab, r)
  BY <1>1, <1>2 DEF RoundOK
<1> QED BY <1>3 DEF r

\* _gossip_round: the generation is raised.
LEMMA StartRoundKeeps ==
  ASSUME Inv, NEW n \in Node, StartRound(n)
  PROVE  Inv'
<1>1. /\ round[n].pc = "asleep"
      /\ generation' = [generation EXCEPT ![n] = generation[n] + 1]
      /\ issued' = [issued EXCEPT ![n] = Larger(issued[n], generation[n] + 1)]
      /\ round' = [round EXCEPT ![n] = RoundAt("begun", None, NoPlan)]
      /\ UNCHANGED <<table, inbox, pending, boot, starts>>
  BY DEF StartRound
<1>2. DOMAIN round = Node /\ generation \in [Node -> Nat] /\ issued \in [Node -> Nat]
  BY DEF Inv, Types
<1>3. /\ DOMAIN round' = Node /\ round'[n] = RoundAt("begun", None, NoPlan)
      /\ \A m \in Node : m # n => round'[m] = round[m]
  BY <1>1, <1>2
<1>4. /\ issued' \in [Node -> Nat] /\ generation' \in [Node -> Nat]
      /\ \A m \in Node : issued[m] <= issued'[m] /\ generation'[m] <= issued'[m]
  BY <1>1, <1>2 DEF Inv, Types, Larger
<1>5. Types'
  BY <1>1, <1>3, <1>4 DEF Inv, Types
<1>6. Waits'
  BY <1>1, <1>3, WaitsRound, Letters DEF Inv
<1>7. RoundOK(n, issued', table'[n], RoundAt("begun", None, NoPlan))
  BY NoPlanOK, RoundAtOK DEF Pcs
<1>8. \A m \in Node : round'[m] = round[m] \/ RoundOK(m, issued', table'[m], round'[m])
  BY <1>3, <1>7
<1> QED BY <1>1, <1>4, <1>5, <1>6, <1>8, Frame

\* _gossip_round: a target is chosen.
LEMMA ChooseKeeps ==
  ASSUME Inv, NEW n \in Node, NEW to \in Id, Choose(n, to)
  PROVE  Inv'
<1>1. /\ round[n].pc = "begun" /\ to \in DOMAIN table[n]
      /\ round' = [round EXCEPT ![n] = RoundAt("chosen", to, NoPlan)]
      /\ UNCHANGED <<generation, table, inbox, pending, boot, issued, starts>>
  BY DEF Choose, Choices
<1>2. RoundOK(n, issued, table[n], RoundAt("chosen", to, NoPlan))
  BY <1>1, NoPlanOK, RoundAtOK DEF Pcs
<1> QED BY <1>1, <1>2, RoundKeeps

\* _gossip_round: the round ends early.
LEMMA EndRoundKeeps ==
  ASSUME Inv, NEW n \in Node, EndRound(n)
  PROVE  Inv'
<1>1. /\ round[n].pc # "waiting" /\ round' = [round EXCEPT ![n] = Asleep]
      /\ UNCHANGED <<generation, table, inbox, pending, boot, issued, starts>>
  BY DEF EndRound
<1>2. RoundOK(n, issued, table[n], Asleep)
  BY NoPlanOK, RoundAtOK DEF Pcs, Asleep
<1> QED BY <1>1, <1>2, RoundKeeps

\* _gossip_round: a row of the answer is merged.
LEMMA ReadReplyKeeps ==
  ASSUME Inv, NEW n \in Node, NEW id \in Id, ReadReply(n, id)
  PROVE  Inv'
<1> DEFINE tab == table[n]
           r == round[n]
           row == Row(tab, id)
           rest == Left(r.reply, r.plan, id, row)
           next == Look(r.plan, id, row, r.reply[id])
           new == [r EXCEPT !.plan = next, !.reply = rest]
<1>1. /\ TabOK(n, issued, tab) /\ RoundOK(n, issued, tab, r)
      /\ DOMAIN round = Node
  BY Parts DEF Inv, Types
<1>2. DOMAIN r = {"pc", "to", "reply", "plan"}
  BY <1>1 DEF RoundOK
<1>3. /\ r.pc = "merging" /\ id \in DOMAIN r.reply
      /\ round' = [round EXCEPT ![n] = new]
      /\ UNCHANGED <<generation, table, inbox, pending, boot, issued, starts>>
  BY <1>1, <1>2 DEF ReadReply
<1>4. /\ Good(issued, r.reply) /\ PlanOK(n, issued, tab, r.plan, DOMAIN r.reply)
      /\ Sober(r.plan) /\ Host(n) \notin DOMAIN r.reply
  BY <1>1, <1>3 DEF RoundOK, Unread
<1>5. /\ Good(issued, rest) /\ DOMAIN rest \subseteq DOMAIN r.reply
      /\ PlanOK(n, issued, tab, next, DOMAIN rest) /\ Sober(next)
  <2> HIDE DEF tab
  <2> QED BY <1>1, <1>3, <1>4, LookOK
<1>6. /\ DOMAIN new = {"pc", "to", "reply", "plan"} /\ new.pc = "merging"
      /\ new.plan = next /\ new.reply = rest /\ new.to = r.to
  BY <1>2, <1>3
<1> HIDE DEF new, next, rest
<1>7. RoundOK(n, issued, tab, new)
  BY <1>1, <1>3, <1>4, <1>5, <1>6 DEF RoundOK, Unread
<1> QED BY <1>3, <1>7, RoundKeeps

\* _gossip_round: the answer is merged.
LEMMA CommitReplyKeeps ==
  ASSUME Inv, NEW n \in Node, CommitReply(n)
  PROVE  Inv'
<1>1. /\ round[n].pc = "merging" /\ DOMAIN round[n].reply = {} /\ Commit(n, round[n].plan)
      /\ round' = [round EXCEPT ![n] = RoundAt("ageing", None, NoPlan)]
      /\ UNCHANGED <<generation, inbox, pending, boot, issued, starts>>
  BY DEF CommitReply
<1>2. PlanOK(n, issued, table[n], round[n].plan, {})
  BY <1>1, Parts DEF RoundOK, Unread
<1>3. RoundOK(n, issued, table[n], RoundAt("ageing", None, NoPlan))
  BY NoPlanOK, RoundAtOK DEF Pcs
<1> QED BY <1>1, <1>2, <1>3, RoundCommits

\* _mark_suspect: the suspicion is committed.
LEMMA CommitSuspectKeeps ==
  ASSUME Inv, NEW n \in Node, CommitSuspect(n)
  PROVE  Inv'
<1>1. /\ round[n].pc = "failing" /\ Commit(n, round[n].plan)
      /\ round' = [round EXCEPT ![n] = RoundAt("ageing", None, NoPlan)]
      /\ UNCHANGED <<generation, inbox, pending, boot, issued, starts>>
  BY DEF CommitSuspect
<1>2. PlanOK(n, issued, table[n], round[n].plan, {})
  BY <1>1, Parts DEF RoundOK, Unread
<1>3. RoundOK(n, issued, table[n], RoundAt("ageing", None, NoPlan))
  BY NoPlanOK, RoundAtOK DEF Pcs
<1> QED BY <1>1, <1>2, <1>3, RoundCommits

\* _age_peers: the ages are committed.
LEMMA CommitAgesKeeps ==
  ASSUME Inv, NEW n \in Node, CommitAges(n)
  PROVE  Inv'
<1>1. /\ round[n].pc = "aged" /\ Commit(n, round[n].plan)
      /\ round' = [round EXCEPT ![n] = Asleep]
      /\ UNCHANGED <<generation, inbox, pending, boot, issued, starts>>
  BY DEF CommitAges
<1>2. PlanOK(n, issued, table[n], round[n].plan, {})
  BY <1>1, Parts DEF RoundOK, Unread
<1>3. RoundOK(n, issued, table[n], Asleep)
  BY NoPlanOK, RoundAtOK DEF Pcs, Asleep
<1> QED BY <1>1, <1>2, <1>3, RoundCommits


\* A row that is there becomes suspect, dead or what else, not later news.
LEMMA AgeingOK ==
  ASSUME NEW n, NEW is, NEW tab, TabOK(n, is, tab), NEW id \in DOMAIN tab,
         NEW new \in Peer, new.generation = tab[id].generation
  PROVE  EntryOK(n, is, tab, id, Changed(tab[id], new))
<1>1. id \in Id /\ tab[id] \in Peer /\ May(is, id, tab[id]) /\ tab[id].generation \in Nat
  BY PeerIs DEF TabOK, Good, Rows
<1>2. May(is, id, new)
  BY <1>1 DEF May
<1>3. EntryOK(n, is, tab, id, [first |-> tab[id], last |-> tab[id], new |-> new])
  BY <1>1, <1>2, DecidedOK DEF TabOK
<1> QED BY <1>3 DEF Changed

\* Suspicion and ageing leave the generation.
LEMMA SuspectedIs ==
  ASSUME NEW row \in Peer
  PROVE  /\ Suspected(row) \in Peer /\ Suspected(row).generation = row.generation
         /\ Aged(row) \in Peer /\ Aged(row).generation = row.generation
BY DEF Suspected, Aged, Peer, Status

\* _age_peers: the rows are read.
LEMMA ReadAgesKeeps ==
  ASSUME Inv, NEW n \in Node, NEW ids, ReadAges(n, ids)
  PROVE  Inv'
<1> DEFINE tab == table[n]
           plan == [id \in ids |-> Changed(tab[id], Aged(tab[id]))]
           new == IF ids = {} THEN Asleep ELSE RoundAt("aged", None, plan)
<1>1. /\ round[n].pc = "ageing" /\ round' = [round EXCEPT ![n] = new]
      /\ ids \subseteq {id \in Silent \cap DOMAIN tab : tab[id].status # "dead"}
      /\ UNCHANGED <<generation, table, inbox, pending, boot, issued, starts>>
  BY DEF ReadAges
<1>2. TabOK(n, issued, tab)
  BY Parts
<1> HIDE DEF tab
<1>3. \A id \in ids : id \in DOMAIN tab /\ id \in Id /\ tab[id] \in Peer /\ tab[id].status # "dead"
  BY <1>1, <1>2 DEF TabOK, Good, Rows
<1>4. ASSUME NEW id \in ids
      PROVE  EntryOK(n, issued, tab, id, plan[id]) /\ SoberEntry(plan[id])
  <2>1. Aged(tab[id]) \in Peer /\ Aged(tab[id]).generation = tab[id].generation
    BY <1>3, SuspectedIs
  <2>2. EntryOK(n, issued, tab, id, Changed(tab[id], Aged(tab[id])))
    BY <1>2, <1>3, <2>1, AgeingOK
  <2>3. SoberEntry(Changed(tab[id], Aged(tab[id])))
    BY <1>3 DEF SoberEntry, Changed
  <2> QED BY <2>2, <2>3
<1>5. DOMAIN plan = ids
  OBVIOUS
<1> HIDE DEF plan
<1>6. PlanOK(n, issued, tab, plan, {}) /\ Sober(plan)
  BY <1>3, <1>4, <1>5 DEF PlanOK, Sober
<1>7. RoundOK(n, issued, tab, RoundAt("aged", None, plan))
  BY <1>6, RoundAtOK DEF Pcs
<1>8. RoundOK(n, issued, tab, Asleep)
  BY NoPlanOK, RoundAtOK DEF Pcs, Asleep
<1>9. RoundOK(n, issued, tab, new)
  BY <1>7, <1>8
<1> HIDE DEF new
<1> QED BY <1>1, <1>9, RoundKeeps DEF tab

\* _mark_suspect: the target is looked up.
LEMMA FailKeeps ==
  ASSUME Inv, NEW n \in Node, Fail(n)
  PROVE  Inv'
<1> DEFINE tab == table[n]
           to == round[n].to
           row == tab[to]
           plan == WithRow(NoPlan, to, Changed(row, Suspected(row)))
           new == IF row.status = "alive" THEN RoundAt("failing", None, plan)
                                          ELSE RoundAt("ageing", None, NoPlan)
<1>1. /\ round[n].pc \in {"waiting", "merging"}
      /\ round' = [round EXCEPT ![n] = new] /\ Unwaited(n)
      /\ UNCHANGED <<generation, table, pending, boot, issued, starts>>
  BY DEF Fail
<1>2. TabOK(n, issued, tab) /\ to \in DOMAIN tab
  BY <1>1, Parts DEF RoundOK
<1>3. to \in Id /\ row \in Peer
  BY <1>2 DEF TabOK, Good, Rows
<1>4. RoundOK(n, issued, tab, RoundAt("ageing", None, NoPlan))
  BY NoPlanOK, RoundAtOK DEF Pcs
<1>5. ASSUME row.status = "alive" PROVE RoundOK(n, issued, tab, RoundAt("failing", None, plan))
  <2> DEFINE e == Changed(row, Suspected(row))
  <2>1. Suspected(row) \in Peer /\ Suspected(row).generation = row.generation
    BY <1>3, SuspectedIs
  <2>2. EntryOK(n, issued, tab, to, e)
    <3> HIDE DEF tab, to
    <3> QED BY <1>2, <2>1, AgeingOK
  <2>3. SoberEntry(e)
    BY <1>5 DEF SoberEntry, Changed
  <2> HIDE DEF e, tab, to, row
  <2>4. PlanOK(n, issued, tab, WithRow(NoPlan, to, e), {}) /\ Sober(WithRow(NoPlan, to, e))
    BY <1>3, <2>2, <2>3, NoPlanOK, PlanWith, SoberWith
  <2>5. RoundOK(n, issued, tab, RoundAt("failing", None, WithRow(NoPlan, to, e)))
    BY <2>4, RoundAtOK DEF Pcs
  <2> QED BY <2>5 DEF e
<1>6. RoundOK(n, issued, tab, new)
  BY <1>4, <1>5
<1> HIDE DEF new
<1>7. DOMAIN round = Node
  BY DEF Inv, Types
<1>8. DOMAIN round' = Node /\ round'[n] = new /\ \A m \in Node : m # n => round'[m] = round[m]
  BY <1>1, <1>7
<1>9. \A m \in inbox' : \/ m \in inbox /\ m.from # n
                        \/ \E o \in inbox : m = Unheard(o) /\ o.from = n
  BY <1>1 DEF Unwaited, Unheard
<1>10. \A m \in inbox' : m \in inbox \/ \E o \in inbox : m = Unheard(o)
  BY <1>9
<1>11. \A m \in inbox' : m.waited => m \in inbox /\ m.from # n /\ m.from \in Node
  <2>1. \A o \in inbox : ~Unheard(o).waited
    BY Letters, UnheardIs
  <2> QED BY <1>9, <2>1, Letters
<1>12. Waits'
  BY <1>8, <1>11 DEF Inv, Waits
<1>13. Types'
  BY <1>1, <1>8 DEF Inv, Types
<1>14. \A m \in Node : round'[m] = round[m] \/ RoundOK(m, issued', table'[m], round'[m])
  BY <1>1, <1>6, <1>8
<1> QED BY <1>1, <1>10, <1>12, <1>13, <1>14, Frame DEF Inv, Types

\* _gossip_round: the digest is sent.
LEMMA SendKeeps ==
  ASSUME Inv, NEW n \in Node, Send(n)
  PROVE  Inv'
<1> DEFINE to == round[n].to
           digest == Digest(table[n], n, generation[n])
           msg == [from |-> n, to |-> NodeOf(to), pc |-> "sent", waited |-> TRUE,
                   plan |-> NoPlan, digest |-> digest]
<1>1. /\ round[n].pc = "chosen" /\ round' = [round EXCEPT ![n].pc = "waiting"]
      /\ inbox' = inbox \union {msg}
      /\ UNCHANGED <<generation, table, pending, boot, issued, starts>>
  BY DEF Send
<1>2. /\ TabOK(n, issued, table[n]) /\ Good(issued, table[n])
      /\ RoundOK(n, issued, table[n], round[n])
      /\ issued \in [Node -> Nat] /\ generation[n] \in Nat /\ generation[n] <= issued[n]
      /\ DOMAIN round = Node
  BY Parts DEF Inv, Types
<1>3. to \in DOMAIN table[n] /\ to \in Id
  BY <1>1, <1>2 DEF RoundOK, TabOK, Good, Rows
<1>4. NodeOf(to) \in Node /\ (NodeOf(to) = n => Key(n) \in DOMAIN table[n])
  BY <1>2, <1>3, IdCases DEF TabOK
<1>5. Good(issued, digest) /\ Host(n) \in DOMAIN digest
  BY <1>2, DigestGood
<1> HIDE DEF digest, to
<1>6. /\ DOMAIN msg = Fields /\ msg.from = n /\ msg.to = NodeOf(to) /\ msg.pc = "sent"
      /\ msg.waited = TRUE /\ msg.plan = NoPlan /\ msg.digest = digest
  BY DEF Fields
<1> HIDE DEF msg
<1>7. MsgOK(issued, table[msg.to], msg)
  BY <1>4, <1>5, <1>6, NoPlanOK DEF MsgOK
<1> DEFINE r == [round[n] EXCEPT !.pc = "waiting"]
<1>8. /\ DOMAIN r = {"pc", "to", "reply", "plan"} /\ r.pc = "waiting" /\ r.to = to
      /\ r.plan = round[n].plan
  BY <1>2 DEF RoundOK, to
<1>9. round' = [round EXCEPT ![n] = r]
  BY <1>1, <1>2
<1> HIDE DEF r
<1>10. RoundOK(n, issued, table[n], r)
  BY <1>1, <1>2, <1>3, <1>8 DEF RoundOK, Unread, Pcs
<1>11. DOMAIN round' = Node /\ round'[n] = r /\ \A m \in Node : m # n => round'[m] = round[m]
  BY <1>2, <1>9
<1>12. Waits'
  <2>1. \A m \in inbox : m.from \in Node /\ (m.waited => m.from # n)
    BY <1>1, Letters DEF Inv, Waits
  <2> QED BY <1>1, <1>6, <1>8, <1>11, <2>1 DEF Inv, Waits
<1>13. Types'
  BY <1>1, <1>11 DEF Inv, Types
<1>14. \A m \in Node : round'[m] = round[m] \/ RoundOK(m, issued', table'[m], round'[m])
  BY <1>1, <1>10, <1>11
<1>15. \A m \in inbox' : m \in inbox \/ MsgOK(issued', table'[m.to], m)
  BY <1>1, <1>7
<1> QED BY <1>1, <1>12, <1>13, <1>14, <1>15, Frame DEF Inv, Types


\* gossip_sync: the answer is returned.
LEMMA ReplyKeeps ==
  ASSUME Inv, NEW msg \in inbox, Reply(msg)
  PROVE  Inv'
<1> DEFINE from == msg.from
           digest == Digest(table[msg.to], msg.to, generation[msg.to])
           reply == Others(digest, from)
           r == [pc |-> "merging", to |-> round[from].to, plan |-> NoPlan, reply |-> reply]
<1>1. /\ inbox' = inbox \ {msg}
      /\ round' = IF msg.waited THEN [round EXCEPT ![from] = r] ELSE round
      /\ UNCHANGED <<generation, table, pending, boot, issued, starts>>
  BY DEF Reply
<1>2. MsgOK(issued, table[msg.to], msg) /\ from \in Node /\ msg.to \in Node
  BY Letters
<1>3. /\ Good(issued, table[msg.to]) /\ issued \in [Node -> Nat]
      /\ generation[msg.to] \in Nat /\ generation[msg.to] <= issued[msg.to]
  BY <1>2, Parts
<1>4. Good(issued, digest)
  BY <1>2, <1>3, DigestGood
<1>5. Good(issued, reply) /\ Host(from) \notin DOMAIN reply
  <2> HIDE DEF digest
  <2>1. PICK own : own = Host(from)
    OBVIOUS
  <2>2. Good(issued, Without(digest, own)) /\ DOMAIN Without(digest, own) = DOMAIN digest \ {own}
    BY <1>4, WithoutGood
  <2> QED BY <2>1, <2>2 DEF Others
<1> HIDE DEF reply
<1>6. /\ DOMAIN r = {"pc", "to", "reply", "plan"} /\ r.pc = "merging"
      /\ r.to = round[from].to /\ r.plan = NoPlan /\ r.reply = reply
  OBVIOUS
<1> HIDE DEF r
<1>7. DOMAIN round = Node
  BY DEF Inv, Types
<1>8. CASE msg.waited
  <2>1. round[from].pc = "waiting"
    BY <1>8 DEF Inv, Waits
  <2>2. RoundOK(from, issued, table[from], round[from])
    BY <1>2, Parts
  <2>3. RoundOK(from, issued, table[from], r)
    BY <1>5, <1>6, <2>1, <2>2, NoPlanOK DEF RoundOK, Pcs
  <2>4. DOMAIN round' = Node /\ round'[from] = r /\ \A m \in Node : m # from => round'[m] = round[m]
    BY <1>1, <1>2, <1>7, <1>8
  <2>5. Types'
    BY <1>1, <2>4 DEF Inv, Types
  <2>6. \A m \in inbox' : m.waited => m \in inbox /\ m.from # from /\ m.from \in Node
    BY <1>1, <1>8, Letters DEF Inv, Waits
  <2>7. Waits'
    BY <2>4, <2>6 DEF Inv, Waits
  <2>8. \A m \in Node : round'[m] = round[m] \/ RoundOK(m, issued', table'[m], round'[m])
    BY <1>1, <2>3, <2>4
  <2> QED BY <1>1, <2>5, <2>7, <2>8, Frame DEF Inv, Types
<1>9. CASE ~msg.waited
  <2>1. round' = round
    BY <1>1, <1>9
  <2>2. Types' /\ Waits'
    BY <1>1, <2>1 DEF Inv, Types, Waits
  <2> QED BY <1>1, <2>1, <2>2, Frame DEF Inv, Types
<1> QED BY <1>8, <1>9

\* A process dies and starts anew.
LEMMA RestartKeeps ==
  ASSUME Inv, NEW n \in Node, Restart(n)
  PROVE  Inv'
<1>1. /\ generation' = [generation EXCEPT ![n] = 0]
      /\ round' = [round EXCEPT ![n] = Asleep]
      /\ pending' = [pending EXCEPT ![n] = Seeds[n]]
      /\ boot' = [boot EXCEPT ![n] = NoPlan]
      /\ starts' = [starts EXCEPT ![n] = starts[n] + 1]
      /\ UNCHANGED <<table, issued>>
      /\ inbox' = {IF m.from = n THEN Unheard(m) ELSE m :
                     m \in {o \in inbox : o.to # n \/ o.pc = "sent"}}
  BY DEF Restart, Unheard
<1>2. /\ DOMAIN round = Node /\ DOMAIN boot = Node /\ DOMAIN pending = Node
      /\ generation \in [Node -> Nat] /\ issued \in [Node -> Nat] /\ starts \in [Node -> Nat]
  BY DEF Inv, Types
<1>3. /\ DOMAIN round' = Node /\ round'[n] = Asleep
      /\ \A m \in Node : m # n => round'[m] = round[m]
  BY <1>1, <1>2
<1>4. Types'
  BY <1>1, <1>2, <1>3 DEF Inv, Types
<1>5. \A m \in inbox' : \/ m \in inbox /\ m.from # n
                        \/ \E o \in inbox : m = Unheard(o) /\ o.from = n
  BY <1>1
<1>6. \A m \in inbox' : m \in inbox \/ \E o \in inbox : m = Unheard(o)
  BY <1>5
<1>7. \A m \in inbox' : m.waited => m \in inbox /\ m.from # n /\ m.from \in Node
  <2>1. \A o \in inbox : ~Unheard(o).waited
    BY Letters, UnheardIs
  <2> QED BY <1>5, <2>1, Letters
<1>8. Waits'
  BY <1>3, <1>7 DEF Inv, Waits
<1>9. RoundOK(n, issued', table'[n], Asleep)
  BY NoPlanOK, RoundAtOK DEF Pcs, Asleep
<1>10. \A m \in Node : round'[m] = round[m] \/ RoundOK(m, issued', table'[m], round'[m])
  BY <1>3, <1>9
<1>11. \A m \in Node : boot'[m] = boot[m] \/ PlanOK(m, issued', table'[m], boot'[m], {})
  BY <1>1, <1>2, NoPlanOK
<1> QED BY <1>1, <1>4, <1>6, <1>8, <1>10, <1>11, Frame DEF Inv, Types

\* Nothing happens.
LEMMA SleepKeeps ==
  ASSUME Inv, UNCHANGED vars
  PROVE  Inv'
<1>1. UNCHANGED <<generation, table, round, inbox, pending, boot, issued, starts>>
  BY DEF vars
<1>2. Types' /\ Waits'
  BY <1>1 DEF Inv, Types, Waits
<1> QED BY <1>1, <1>2, Frame DEF Inv, Types

\* The stored tables have the invariant.
LEMMA InitInv ==
  ASSUME Init
  PROVE  Inv
<1>1. /\ generation = [n \in Node |-> 0] /\ table = Stored
      /\ round = [n \in Node |-> Asleep] /\ inbox = {} /\ pending = Seeds
      /\ boot = [n \in Node |-> NoPlan] /\ issued = Earlier /\ starts = [n \in Node |-> 1]
  BY DEF Init
<1>2. Earlier \in [Node -> Nat] /\ Seeds \in [Node -> SUBSET Node] /\ DOMAIN Stored = Node
  BY GossipAssumption, StoredAssumption
<1>3. Types
  BY <1>1, <1>2 DEF Types
<1>4. Waits
  BY <1>1 DEF Waits
<1>5. ASSUME NEW n \in Node PROVE TabOK(n, issued, table[n])
  <2> DEFINE rows == Stored[n]
  <2>1. Rows(rows) /\ (Host(n) \in DOMAIN rows => Key(n) \in DOMAIN rows)
    BY StoredAssumption
  <2>2. \A m \in Node : Host(m) \in DOMAIN rows => rows[Host(m)].generation <= Earlier[m]
    BY StoredAssumption
  <2>3. \A m \in Node : Key(m) \in DOMAIN rows => rows[Key(m)].generation = 0 /\ Seed(m)
    BY StoredAssumption DEF Seed
  <2> HIDE DEF rows
  <2>4. ASSUME NEW id \in DOMAIN rows PROVE May(Earlier, id, rows[id])
    <3>1. id \in Id /\ NodeOf(id) \in Node
      BY <2>1, IdCases DEF Rows
    <3>2. CASE id = Host(NodeOf(id))
      <4>1. Cap(Earlier, id) = Earlier[NodeOf(id)]
        BY <3>2 DEF Cap
      <4>2. \A m \in Node : id # Key(m)
        BY <3>1, <3>2, Names
      <4>3. rows[id].generation <= Earlier[NodeOf(id)]
        BY <2>2, <3>1, <3>2
      <4> QED BY <4>1, <4>2, <4>3 DEF May
    <3>3. CASE id = Key(NodeOf(id))
      <4>1. Cap(Earlier, id) = 0
        BY <3>1, <3>3, <1>2, CapIs
      <4>2. \A m \in Node : id = Key(m) => Seed(m)
        BY <2>3
      <4>3. rows[id].generation = 0
        BY <2>3, <3>1, <3>3
      <4> QED BY <4>1, <4>2, <4>3 DEF May
    <3> QED BY <3>1, <3>2, <3>3, IdCases
  <2>5. Good(Earlier, rows)
    BY <2>1, <2>4 DEF Good
  <2> QED BY <2>1, <2>5, <1>1 DEF TabOK, rows
<1>6. \A n \in Node : PlanOK(n, issued, table[n], boot[n], {})
  BY <1>1, NoPlanOK
<1>7. \A n \in Node : RoundOK(n, issued, table[n], round[n])
  <2>1. \A n \in Node : RoundOK(n, issued, table[n], Asleep)
    BY NoPlanOK, RoundAtOK DEF Pcs, Asleep
  <2> QED BY <2>1, <1>1
<1> QED BY <1>1, <1>3, <1>4, <1>5, <1>6, <1>7 DEF Inv

\* Every step keeps the invariant.
LEMMA NextInv ==
  ASSUME Inv, [Next]_vars
  PROVE  Inv'
<1>1. CASE UNCHANGED vars
  BY <1>1, SleepKeeps
<1>2. ASSUME NEW n \in Node,
             \/ \E seed \in Seeds[n] : ReachSeed(n, seed)
             \/ CommitSeeds(n) \/ GiveUpSeeds(n) \/ StartRound(n)
             \/ \E id \in Id : Choose(n, id) \/ ReadReply(n, id)
             \/ Send(n) \/ CommitReply(n) \/ Fail(n) \/ CommitSuspect(n)
             \/ \E ids \in SUBSET Id : ReadAges(n, ids)
             \/ CommitAges(n) \/ EndRound(n) \/ Restart(n)
      PROVE  Inv'
  <2>1. CASE \/ \E seed \in Seeds[n] : ReachSeed(n, seed)
             \/ CommitSeeds(n) \/ GiveUpSeeds(n)
    BY <2>1, ReachSeedKeeps, CommitSeedsKeeps, GiveUpSeedsKeeps
  <2>2. CASE StartRound(n) \/ Send(n) \/ Fail(n) \/ EndRound(n) \/ Restart(n)
    BY <2>2, StartRoundKeeps, SendKeeps, FailKeeps, EndRoundKeeps, RestartKeeps
  <2>3. CASE \E id \in Id : Choose(n, id) \/ ReadReply(n, id)
    BY <2>3, ChooseKeeps, ReadReplyKeeps
  <2>4. CASE CommitReply(n) \/ CommitSuspect(n) \/ CommitAges(n)
    BY <2>4, CommitReplyKeeps, CommitSuspectKeeps, CommitAgesKeeps
  <2>5. CASE \E ids \in SUBSET Id : ReadAges(n, ids)
    BY <2>5, ReadAgesKeeps
  <2> QED BY <1>2, <2>1, <2>2, <2>3, <2>4, <2>5
<1>3. ASSUME NEW msg \in inbox,
             \/ Contact(msg) \/ CommitContact(msg)
             \/ \E id \in Id : ReadRow(msg, id)
             \/ CommitMerge(msg) \/ Reply(msg) \/ Lose(msg)
      PROVE  Inv'
  BY <1>3, ContactKeeps, CommitContactKeeps, ReadRowKeeps, CommitMergeKeeps, ReplyKeeps,
     LoseKeeps
<1>4. Sleep => UNCHANGED vars
  BY DEF Sleep
<1> QED BY <1>1, <1>2, <1>3, <1>4 DEF Next

\* Every reachable state has the inductive invariant.
THEOREM AlwaysInv == Spec => []Inv
<1>1. Init => Inv
  BY InitInv
<1>2. Inv /\ [Next]_vars => Inv'
  BY NextInv
<1> QED BY <1>1, <1>2, PTL DEF Spec


-----------------------------------------------------------------------------
(* What follows from the invariant in a state. *)

\* The plans of the invariant are those of TypeOK.
LEMMA EntryType ==
  ASSUME NEW n, NEW is, NEW tab, NEW plan, NEW unread, PlanOK(n, is, tab, plan, unread)
  PROVE  Plan(plan)
BY DEF PlanOK, Plan, Entry, EntryOK

\* Tables, plans, rounds and messages have their types; a round's target has a
\* row, and at most one POST of a node is waited for.
THEOREM AlwaysTypeOK == Spec => []TypeOK
<1>1. ASSUME Inv PROVE TypeOK
  <2>1. ASSUME NEW n \in Node
        PROVE  /\ generation[n] <= issued[n] /\ Rows(table[n]) /\ pending[n] \subseteq Seeds[n]
               /\ Plan(boot[n]) /\ round[n].pc \in Pcs
               /\ round[n].pc \in {"chosen", "waiting", "merging"} =>
                    round[n].to \in DOMAIN table[n]
               /\ round[n].pc = "merging" => Rows(round[n].reply)
               /\ Plan(round[n].plan)
    <3>1. /\ Good(issued, table[n]) /\ PlanOK(n, issued, table[n], boot[n], {})
          /\ RoundOK(n, issued, table[n], round[n])
      BY <1>1, Parts
    <3>2. Plan(boot[n])
      BY <3>1, EntryType
    <3>3. Plan(round[n].plan)
      BY <3>1, EntryType DEF RoundOK
    <3> QED BY <1>1, <3>1, <3>2, <3>3 DEF RoundOK, Good, Inv, Types
  <2>2. ASSUME NEW msg \in inbox
        PROVE  /\ {msg.from, msg.to} \subseteq Node
               /\ msg.pc \in {"sent", "contact", "merging", "merged"}
               /\ Rows(msg.digest) /\ (msg.pc = "sent" => Host(msg.from) \in DOMAIN msg.digest)
               /\ Plan(msg.plan)
               /\ msg.waited => round[msg.from].pc = "waiting"
    <3>1. MsgOK(issued, table[msg.to], msg)
      BY <1>1, Letters
    <3>2. Plan(msg.plan)
      BY <3>1, EntryType DEF MsgOK
    <3> QED BY <1>1, <3>1, <3>2 DEF MsgOK, Good, Inv, Waits
  <2> QED BY <1>1, <2>1, <2>2 DEF TypeOK, Inv, Types, Waits, Pcs
<1> QED BY <1>1, AlwaysInv, PTL

\* Whatever is merged, repeated, overwritten and kept over restarts, nobody is
\* said to have reached a generation that it did not have.
THEOREM AlwaysNoForgedGeneration == Spec => []NoForgedGeneration
<1>1. ASSUME Inv PROVE NoForgedGeneration
  <2>1. \A id : Reached(id) = Cap(issued, id)
    BY DEF Reached, Cap
  <2>2. \A rows : Good(issued, rows) => Truthful(rows)
    BY <2>1 DEF Good, May, Truthful
  <2>3. ASSUME NEW n \in Node
        PROVE  Good(issued, table[n]) /\ (round[n].pc = "merging" => Good(issued, round[n].reply))
    BY <1>1, Parts DEF RoundOK
  <2>4. ASSUME NEW msg \in inbox PROVE Good(issued, msg.digest)
    BY <1>1, Letters DEF MsgOK
  <2> QED BY <2>2, <2>3, <2>4 DEF NoForgedGeneration
<1> QED BY <1>1, AlwaysInv, PTL

\* A node gets to know itself only by its fingerprint, as another's seed.
THEOREM AlwaysSelfOnlyByFingerprint == Spec => []SelfOnlyByFingerprint
<1>1. ASSUME Inv PROVE SelfOnlyByFingerprint
  <2>1. ASSUME NEW n \in Node
        PROVE  /\ Host(n) \in DOMAIN table[n] => Key(n) \in DOMAIN table[n]
               /\ Key(n) \in DOMAIN table[n] => \E m \in Node : n \in Seeds[m]
    BY <1>1, Parts DEF TabOK, Good, May, Seed
  <2> QED BY <2>1 DEF SelfOnlyByFingerprint
<1> QED BY <1>1, AlwaysInv, PTL

-----------------------------------------------------------------------------
(* What follows in a step: only commits change a table. *)

\* The commit of a session whose plan is decided.
Commits(n, plan) ==
  /\ plan \in Open(n) /\ PlanOK(n, issued, table[n], plan, {}) /\ Commit(n, plan)

\* Which sessions commit, and what is known of them.
Kind(n, plan) ==
  \/ CommitSeeds(n) /\ plan = boot[n]
  \/ Sober(plan)
  \/ \E msg \in inbox : /\ msg.to = n /\ CommitContact(msg)
                        /\ plan = msg.plan /\ DOMAIN plan = {Host(msg.from)}

\* A table changes only in the commit of a session; these are the kinds of them.
LEMMA TableSteps ==
  ASSUME Inv, Next, table' # table
  PROVE  \E n \in Node : \E plan \in Open(n) : Commits(n, plan) /\ Kind(n, plan)
<1>1. ASSUME NEW n \in Node, CommitSeeds(n)
      PROVE  Commits(n, boot[n])
  BY <1>1, Parts DEF CommitSeeds, Commits, Open
<1>2. ASSUME NEW n \in Node, CommitReply(n) \/ CommitSuspect(n) \/ CommitAges(n)
      PROVE  Commits(n, round[n].plan) /\ Sober(round[n].plan)
  <2>1. RoundOK(n, issued, table[n], round[n])
    BY Parts
  <2>2. /\ Commit(n, round[n].plan)
        /\ round[n].pc # "merging" \/ DOMAIN round[n].reply = {}
    BY <1>2 DEF CommitReply, CommitSuspect, CommitAges
  <2>3. Unread(round[n].pc, round[n].reply) = {}
    BY <2>2 DEF Unread
  <2> QED BY <2>1, <2>2, <2>3 DEF Commits, Open, RoundOK
<1>3. ASSUME NEW msg \in inbox, CommitContact(msg)
      PROVE  /\ msg.to \in Node /\ Commits(msg.to, msg.plan)
             /\ DOMAIN msg.plan = {Host(msg.from)}
  <2>1. MsgOK(issued, table[msg.to], msg) /\ msg.to \in Node
    BY Letters
  <2>2. Commit(msg.to, msg.plan) /\ msg.pc = "contact"
    BY <1>3 DEF CommitContact
  <2>3. msg.plan \in Open(msg.to)
    BY DEF Open
  <2> QED BY <2>1, <2>2, <2>3 DEF Commits, MsgOK, Unread
<1>4. ASSUME NEW msg \in inbox, CommitMerge(msg)
      PROVE  msg.to \in Node /\ Commits(msg.to, msg.plan) /\ Sober(msg.plan)
  <2>1. MsgOK(issued, table[msg.to], msg) /\ msg.to \in Node
    BY Letters
  <2>2. Commit(msg.to, msg.plan) /\ msg.pc = "merging" /\ DOMAIN msg.digest = {}
    BY <1>4 DEF CommitMerge
  <2>3. msg.plan \in Open(msg.to)
    BY DEF Open
  <2> QED BY <2>1, <2>2, <2>3 DEF Commits, MsgOK, Unread
<1>5. \/ \E n \in Node : CommitSeeds(n)
      \/ \E n \in Node : CommitReply(n) \/ CommitSuspect(n) \/ CommitAges(n)
      \/ \E msg \in inbox : CommitContact(msg) \/ CommitMerge(msg)
  BY DEF Next, ReachSeed, GiveUpSeeds, Contact, ReadRow, Reply, Lose, StartRound, Choose, Send,
         ReadReply, Fail, ReadAges, EndRound, Restart, Sleep, vars
<1>6. CASE \E n \in Node : CommitSeeds(n)
  <2>1. PICK n \in Node : CommitSeeds(n)
    BY <1>6
  <2>2. Commits(n, boot[n]) /\ Kind(n, boot[n])
    BY <2>1, <1>1 DEF Kind
  <2>3. boot[n] \in Open(n)
    BY <2>2 DEF Commits
  <2> QED BY <2>2, <2>3
<1>7. CASE \E n \in Node : CommitReply(n) \/ CommitSuspect(n) \/ CommitAges(n)
  <2>1. PICK n \in Node : CommitReply(n) \/ CommitSuspect(n) \/ CommitAges(n)
    BY <1>7
  <2>2. Commits(n, round[n].plan) /\ Kind(n, round[n].plan)
    BY <2>1, <1>2 DEF Kind
  <2>3. round[n].plan \in Open(n)
    BY <2>2 DEF Commits
  <2> QED BY <2>2, <2>3
<1>8. CASE \E msg \in inbox : CommitContact(msg) \/ CommitMerge(msg)
  <2>1. PICK msg \in inbox : CommitContact(msg) \/ CommitMerge(msg)
    BY <1>8
  <2>2. msg.to \in Node /\ Commits(msg.to, msg.plan) /\ Kind(msg.to, msg.plan)
    BY <2>1, <1>3, <1>4 DEF Kind
  <2>3. msg.plan \in Open(msg.to)
    BY <2>2 DEF Commits
  <2> QED BY <2>2, <2>3
<1> QED BY <1>5, <1>6, <1>7, <1>8

\* What a commit does to the rows of its table, and that it is one.
LEMMA CommitRows ==
  ASSUME Inv, NEW n \in Node, NEW plan, Commits(n, plan)
  PROVE  /\ \A m \in Node : m # n => table'[m] = table[m]
         /\ \A id \in DOMAIN table[n] :
              /\ id \in DOMAIN table'[n] /\ table[n][id] \in Peer
              /\ table'[n][id] # table[n][id] => id \in DOMAIN plan /\ Writes(n, id, plan)
              /\ id \in DOMAIN plan =>
                   /\ plan[id].last \in Peer /\ plan[id].new \in Peer
                   /\ plan[id].first \in Peer \union {None}
                   /\ plan[id].new.generation >= plan[id].last.generation
                   /\ table'[n][id].status = Column(table[n][id].status, plan[id].last.status,
                                                    plan[id].new.status)
                   /\ table'[n][id].generation =
                        Column(table[n][id].generation, plan[id].last.generation,
                               plan[id].new.generation)
<1> DEFINE new == Committed(table[n], plan)
<1>1. /\ plan \in Open(n) /\ PlanOK(n, issued, table[n], plan, {})
      /\ ~Clash(table[n], plan) /\ table' = [table EXCEPT ![n] = new]
  BY DEF Commits, Commit
<1>2. TabOK(n, issued, table[n]) /\ DOMAIN table = Node
  BY Parts DEF Inv, Types
<1>3. table'[n] = new /\ \A m \in Node : m # n => table'[m] = table[m]
  BY <1>1, <1>2
<1>4. PICK tab : tab = table[n]
  OBVIOUS
<1>5. /\ DOMAIN new = DOMAIN tab \union DOMAIN plan
      /\ \A id \in DOMAIN tab : id \notin DOMAIN plan => new[id] = tab[id]
  BY <1>4 DEF Committed
<1>6. \A id \in DOMAIN plan : EntryOK(n, issued, tab, id, plan[id])
  BY <1>1, <1>4 DEF PlanOK
<1>7. \A id \in DOMAIN plan : plan[id] # NotFound
  BY <1>6, EntryIs
<1>8. \A id \in DOMAIN tab : tab[id] \in Peer
  BY <1>2, <1>4 DEF TabOK, Good, Rows
<1>9. \A id \in DOMAIN tab \cap DOMAIN plan :
        /\ new[id].status = Column(tab[id].status, plan[id].last.status, plan[id].new.status)
        /\ new[id].generation = Column(tab[id].generation, plan[id].last.generation,
                                       plan[id].new.generation)
        /\ plan[id].last # None
  BY <1>1, <1>4 DEF Committed, Clash
<1> HIDE DEF new
<1>10. ASSUME NEW id \in DOMAIN tab
       PROVE  /\ id \in DOMAIN new
              /\ new[id] # tab[id] => id \in DOMAIN plan
              /\ id \in DOMAIN plan =>
                   /\ plan[id].last \in Peer /\ plan[id].new \in Peer
                   /\ plan[id].first \in Peer \union {None}
                   /\ plan[id].new.generation >= plan[id].last.generation
                   /\ Writes(n, id, plan)
  <2>1. CASE id \in DOMAIN plan
    <3>1. Writes(n, id, plan)
      BY <2>1, <1>1, <1>3, <1>7 DEF Writes, new
    <3> QED BY <2>1, <3>1, <1>5, <1>6, <1>9 DEF EntryOK
  <2>2. CASE id \notin DOMAIN plan
    BY <2>2, <1>5
  <2> QED BY <2>1, <2>2
<1> QED BY <1>3, <1>4, <1>8, <1>9, <1>10

\* A row goes back only by a commit over another one's, and not behind what
\* its session had read; none is deleted.
THEOREM AlwaysRowsGoBackByLostUpdate == Spec => RowsGoBackByLostUpdate
<1> DEFINE GoesBack(n, id) ==
             \E plan \in Open(n) :
               /\ Writes(n, id, plan)
               /\ plan[id].last # table[n][id]
               /\ table'[n][id].generation >= plan[id].last.generation
           A == \A n \in Node : \A id \in DOMAIN table[n] :
                  /\ id \in DOMAIN table'[n]
                  /\ table'[n][id].generation < table[n][id].generation => GoesBack(n, id)
<1>1. ASSUME Inv, Next, table' # table PROVE A
  <2>1. PICK n \in Node : \E plan \in Open(n) : Commits(n, plan) /\ Kind(n, plan)
    BY <1>1, TableSteps
  <2>2. PICK plan \in Open(n) : Commits(n, plan)
    BY <2>1
  <2>3. ASSUME NEW m \in Node, m # n, NEW id \in DOMAIN table[m]
        PROVE  id \in DOMAIN table'[m] /\ ~(table'[m][id].generation < table[m][id].generation)
    <3>1. table'[m] = table[m]
      BY <1>1, <2>2, <2>3, CommitRows
    <3>2. table[m][id].generation \in Nat
      BY <1>1, <2>3, Parts, PeerIs DEF Good, Rows
    <3> QED BY <3>1, <3>2
  <2>4. ASSUME NEW id \in DOMAIN table[n]
        PROVE  /\ id \in DOMAIN table'[n]
               /\ table'[n][id].generation < table[n][id].generation => GoesBack(n, id)
    <3>1. /\ id \in DOMAIN table'[n] /\ table[n][id] \in Peer
          /\ table'[n][id] # table[n][id] => id \in DOMAIN plan /\ Writes(n, id, plan)
      BY <1>1, <2>2, CommitRows
    <3>2. ASSUME table'[n][id].generation < table[n][id].generation PROVE GoesBack(n, id)
      <4>1. table[n][id].generation \in Nat
        BY <3>1, PeerIs
      <4>2. id \in DOMAIN plan /\ Writes(n, id, plan)
        BY <3>1, <3>2, <4>1
      <4>3. /\ plan[id].last \in Peer /\ plan[id].new \in Peer
            /\ plan[id].new.generation >= plan[id].last.generation
            /\ table'[n][id].generation =
                 Column(table[n][id].generation, plan[id].last.generation,
                        plan[id].new.generation)
        BY <1>1, <2>2, <4>2, CommitRows
      <4>4. plan[id].last.generation \in Nat /\ plan[id].new.generation \in Nat
        BY <4>3, PeerIs
      <4>5. /\ table'[n][id].generation = plan[id].new.generation
            /\ plan[id].last.generation < table[n][id].generation
        BY <3>2, <4>1, <4>3, <4>4 DEF Column
      <4>6. plan[id].last # table[n][id]
        BY <4>1, <4>4, <4>5
      <4>7. table'[n][id].generation >= plan[id].last.generation
        BY <4>3, <4>5
      <4> QED BY <2>2, <4>2, <4>6, <4>7
    <3> QED BY <3>1, <3>2
  <2> HIDE DEF GoesBack
  <2>5. ASSUME NEW m \in Node, NEW id \in DOMAIN table[m]
        PROVE  /\ id \in DOMAIN table'[m]
               /\ table'[m][id].generation < table[m][id].generation => GoesBack(m, id)
    BY <2>3, <2>4
  <2> QED BY <2>5
<1>2. Inv /\ [Next]_vars => [A]_vars
  <2>1. ASSUME Inv, table' = table PROVE A
    BY <2>1, Parts, PeerIs DEF Rows, Good
  <2> QED BY <1>1, <2>1
<1> QED BY <1>2, AlwaysInv, PTL DEF Spec, RowsGoBackByLostUpdate

\* How the death of a peer ends in a node's table.
THEOREM AlwaysDeathEnds == Spec => DeathEnds
<1> DEFINE Ends(n, id) ==
             \/ Contacted(n, id)
             \/ /\ table'[n][id].status = "suspect"
                /\ table'[n][id].generation > table[n][id].generation
             \/ \E plan \in Open(n) : Writes(n, id, plan) /\ plan[id].first # table[n][id]
           A == \A n \in Node : \A id \in DOMAIN table[n] :
                  table[n][id].status = "dead" /\ table'[n][id].status # "dead" => Ends(n, id)
<1>1. ASSUME Inv, Next, table' # table PROVE A
  <2>1. PICK n \in Node : \E plan \in Open(n) : Commits(n, plan) /\ Kind(n, plan)
    BY <1>1, TableSteps
  <2>2. PICK plan \in Open(n) : Commits(n, plan) /\ Kind(n, plan)
    BY <2>1
  <2>3. \A m \in Node : m # n => table'[m] = table[m]
    BY <1>1, <2>2, CommitRows
  <2>4. ASSUME NEW id \in DOMAIN table[n],
               table[n][id].status = "dead", table'[n][id].status # "dead"
        PROVE  Ends(n, id)
    <3>1. table[n][id] \in Peer /\ id \in DOMAIN plan /\ Writes(n, id, plan)
      BY <1>1, <2>2, <2>4, CommitRows
    <3>2. /\ plan[id].last \in Peer /\ plan[id].new \in Peer
          /\ plan[id].first \in Peer \union {None}
          /\ table'[n][id].status = Column(table[n][id].status, plan[id].last.status,
                                           plan[id].new.status)
          /\ table'[n][id].generation =
               Column(table[n][id].generation, plan[id].last.generation,
                      plan[id].new.generation)
      BY <1>1, <2>2, <3>1, CommitRows
    <3>3. CASE CommitSeeds(n) /\ plan = boot[n]
      BY <3>1, <3>3 DEF Contacted
    <3>4. CASE \E msg \in inbox : /\ msg.to = n /\ CommitContact(msg)
                                  /\ plan = msg.plan /\ DOMAIN plan = {Host(msg.from)}
      BY <3>1, <3>4 DEF Contacted
    <3>5. CASE Sober(plan) /\ plan[id].first # table[n][id]
      BY <2>2, <3>1, <3>5
    <3>6. CASE Sober(plan) /\ plan[id].first = table[n][id]
      <4>1. /\ SoberEntry(plan[id]) /\ plan[id].first # None
            /\ plan[id].first.status = "dead"
        BY <2>4, <3>1, <3>6, PeerIs DEF Sober
      <4>2. table'[n][id].status = plan[id].new.status
        BY <2>4, <3>2 DEF Column
      <4>3. /\ plan[id].new.status = "suspect" /\ plan[id].last = plan[id].first
            /\ plan[id].new.generation > plan[id].first.generation
        BY <2>4, <4>1, <4>2 DEF SoberEntry
      <4>4. plan[id].new.generation \in Nat /\ table[n][id].generation \in Nat
        BY <3>1, <3>2, PeerIs
      <4>5. table'[n][id].generation = plan[id].new.generation
        BY <3>2, <3>6, <4>3, <4>4 DEF Column
      <4> QED BY <3>6, <4>2, <4>3, <4>5
    <3> QED BY <2>2, <3>3, <3>4, <3>5, <3>6 DEF Kind
  <2> HIDE DEF Ends
  <2>5. ASSUME NEW m \in Node, NEW id \in DOMAIN table[m],
               table[m][id].status = "dead", table'[m][id].status # "dead"
        PROVE  Ends(m, id)
    BY <2>3, <2>4, <2>5
  <2> QED BY <2>5
<1>2. Inv /\ [Next]_vars => [A]_vars
  <2>1. ASSUME table' = table PROVE A
    BY <2>1
  <2> QED BY <1>1, <2>1
<1> QED BY <1>2, AlwaysInv, PTL DEF Spec, DeathEnds

=============================================================================
