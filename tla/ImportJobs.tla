---------------------------- MODULE ImportJobs ----------------------------
(***************************************************************************)
(* Bulk imports of asset rows on the owner's node, with idempotency keys   *)
(* and deduplication, by request handlers that run concurrently.           *)
(*                                                                         *)
(* A handler looks for a job with its idempotency key; inserts a running   *)
(* job; reads the records and decides on every row; commits the records    *)
(* together with the running job; and commits the job's report.  SQLite    *)
(* keeps the write lock of a session from its first INSERT or UPDATE to    *)
(* its commit, so what the handler reads in between stays true; but        *)
(* between its two commits it holds no lock.                               *)
(***************************************************************************)
EXTENDS Integers, Sequences, FiniteSets

CONSTANTS
  Handler,      \* the request slots of the node
  ImportKey,    \* values of the header x-idempotency-key
  NoKey,        \* a request without that header
  AssetKey,     \* what deduplication compares: manufacturer, model, serial, site
  Bad,          \* a row that cannot be mapped to an asset
  None,         \* an idle handler, a free lock, no import
  Content,      \* contents of imports: sequences of asset keys and bad rows
  MaxJobs,      \* bound: imports that insert a job
  MaxOthers     \* bound: records that are created otherwise

ASSUME ImportAssumption ==
  /\ {MaxJobs, MaxOthers} \subseteq Nat
  /\ Content \subseteq Seq(AssetKey \union {Bad})
  /\ NoKey \notin ImportKey /\ Bad \notin AssetKey /\ None \notin Handler \union Nat

VARIABLES
  records,   \* the rows of the table records: [id, key, by]
  jobs,      \* the committed rows of import_jobs: [id, key, status, dry, report]
  lock,      \* the handler whose transaction holds SQLite's write lock
  session,   \* what each handler is working on
  begun,     \* imports that have inserted a job so far
  others     \* records that were created otherwise so far

vars == <<records, jobs, lock, session, begun, others>>

-----------------------------------------------------------------------------
ImportRequest ==
  [key: ImportKey \union {NoKey}, rows: Content,
   deduplicate: BOOLEAN, dry: BOOLEAN]

\* The DAID of the record that row i of import n creates; a record created
\* otherwise has an id <<0, i>>.
Id == (0..MaxJobs) \X (Nat \ {0})

Record == [id: Id, key: AssetKey, by: (1..MaxJobs) \union {None}]

RowResult == [status: {"created", "existing", "failed"}, id: Id \union {None}]

Job == [id: 1..MaxJobs, key: ImportKey \union {NoKey},
        status: {"running", "complete"}, dry: BOOLEAN, report: Seq(RowResult) \union {None}]

\* What a handler is working on.
Session ==
  [pc: {"looked"}, request: ImportRequest]
    \union [pc: {"inserted"}, request: ImportRequest, id: 1..MaxJobs]
    \union [pc: {"planned", "stored"}, request: ImportRequest, id: 1..MaxJobs,
            report: Seq(RowResult)]

\* An idle handler is told from one at work.
ASSUME AbsenceAssumption == None \notin Session

Idle(h) == session[h] = None

At(h, pc) == ~Idle(h) /\ session[h].pc = pc

Init ==
  /\ records = {}
  /\ jobs = {}
  /\ lock = None
  /\ session = [h \in Handler |-> None]
  /\ begun = 0
  /\ others = 0

-----------------------------------------------------------------------------
\* The keyed job is looked up: 409 or the stored report answers at once.
Begin(h, request) ==
  /\ Idle(h)
  /\ begun < MaxJobs
  /\ request.key # NoKey => \A j \in jobs : j.key # request.key
  /\ session' = [session EXCEPT ![h] = [pc |-> "looked", request |-> request]]
  /\ UNCHANGED <<records, jobs, lock, begun, others>>

\* A wrong InsertJob: nothing makes the idempotency keys unique.
InsertJobAgain(h) ==
  /\ At(h, "looked")
  /\ lock = None
  /\ begun < MaxJobs
  /\ begun' = begun + 1
  /\ lock' = h
  /\ session' = [session EXCEPT ![h] =
       [pc |-> "inserted", request |-> @.request, id |-> begun + 1]]
  /\ UNCHANGED <<records, jobs, others>>

\* db.flush(): INSERT of the running job, once the lock is free.  A job that
\* was committed with the key meanwhile makes it fail.
InsertJob(h) ==
  /\ At(h, "looked")
  /\ lock = None
  /\ session[h].request.key # NoKey =>
       \A j \in jobs : j.key # session[h].request.key
  /\ begun < MaxJobs
  /\ begun' = begun + 1
  /\ lock' = h
  /\ session' = [session EXCEPT ![h] =
       [pc |-> "inserted", request |-> @.request, id |-> begun + 1]]
  /\ UNCHANGED <<records, jobs, others>>

\* Row i repeats an earlier row of its import.
Repeats(rows, i) == \E j \in 1..(i - 1) : rows[j] = rows[i]

\* The record of row i's asset that the import finds: a stored one, or that of
\* an earlier row.
FoundFor(request, n, i) ==
  {r.id : r \in {q \in records : q.key = request.rows[i]}}
    \union {<<n, j>> : j \in {k \in 1..(i - 1) :
              /\ request.rows[k] = request.rows[i]
              /\ ~Repeats(request.rows, k)
              /\ \A r \in records : r.key # request.rows[k]}}

\* A wrong Decided: a row is only compared with the stored records.
DecidedAgainstTable(request, n, i) ==
  LET stored == {r.id : r \in {q \in records : q.key = request.rows[i]}}
  IN  IF request.rows[i] = Bad THEN {[status |-> "failed", id |-> None]}
      ELSE IF request.deduplicate /\ stored # {}
        THEN [status: {"existing"}, id: stored]
        ELSE {[status |-> "created", id |-> <<n, i>>]}

\* What import n of the request may report of row i.
Decided(request, n, i) ==
  IF request.rows[i] = Bad THEN {[status |-> "failed", id |-> None]}
  ELSE IF request.deduplicate /\ FoundFor(request, n, i) # {}
    THEN [status: {"existing"}, id: FoundFor(request, n, i)]
    ELSE {[status |-> "created", id |-> <<n, i>>]}

\* The reports that import n of the request may come to: which of several
\* stored records of an asset is found depends on the order of the SELECT.
ReportsFor(request, n) ==
  LET rows == DOMAIN request.rows
      results == UNION {Decided(request, n, i) : i \in rows}
  IN  {report \in [rows -> results] : \A i \in rows : report[i] \in Decided(request, n, i)}

\* Read the records and decide on every row.
Plan(h) ==
  /\ At(h, "inserted")
  /\ \E report \in ReportsFor(session[h].request, session[h].id) :
       session' = [session EXCEPT ![h] =
         [pc |-> "planned", request |-> @.request, id |-> @.id, report |-> report]]
  /\ UNCHANGED <<records, jobs, lock, begun, others>>

\* A wrong Pending: one record per asset, though the report has several.
PendingPerAsset(h) ==
  {[id |-> <<session[h].id, i>>, key |-> session[h].request.rows[i],
    by |-> session[h].id] :
      i \in {k \in DOMAIN session[h].report :
               /\ session[h].report[k].status = "created"
               /\ ~Repeats(session[h].request.rows, k)}}

\* The new records of handler h's import.
Pending(h) ==
  {[id |-> <<session[h].id, i>>, key |-> session[h].request.rows[i],
    by |-> session[h].id] :
      i \in {k \in DOMAIN session[h].report : session[h].report[k].status = "created"}}

JobOf(h, status, report) ==
  [id |-> session[h].id, key |-> session[h].request.key, status |-> status,
   dry |-> session[h].request.dry, report |-> report]

\* A wrong CommitRecords: the job is left to the second commit.
CommitRecordsOnly(h) ==
  /\ At(h, "planned")
  /\ ~session[h].request.dry
  /\ records' = records \union Pending(h)
  /\ lock' = None
  /\ session' = [session EXCEPT ![h].pc = "stored"]
  /\ UNCHANGED <<jobs, begun, others>>

\* First commit: the records and the running job.
CommitRecords(h) ==
  /\ At(h, "planned")
  /\ ~session[h].request.dry
  /\ records' = records \union Pending(h)
  /\ jobs' = jobs \union {JobOf(h, "running", None)}
  /\ lock' = None
  /\ session' = [session EXCEPT ![h].pc = "stored"]
  /\ UNCHANGED <<begun, others>>

\* Last commit: the report.  A dry run has no other.
CommitReport(h) ==
  /\ \/ At(h, "planned") /\ session[h].request.dry
     \/ At(h, "stored") /\ lock = None
  /\ jobs' = (jobs \ {JobOf(h, "running", None)})
               \union {JobOf(h, "complete", session[h].report)}
  /\ lock' = None
  /\ session' = [session EXCEPT ![h] = None]
  /\ UNCHANGED <<records, begun, others>>

\* A wrong Abort: the transaction is left open.
AbortWithoutRollback(h) ==
  /\ ~Idle(h)
  /\ session' = [session EXCEPT ![h] = None]
  /\ UNCHANGED <<records, jobs, lock, begun, others>>

\* The request fails and rolls back what it has not committed: the content
\* does not parse or has too many rows, the key is taken by now, the database
\* stays locked.
Abort(h) ==
  /\ ~Idle(h)
  /\ lock' = IF lock = h THEN None ELSE lock
  /\ session' = [session EXCEPT ![h] = None]
  /\ UNCHANGED <<records, jobs, begun, others>>

\* The process dies and restarts with what was committed.
Crash ==
  /\ lock' = None
  /\ session' = [h \in Handler |-> None]
  /\ UNCHANGED <<records, jobs, begun, others>>

\* Another handler creates a record, or stores a replica.
CreateOther(key) ==
  /\ lock = None
  /\ others < MaxOthers
  /\ others' = others + 1
  /\ records' = records \union {[id |-> <<0, others + 1>>, key |-> key, by |-> None]}
  /\ UNCHANGED <<jobs, lock, session, begun>>

Next ==
  \/ \E h \in Handler :
       \/ \E request \in ImportRequest : Begin(h, request)
       \/ InsertJob(h)
       \/ Plan(h)
       \/ CommitRecords(h)
       \/ CommitReport(h)
       \/ Abort(h)
  \/ Crash
  \/ \E key \in AssetKey : CreateOther(key)

Spec == Init /\ [][Next]_vars

-----------------------------------------------------------------------------
(* Properties *)

\* Every variable has its type, and the lock is held by the one handler that
\* has written and not committed.
TypeOK ==
  /\ records \subseteq Record
  /\ jobs \subseteq Job
  /\ session \in [Handler -> Session \union {None}]
  /\ begun \in 0..MaxJobs
  /\ others \in 0..MaxOthers
  /\ \A h \in Handler : lock = h <=> At(h, "inserted") \/ At(h, "planned")

\* An idempotency key takes effect at most once: all records that imports with
\* one key created come from one import, though it was sent again while it ran,
\* and after it failed or the node crashed between its two commits.
OncePerKey ==
  \A i, j \in jobs : \A r, q \in records :
    /\ i.key # NoKey /\ i.key = j.key
    /\ r.by = i.id /\ q.by = j.id
    => i.id = j.id

\* Every record that an import created is accounted for by a committed job.
RecordsHaveJobs ==
  \A r \in records : r.by # None => \E j \in jobs : j.id = r.by

\* What the report of a finished import says is so: it created the records it
\* lists as created and no others, and those it found are stored.
ReportIsTrue ==
  \A j \in jobs : j.status = "complete" /\ ~j.dry =>
    LET ids(status) == {j.report[i].id : i \in
                          {k \in DOMAIN j.report : j.report[k].status = status}}
    IN  /\ ids("created") = {r.id : r \in {q \in records : q.by = j.id}}
        /\ ids("existing") \subseteq {r.id : r \in records}

\* An import that deduplicates never creates a record of an asset that has one
\* already, nor two of one asset, however imports and other writes interleave.
DeduplicationHolds ==
  [][\A h \in Handler :
       CommitRecords(h) /\ session[h].request.deduplicate =>
       \A r \in records' \ records : \A q \in records' : q.key = r.key => q = r]_vars

-----------------------------------------------------------------------------
(* What the code says of a running import and does not ensure.             *)

\* "Import with this idempotency key is still running", says the 409 that
\* answers for a job without a report: its handler is at work.
RunningIsAtWork ==
  \A j \in jobs : j.status = "running" =>
    \E h \in Handler : At(h, "stored") /\ session[h].id = j.id

=============================================================================
