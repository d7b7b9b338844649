-------------------------- MODULE ImportJobsProofs --------------------------
(***************************************************************************)
(* Proofs about ImportJobs, for every set of handlers, keys and contents,  *)
(* and every bound on the imports.                                         *)
(***************************************************************************)
EXTENDS ImportJobs, SequenceTheorems, WellFoundedInduction, TLAPS

\* Handler h has taken an id for its import.
Working(h) == ~Idle(h) /\ session[h].pc # "looked"

\* It has written and not committed.
Writing(h) == At(h, "inserted") \/ At(h, "planned")

Ids(report, status) ==
  {report[i].id : i \in {k \in DOMAIN report : report[k].status = status}}

\* The records of import n are those its report lists as created, and those it
\* lists as existing are stored.
Accounts(n, report) ==
  /\ Ids(report, "created") = {r.id : r \in {q \in records : q.by = n}}
  /\ Ids(report, "existing") \subseteq {r.id : r \in records}

\* Imports have ids of their own.
IdsTaken ==
  /\ \A h \in Handler : Working(h) => session[h].id <= begun
  /\ \A h, g \in Handler :
       Working(h) /\ Working(g) /\ session[h].id = session[g].id => h = g
  /\ \A j \in jobs : j.id <= begun
  /\ \A r \in records : r.by # None => r.by <= begun

\* What a handler with the write lock has seen is still so: no job has its id
\* or its key, and the records are those its report was decided from.
LockOK(h) ==
  /\ Writing(h) =>
       /\ \A j \in jobs :
            /\ j.id # session[h].id
            /\ session[h].request.key # NoKey => j.key # session[h].request.key
       /\ \A r \in records : r.by # session[h].id
  /\ At(h, "planned") =>
       /\ DOMAIN session[h].report = DOMAIN session[h].request.rows
       /\ \A i \in DOMAIN session[h].report :
            session[h].report[i] \in Decided(session[h].request, session[h].id, i)

\* Between its two commits a handler has its running job, and its report is true.
StoredOK(h) ==
  At(h, "stored") =>
    /\ ~session[h].request.dry
    /\ JobOf(h, "running", None) \in jobs
    /\ Accounts(session[h].id, session[h].report)

\* Two jobs with one key are one import's.
KeysUnique ==
  \A i, j \in jobs : i.key # NoKey /\ i.key = j.key => i.id = j.id

JobsOK ==
  /\ KeysUnique
  /\ RecordsHaveJobs
  /\ \A j \in jobs : j.status = "complete" /\ ~j.dry => Accounts(j.id, j.report)

Inv == TypeOK /\ IdsTaken /\ (\A h \in Handler : LockOK(h) /\ StoredOK(h)) /\ JobsOK

-----------------------------------------------------------------------------
(* Sessions. *)

\* What a session is in each of its stages.
LEMMA SessionStages ==
  ASSUME TypeOK, NEW h \in Handler
  PROVE  /\ At(h, "looked") => \E request \in ImportRequest :
              session[h] = [pc |-> "looked", request |-> request]
         /\ At(h, "inserted") => \E request \in ImportRequest, n \in 1..MaxJobs :
              session[h] = [pc |-> "inserted", request |-> request, id |-> n]
         /\ \A pc \in {"planned", "stored"} : At(h, pc) =>
              \E request \in ImportRequest, n \in 1..MaxJobs, report \in Seq(RowResult) :
                session[h] = [pc |-> pc, request |-> request, id |-> n, report |-> report]
         /\ Working(h) <=> Writing(h) \/ At(h, "stored")
BY DEF TypeOK, Session, At, Idle, Working, Writing

\* An import that has begun has an id.
LEMMA WorkingHasId ==
  ASSUME TypeOK, NEW h \in Handler, Working(h)
  PROVE  session[h].id \in 1..MaxJobs
BY AbsenceAssumption DEF TypeOK, Session, Working, Idle

\* The decision on a row depends on the records alone.
LEMMA DecidedSame ==
  ASSUME records' = records, NEW request, NEW n, NEW i
  PROVE  Decided(request, n, i)' = Decided(request, n, i)
BY DEF Decided, FoundFor

\* So is what a report accounts for.
LEMMA AccountsSame ==
  ASSUME records' = records, NEW n, NEW report
  PROVE  Accounts(n, report)' <=> Accounts(n, report)
BY DEF Accounts

\* It stays true when records of other imports are added.
LEMMA AccountsGrows ==
  ASSUME NEW n, NEW report, Accounts(n, report), records \subseteq records',
         \A r \in records' \ records : r.by # n
  PROVE  Accounts(n, report)'
<1>1. {q \in records' : q.by = n} = {q \in records : q.by = n}
  OBVIOUS
<1>2. {r.id : r \in records} \subseteq {r.id : r \in records'}
  OBVIOUS
<1> QED BY <1>1, <1>2 DEF Accounts

\* A handler between its commits stays right while nothing is stored.
LEMMA StoredSame ==
  ASSUME records' = records, jobs' = jobs, NEW h \in Handler, session'[h] = session[h],
         StoredOK(h)
  PROVE  StoredOK(h)'
<1>1. JobOf(h, "running", None)' = JobOf(h, "running", None)
  BY DEF JobOf
<1>2. Accounts(session[h].id, session[h].report)'
        <=> Accounts(session[h].id, session[h].report)
  <2>1. PICK n, report : n = session[h].id /\ report = session[h].report
    OBVIOUS
  <2>2. n = session'[h].id /\ report = session'[h].report
    BY <2>1
  <2> QED BY <2>1, <2>2, AccountsSame
<1>3. At(h, "stored")' <=> At(h, "stored")
  BY DEF At, Idle
<1> QED BY <1>1, <1>2, <1>3 DEF StoredOK

\* No handler is at work and no job or record is there.
LEMMA InitInv == Init => Inv
<1> SUFFICES ASSUME Init PROVE Inv
  OBVIOUS
<1>1. \A h \in Handler : session[h] = None
  BY DEF Init
<1>2. TypeOK
  BY <1>1, ImportAssumption DEF Init, TypeOK, At, Idle
<1>3. IdsTaken /\ JobsOK
  BY <1>1 DEF Init, IdsTaken, Working, Idle, JobsOK, KeysUnique, RecordsHaveJobs
<1>4. \A h \in Handler : LockOK(h) /\ StoredOK(h)
  BY <1>1 DEF LockOK, StoredOK, Writing, At, Idle
<1> QED BY <1>2, <1>3, <1>4 DEF Inv

\* Steps after which sessions have ended or are about to begin, and nothing is
\* stored.
LEMMA SessionStepKeeps ==
  ASSUME Inv, TypeOK', records' = records, jobs' = jobs, begun' = begun,
         \A h \in Handler : session'[h] = session[h] \/ ~Working(h)'
  PROVE  Inv'
<1>1. IdsTaken'
  BY DEF Inv, IdsTaken, Working, Idle
<1>2. ASSUME NEW h \in Handler
      PROVE  LockOK(h)' /\ StoredOK(h)'
  <2>1. CASE ~Working(h)'
    BY <2>1 DEF LockOK, StoredOK, Writing, At, Idle, Working
  <2>2. CASE session'[h] = session[h]
    <3>1. LockOK(h) /\ StoredOK(h)
      BY DEF Inv
    <3>2. LockOK(h)'
      BY <2>2, <3>1, DecidedSame DEF LockOK, Writing, At, Idle
    <3>3. StoredOK(h)'
      BY <2>2, <3>1, StoredSame
    <3> QED BY <3>2, <3>3
  <2> QED BY <2>1, <2>2
<1>3. JobsOK'
  BY DEF Inv, JobsOK, KeysUnique, RecordsHaveJobs, Accounts, Ids
<1> QED BY <1>1, <1>2, <1>3 DEF Inv

\* A handler that has looked up its key holds no lock and has planned nothing.
LEMMA BeginKeeps ==
  ASSUME Inv, NEW h \in Handler, NEW request \in ImportRequest, Begin(h, request)
  PROVE  Inv'
<1>1. PICK entry : entry = [pc |-> "looked", request |-> request]
  OBVIOUS
<1>2. entry \in Session /\ entry.pc = "looked"
  BY <1>1 DEF Session
<1>3. /\ session' = [session EXCEPT ![h] = entry] /\ session[h] = None
      /\ UNCHANGED <<records, jobs, lock, begun, others>>
  BY <1>1 DEF Begin, Idle
<1>4. \A g \in Handler : session'[g] = IF g = h THEN entry ELSE session[g]
  BY <1>3 DEF Inv, TypeOK
<1>5. TypeOK'
  <2>1. session' \in [Handler -> Session \union {None}]
    BY <1>2, <1>3 DEF Inv, TypeOK
  <2>2. \A g \in Handler : lock' = g <=> (At(g, "inserted") \/ At(g, "planned"))'
    BY <1>2, <1>3, <1>4 DEF Inv, TypeOK, At, Idle
  <2> QED BY <1>3, <2>1, <2>2 DEF Inv, TypeOK
<1>6. \A g \in Handler : session'[g] = session[g] \/ ~Working(g)'
  BY <1>2, <1>4 DEF Working
<1> QED BY <1>3, <1>5, <1>6, SessionStepKeeps

\* An import that fails before its commit leaves records and jobs as they were.
LEMMA AbortKeeps ==
  ASSUME Inv, NEW h \in Handler, Abort(h)
  PROVE  Inv'
<1>1. /\ session' = [session EXCEPT ![h] = None]
      /\ lock' = IF lock = h THEN None ELSE lock
      /\ UNCHANGED <<records, jobs, begun, others>>
  BY DEF Abort
<1>2. \A g \in Handler : session'[g] = IF g = h THEN None ELSE session[g]
  BY <1>1 DEF Inv, TypeOK
<1>3. TypeOK'
  <2>1. session' \in [Handler -> Session \union {None}]
    BY <1>1 DEF Inv, TypeOK
  <2>2. \A g \in Handler : lock' = g <=> (At(g, "inserted") \/ At(g, "planned"))'
    BY <1>1, <1>2, ImportAssumption DEF Inv, TypeOK, At, Idle
  <2> QED BY <1>1, <2>1, <2>2 DEF Inv, TypeOK
<1>4. \A g \in Handler : session'[g] = session[g] \/ ~Working(g)'
  BY <1>2 DEF Working, Idle
<1> QED BY <1>1, <1>3, <1>4, SessionStepKeeps

\* A crash leaves no session; what was committed stays.
LEMMA CrashKeeps ==
  ASSUME Inv, Crash
  PROVE  Inv'
<1>1. \A g \in Handler : session'[g] = None
  BY DEF Crash
<1>2. TypeOK'
  BY <1>1, ImportAssumption DEF Crash, Inv, TypeOK, At, Idle
<1>3. \A g \in Handler : ~Working(g)'
  BY <1>1 DEF Working, Idle
<1> QED BY <1>2, <1>3, SessionStepKeeps DEF Crash

\* The running job is inserted with a new id, and no committed job has its key.
LEMMA InsertJobKeeps ==
  ASSUME Inv, NEW h \in Handler, InsertJob(h)
  PROVE  Inv'
<1>1. PICK request \in ImportRequest : session[h] = [pc |-> "looked", request |-> request]
  BY SessionStages DEF InsertJob, Inv
<1>2. begun \in Nat /\ MaxJobs \in Nat /\ begun < MaxJobs /\ begun + 1 \in 1..MaxJobs
  BY ImportAssumption DEF InsertJob, Inv, TypeOK
<1>3. PICK entry : entry = [pc |-> "inserted", request |-> request, id |-> begun + 1]
  OBVIOUS
<1>4. entry \in Session
  BY <1>2, <1>3 DEF Session
<1>5. /\ session' = [session EXCEPT ![h] = entry] /\ lock = None /\ lock' = h
      /\ begun' = begun + 1 /\ records' = records /\ jobs' = jobs /\ others' = others
      /\ request.key # NoKey => \A j \in jobs : j.key # request.key
  BY <1>1, <1>3 DEF InsertJob
<1>6. \A g \in Handler : session'[g] = IF g = h THEN entry ELSE session[g]
  BY <1>5 DEF Inv, TypeOK
<1>7. \A g \in Handler : ~Writing(g)
  BY <1>5, ImportAssumption DEF Inv, TypeOK, Writing
<1>8. entry # None
  BY <1>4, AbsenceAssumption
<1>9. \A g \in Handler : Writing(g)' <=> g = h
  BY <1>3, <1>6, <1>7, <1>8 DEF Writing, At, Idle
<1>10. TypeOK'
  <2>1. session' \in [Handler -> Session \union {None}]
    BY <1>4, <1>5 DEF Inv, TypeOK
  <2>2. \A g \in Handler : lock' = g <=> (At(g, "inserted") \/ At(g, "planned"))'
    BY <1>5, <1>9 DEF Writing
  <2> QED BY <1>2, <1>5, <2>1, <2>2 DEF Inv, TypeOK
<1>11. \A r \in records : r.by # None => r.by \in 1..MaxJobs
  BY DEF Inv, TypeOK, Record
<1>12. \A j \in jobs : j.id \in 1..MaxJobs
  BY DEF Inv, TypeOK, Job
<1>13. IdsTaken'
  <2>1. \A g \in Handler : Working(g) => session[g].id \in 1..MaxJobs
    BY WorkingHasId DEF Inv
  <2>2. \A g \in Handler : Working(g)' => g = h \/ (Working(g) /\ session'[g] = session[g])
    BY <1>6 DEF Working, Idle
  <2>3. session'[h].id = begun + 1
    BY <1>3, <1>6
  <2>4. \A g \in Handler : Working(g)' => session'[g].id <= begun'
    BY <1>2, <1>5, <2>1, <2>2, <2>3 DEF Inv, IdsTaken
  <2>5. \A g, k \in Handler :
          Working(g)' /\ Working(k)' /\ session'[g].id = session'[k].id => g = k
    BY <1>2, <1>5, <2>1, <2>2, <2>3 DEF Inv, IdsTaken
  <2>6. /\ \A j \in jobs' : j.id <= begun'
        /\ \A r \in records' : r.by # None => r.by <= begun'
    BY <1>2, <1>5, <1>11, <1>12 DEF Inv, IdsTaken
  <2> QED BY <2>4, <2>5, <2>6 DEF IdsTaken
<1>14. ASSUME NEW g \in Handler
       PROVE  LockOK(g)' /\ StoredOK(g)'
  <2>1. CASE g = h
    <3>1. session'[g].id = begun + 1 /\ session'[g].request = request
      BY <1>3, <1>6, <2>1
    <3>2. session'[g].pc = "inserted"
      BY <1>3, <1>6, <2>1
    <3>3. \A j \in jobs' : j.id # session'[g].id
      BY <1>2, <1>5, <1>12, <3>1 DEF Inv, IdsTaken
    <3>4. \A r \in records' : r.by # session'[g].id
      BY <1>2, <1>5, <1>11, <3>1, ImportAssumption DEF Inv, IdsTaken
    <3> QED BY <1>5, <3>1, <3>2, <3>3, <3>4 DEF LockOK, StoredOK, Writing, At
  <2>2. CASE g # h
    <3>1. ~Writing(g)'
      BY <1>9, <2>2
    <3>2. session'[g] = session[g] /\ StoredOK(g)
      BY <1>6, <2>2 DEF Inv
    <3>3. StoredOK(g)'
      BY <1>5, <3>2, StoredSame
    <3> QED BY <3>1, <3>3 DEF LockOK, Writing
  <2> QED BY <2>1, <2>2
<1>15. JobsOK'
  BY <1>5 DEF Inv, JobsOK, KeysUnique, RecordsHaveJobs, Accounts, Ids
<1> QED BY <1>10, <1>13, <1>14, <1>15 DEF Inv

-----------------------------------------------------------------------------
(* What is decided on a row. *)

\* The rows of a request are a sequence of keys and bad rows.
LEMMA RowsOfRequest ==
  ASSUME NEW request \in ImportRequest
  PROVE  /\ Len(request.rows) \in Nat /\ DOMAIN request.rows = 1..Len(request.rows)
         /\ \A i \in DOMAIN request.rows : request.rows[i] \in AssetKey \union {Bad}
BY ImportAssumption DEF ImportRequest

\* A row is reported bad, found, or created with an id of its own; what it is
\* found as is stored or is what an earlier row of the import creates.
LEMMA DecidedCases ==
  ASSUME NEW request \in ImportRequest, NEW n \in 1..MaxJobs, NEW i \in DOMAIN request.rows,
         NEW result \in Decided(request, n, i), records \subseteq Record
  PROVE  /\ result \in RowResult
         /\ result.status = "created" =>
              /\ result.id = <<n, i>> /\ request.rows[i] \in AssetKey
              /\ request.deduplicate => FoundFor(request, n, i) = {}
         /\ result.status = "existing" =>
              request.deduplicate /\ request.rows[i] # Bad
                /\ result.id \in FoundFor(request, n, i)
<1>1. i \in Nat \ {0} /\ request.rows[i] \in AssetKey \union {Bad}
  BY RowsOfRequest
<1>2. <<n, i>> \in Id
  BY <1>1, ImportAssumption DEF Id
<1>3. FoundFor(request, n, i) \subseteq Id
  <2>1. {r.id : r \in {q \in records : q.key = request.rows[i]}} \subseteq Id
    BY DEF Record
  <2>2. \A j \in 1..(i - 1) : <<n, j>> \in Id
    BY <1>1, ImportAssumption DEF Id
  <2> QED BY <2>1, <2>2 DEF FoundFor
<1>4. CASE request.rows[i] = Bad
  BY <1>4 DEF Decided, RowResult
<1>5. CASE request.rows[i] # Bad /\ request.deduplicate /\ FoundFor(request, n, i) # {}
  <2>1. result \in [status: {"existing"}, id: FoundFor(request, n, i)]
    BY <1>5 DEF Decided
  <2> QED BY <1>3, <1>5, <2>1 DEF RowResult
<1>6. CASE request.rows[i] # Bad /\ ~(request.deduplicate /\ FoundFor(request, n, i) # {})
  <2>1. result = [status |-> "created", id |-> <<n, i>>]
    BY <1>6 DEF Decided
  <2> QED BY <1>1, <1>2, <1>6, <2>1 DEF RowResult
<1> QED BY <1>4, <1>5, <1>6

\* A report has a result for every row.
LEMMA ReportOfRows ==
  ASSUME NEW request \in ImportRequest, NEW n \in 1..MaxJobs,
         NEW report \in ReportsFor(request, n), records \subseteq Record
  PROVE  /\ report \in Seq(RowResult) /\ DOMAIN report = DOMAIN request.rows
         /\ \A i \in DOMAIN request.rows : report[i] \in Decided(request, n, i)
<1> DEFINE results == UNION {Decided(request, n, i) : i \in DOMAIN request.rows}
<1>1. /\ report \in [DOMAIN request.rows -> results]
      /\ \A i \in DOMAIN request.rows : report[i] \in Decided(request, n, i)
  BY DEF ReportsFor
<1>2. \A i \in DOMAIN request.rows : report[i] \in RowResult
  BY <1>1, DecidedCases
<1>3. PICK len \in Nat : DOMAIN request.rows = 1..len
  BY RowsOfRequest
<1> HIDE DEF results
<1>4. report \in [1..len -> RowResult]
  BY <1>1, <1>2, <1>3
<1> QED BY <1>1, <1>3, <1>4, SeqDef

-----------------------------------------------------------------------------
(* Steps with the write lock. *)

\* Who else works keeps what it had when the lock is one handler's.
LEMMA OthersKeep ==
  ASSUME Inv, NEW h \in Handler, NEW g \in Handler, g # h, session'[g] = session[g],
         lock \in {h, None}, records \subseteq records',
         \A r \in records' \ records : Working(g) => r.by # session[g].id,
         \A j \in jobs : Working(g) /\ j.id = session[g].id => j \in jobs'
  PROVE  LockOK(g)' /\ StoredOK(g)'
<1>1. ~Writing(g)
  BY ImportAssumption DEF Inv, TypeOK, Writing
<1>2. ~Writing(g)'
  BY <1>1 DEF Writing, At, Idle
<1>3. LockOK(g)'
  BY <1>2 DEF LockOK, Writing
<1>4. ASSUME At(g, "stored")
      PROVE  StoredOK(g)'
  <2>1. /\ ~session[g].request.dry /\ JobOf(g, "running", None) \in jobs
        /\ Accounts(session[g].id, session[g].report) /\ Working(g)
    BY <1>4 DEF Inv, StoredOK, Working, At
  <2>2. JobOf(g, "running", None)' = JobOf(g, "running", None)
    BY DEF JobOf
  <2>3. JobOf(g, "running", None).id = session[g].id
    BY DEF JobOf
  <2>4. PICK n, report : n = session[g].id /\ report = session[g].report
    OBVIOUS
  <2>5. Accounts(n, report)'
    BY <2>1, <2>4, AccountsGrows
  <2> QED BY <2>1, <2>2, <2>3, <2>4, <2>5 DEF StoredOK
<1>5. At(g, "stored")' <=> At(g, "stored")
  BY DEF At, Idle
<1> QED BY <1>3, <1>4, <1>5 DEF StoredOK

\* The records are read and every row decided on, with the write lock held.
LEMMA PlanKeeps ==
  ASSUME Inv, NEW h \in Handler, Plan(h)
  PROVE  Inv'
<1>1. PICK request \in ImportRequest, n \in 1..MaxJobs :
        session[h] = [pc |-> "inserted", request |-> request, id |-> n]
  BY SessionStages DEF Plan, Inv
<1>2. PICK report \in ReportsFor(request, n) :
        session' = [session EXCEPT ![h] =
          [pc |-> "planned", request |-> request, id |-> n, report |-> report]]
  <2>1. session[h].request = request /\ session[h].id = n
    BY <1>1
  <2> QED BY <2>1 DEF Plan
<1>3. PICK entry : entry = [pc |-> "planned", request |-> request, id |-> n, report |-> report]
  OBVIOUS
<1>4. /\ report \in Seq(RowResult) /\ DOMAIN report = DOMAIN request.rows
      /\ \A i \in DOMAIN request.rows : report[i] \in Decided(request, n, i)
  BY ReportOfRows DEF Inv, TypeOK
<1>5. entry \in Session
  BY <1>3, <1>4 DEF Session
<1>6. entry # None
  BY <1>5, AbsenceAssumption
<1>7. /\ records' = records /\ jobs' = jobs /\ lock' = lock /\ begun' = begun
      /\ others' = others
  BY DEF Plan
<1>8. \A g \in Handler : session'[g] = IF g = h THEN entry ELSE session[g]
  BY <1>2, <1>3 DEF Inv, TypeOK
<1>9. Writing(h) /\ Writing(h)' /\ Working(h) /\ lock = h
  BY <1>1, <1>3, <1>6, <1>8 DEF Plan, Inv, TypeOK, Writing, At, Idle, Working
<1>10. TypeOK'
  <2>1. session' \in [Handler -> Session \union {None}]
    BY <1>2, <1>3, <1>5 DEF Inv, TypeOK
  <2>2. \A g \in Handler : lock' = g <=> Writing(g)'
    BY <1>7, <1>8, <1>9 DEF Inv, TypeOK, Writing, At, Idle
  <2> QED BY <1>7, <2>1, <2>2 DEF Inv, TypeOK, Writing
<1>11. IdsTaken'
  <2>1. session'[h].id = session[h].id
    BY <1>1, <1>3, <1>8
  <2>2. \A g \in Handler : session'[g].id = session[g].id /\ (Working(g)' <=> Working(g))
    BY <1>3, <1>6, <1>8, <1>9, <2>1 DEF Working, Idle
  <2> QED BY <1>7, <2>2 DEF Inv, IdsTaken
<1>12. LockOK(h)' /\ StoredOK(h)'
  <2>1. LockOK(h)
    BY DEF Inv
  <2>2. /\ session'[h].id = n /\ session'[h].request = request /\ session'[h].report = report
        /\ session'[h].pc = "planned"
    BY <1>3, <1>8
  <2>3. \A i \in DOMAIN report : report[i] \in Decided(request, n, i)'
    BY <1>4, <1>7, DecidedSame
  <2>4. /\ \A j \in jobs' : j.id # n /\ (request.key # NoKey => j.key # request.key)
        /\ \A r \in records' : r.by # n
    BY <1>1, <1>7, <1>9, <2>1 DEF LockOK
  <2>5. ~At(h, "stored")'
    BY <2>2 DEF At
  <2> QED BY <1>4, <2>2, <2>3, <2>4, <2>5 DEF LockOK, StoredOK
<1>13. \A g \in Handler : LockOK(g)' /\ StoredOK(g)'
  BY <1>7, <1>8, <1>9, <1>12, OthersKeep
<1>14. JobsOK'
  BY <1>7 DEF Inv, JobsOK, KeysUnique, RecordsHaveJobs, Accounts, Ids
<1> QED BY <1>10, <1>11, <1>13, <1>14 DEF Inv

\* Records of none of the imports are added.
LEMMA CreateOtherKeeps ==
  ASSUME Inv, NEW key \in AssetKey, CreateOther(key)
  PROVE  Inv'
<1>1. PICK record : record = [id |-> <<0, others + 1>>, key |-> key, by |-> None]
  OBVIOUS
<1>2. /\ records' = records \union {record} /\ others' = others + 1
      /\ others < MaxOthers /\ lock = None
      /\ UNCHANGED <<jobs, lock, session, begun>>
  BY <1>1 DEF CreateOther
<1>3. record \in Record /\ record.by = None /\ others + 1 \in 0..MaxOthers
  BY <1>1, <1>2, ImportAssumption DEF Inv, TypeOK, Record, Id
<1>4. TypeOK'
  BY <1>2, <1>3 DEF Inv, TypeOK, At, Idle
<1>5. IdsTaken'
  BY <1>2, <1>3 DEF Inv, IdsTaken, Working, Idle
<1>6. None \notin 1..MaxJobs
  BY ImportAssumption
<1>7. ASSUME NEW g \in Handler
      PROVE  LockOK(g)' /\ StoredOK(g)'
  <2>1. ~Writing(g)
    BY <1>2, ImportAssumption DEF Inv, TypeOK, Writing
  <2>2. ~Writing(g)'
    BY <1>2, <2>1 DEF Writing, At, Idle
  <2>3. LockOK(g)'
    BY <2>2 DEF LockOK, Writing
  <2>4. ASSUME At(g, "stored")
        PROVE  StoredOK(g)'
    <3>1. /\ ~session[g].request.dry /\ JobOf(g, "running", None) \in jobs
          /\ Accounts(session[g].id, session[g].report) /\ Working(g)
      BY <2>4 DEF Inv, StoredOK, Working, At
    <3>2. PICK n, report : n = session[g].id /\ report = session[g].report
      OBVIOUS
    <3>3. n # None
      BY <1>6, <3>1, <3>2, WorkingHasId DEF Inv
    <3>4. Accounts(n, report)'
      BY <1>2, <1>3, <3>1, <3>2, <3>3, AccountsGrows
    <3>5. session' = session /\ JobOf(g, "running", None)' = JobOf(g, "running", None)
      BY <1>2 DEF JobOf
    <3> QED BY <1>2, <3>1, <3>2, <3>4, <3>5 DEF StoredOK
  <2>5. At(g, "stored")' <=> At(g, "stored")
    BY <1>2 DEF At, Idle
  <2> QED BY <2>3, <2>4, <2>5 DEF StoredOK
<1>8. JobsOK'
  <2>1. ASSUME NEW j \in jobs, j.status = "complete", ~j.dry
        PROVE  Accounts(j.id, j.report)'
    <3>1. j.id # None
      BY <1>6 DEF Inv, TypeOK, Job
    <3>2. PICK n, report : n = j.id /\ report = j.report
      OBVIOUS
    <3>3. Accounts(n, report)'
      BY <1>2, <1>3, <2>1, <3>1, <3>2, AccountsGrows DEF Inv, JobsOK
    <3> QED BY <3>2, <3>3
  <2> QED BY <1>2, <1>3, <2>1 DEF Inv, JobsOK, KeysUnique, RecordsHaveJobs
<1> QED BY <1>4, <1>5, <1>7, <1>8 DEF Inv

\* What a handler is about to commit: it has the write lock, an id that no job
\* and no record has, and a decision on every row.
AboutToCommit(h, request, n, report) ==
  /\ session[h] = [pc |-> "planned", request |-> request, id |-> n,
                   report |-> report]
  /\ lock = h /\ Working(h)
  /\ \A g \in Handler : Writing(g) => g = h
  /\ \A g \in Handler : Working(g) /\ session[g].id = n => g = h
  /\ \A j \in jobs : j.id # n /\ (request.key # NoKey => j.key # request.key)
  /\ \A r \in records : r.by # n
  /\ n <= begun
  /\ DOMAIN report = DOMAIN request.rows
  /\ \A i \in DOMAIN report : report[i] \in Decided(request, n, i)

\* So it is with every handler that has planned its import.
LEMMA Planned ==
  ASSUME Inv, NEW h \in Handler, At(h, "planned")
  PROVE  \E request \in ImportRequest, n \in 1..MaxJobs, report \in Seq(RowResult) :
           AboutToCommit(h, request, n, report)
<1>1. PICK request \in ImportRequest, n \in 1..MaxJobs, report \in Seq(RowResult) :
        session[h] = [pc |-> "planned", request |-> request, id |-> n, report |-> report]
  BY SessionStages DEF Inv
<1>2. session[h].request = request /\ session[h].id = n /\ session[h].report = report
  BY <1>1
<1>3. Writing(h) /\ Working(h)
  BY DEF Writing, Working, At
<1>4. lock = h /\ \A g \in Handler : Writing(g) => g = h
  BY <1>3 DEF Inv, TypeOK, Writing
<1>5. /\ \A j \in jobs : j.id # n /\ (request.key # NoKey => j.key # request.key)
      /\ \A r \in records : r.by # n
      /\ DOMAIN report = DOMAIN request.rows
      /\ \A i \in DOMAIN report : report[i] \in Decided(request, n, i)
  BY <1>2, <1>3 DEF Inv, LockOK
<1>6. n <= begun /\ \A g \in Handler : Working(g) /\ session[g].id = n => g = h
  BY <1>2, <1>3 DEF Inv, IdsTaken
<1> QED BY <1>1, <1>3, <1>4, <1>5, <1>6 DEF AboutToCommit

\* The records of import n of a request, given its report.
NewRecords(request, n, report) ==
  {[id |-> <<n, i>>, key |-> request.rows[i], by |-> n] :
     i \in {k \in DOMAIN report : report[k].status = "created"}}

\* Once they are stored, the report accounts for them: what it lists as
\* existing was stored before or comes from an earlier row, which is the first
\* of its asset and therefore creates the record.
LEMMA CommitAccounts ==
  ASSUME NEW request \in ImportRequest, NEW n \in 1..MaxJobs, NEW report \in Seq(RowResult),
         records \subseteq Record, \A r \in records : r.by # n,
         DOMAIN report = DOMAIN request.rows,
         \A i \in DOMAIN report : report[i] \in Decided(request, n, i),
         records' = records \union NewRecords(request, n, report)
  PROVE  /\ NewRecords(request, n, report) \subseteq Record
         /\ \A r \in NewRecords(request, n, report) : r.by = n
         /\ Accounts(n, report)'
<1> DEFINE created == {k \in DOMAIN report : report[k].status = "created"}
           new == NewRecords(request, n, report)
<1>1. \A i \in created : /\ report[i].id = <<n, i>> /\ request.rows[i] \in AssetKey
                         /\ <<n, i>> \in Id
  <2> SUFFICES ASSUME NEW i \in created
               PROVE  /\ report[i].id = <<n, i>> /\ request.rows[i] \in AssetKey
                      /\ <<n, i>> \in Id
    OBVIOUS
  <2>1. i \in Nat \ {0}
    BY RowsOfRequest
  <2>2. <<n, i>> \in Id
    BY <2>1, ImportAssumption DEF Id
  <2> QED BY <2>2, DecidedCases
<1>2. new \subseteq Record
  BY <1>1 DEF NewRecords, Record
<1>3. \A r \in new : r.by = n
  BY DEF NewRecords
<1>4. Ids(report, "created") = {<<n, i>> : i \in created}
  BY <1>1 DEF Ids
<1>5. {r.id : r \in {q \in records' : q.by = n}} = {<<n, i>> : i \in created}
  <2>1. {q \in records' : q.by = n} = new
    BY <1>3
  <2>2. {r.id : r \in new} = {<<n, i>> : i \in created}
    <3>1. \A r \in new : \E i \in created : r.id = <<n, i>>
      BY DEF NewRecords
    <3>2. \A i \in created : \E r \in new : r.id = <<n, i>>
      <4> SUFFICES ASSUME NEW i \in created PROVE \E r \in new : r.id = <<n, i>>
        OBVIOUS
      <4>1. [id |-> <<n, i>>, key |-> request.rows[i], by |-> n] \in new
        BY DEF NewRecords
      <4> QED BY <4>1
    <3> HIDE DEF new, created
    <3> QED BY <3>1, <3>2
  <2> QED BY <2>1, <2>2
<1>6. ASSUME NEW i \in DOMAIN report, report[i].status = "existing"
      PROVE  report[i].id \in {r.id : r \in records'}
  <2>1. /\ request.deduplicate /\ request.rows[i] # Bad
        /\ report[i].id \in FoundFor(request, n, i)
    BY <1>6, DecidedCases
  <2>2. CASE report[i].id \in {r.id : r \in {q \in records : q.key = request.rows[i]}}
    BY <2>2
  <2>3. CASE report[i].id \in {<<n, j>> : j \in {k \in 1..(i - 1) :
                                 /\ request.rows[k] = request.rows[i]
                                 /\ ~Repeats(request.rows, k)
                                 /\ \A r \in records : r.key # request.rows[k]}}
    <3>1. PICK j \in 1..(i - 1) : /\ report[i].id = <<n, j>>
                                  /\ request.rows[j] = request.rows[i]
                                  /\ ~Repeats(request.rows, j)
                                  /\ \A r \in records : r.key # request.rows[j]
      BY <2>3
    <3>2. j \in DOMAIN report
      BY <3>1, RowsOfRequest
    <3>3. FoundFor(request, n, j) = {}
      <4>1. {r.id : r \in {q \in records : q.key = request.rows[j]}} = {}
        BY <3>1
      <4>2. \A k \in 1..(j - 1) : request.rows[k] # request.rows[j]
        BY <3>1 DEF Repeats
      <4> QED BY <4>1, <4>2 DEF FoundFor
    <3>4. report[j] = [status |-> "created", id |-> <<n, j>>]
      BY <2>1, <3>1, <3>2, <3>3 DEF Decided
    <3>5. j \in created
      BY <3>2, <3>4
    <3>6. [id |-> <<n, j>>, key |-> request.rows[j], by |-> n] \in new
      BY <3>5 DEF NewRecords
    <3>7. new \subseteq records'
      OBVIOUS
    <3> HIDE DEF new
    <3>8. \E r \in records' : r.id = <<n, j>>
      BY <3>6, <3>7
    <3> QED BY <3>1, <3>8
  <2> QED BY <2>1, <2>2, <2>3 DEF FoundFor
<1>7. Ids(report, "existing") \subseteq {r.id : r \in records'}
  BY <1>6 DEF Ids
<1> QED BY <1>2, <1>3, <1>4, <1>5, <1>7 DEF Accounts

\* The records and the running job are committed together, and the lock is free.
LEMMA CommitRecordsKeeps ==
  ASSUME Inv, NEW h \in Handler, CommitRecords(h)
  PROVE  Inv'
<1> PICK request \in ImportRequest, n \in 1..MaxJobs, report \in Seq(RowResult) :
        AboutToCommit(h, request, n, report)
  BY Planned DEF CommitRecords
<1>1. /\ session[h] = [pc |-> "planned", request |-> request, id |-> n, report |-> report]
      /\ lock = h /\ Working(h)
      /\ \A g \in Handler : Writing(g) => g = h
      /\ \A g \in Handler : Working(g) /\ session[g].id = n => g = h
      /\ \A j \in jobs : j.id # n /\ (request.key # NoKey => j.key # request.key)
      /\ \A r \in records : r.by # n
      /\ n <= begun
      /\ DOMAIN report = DOMAIN request.rows
      /\ \A i \in DOMAIN report : report[i] \in Decided(request, n, i)
  BY DEF AboutToCommit
<1>2. PICK job : job = [id |-> n, key |-> request.key, status |-> "running",
                        dry |-> request.dry, report |-> None]
  OBVIOUS
<1>3. PICK entry : entry = [pc |-> "stored", request |-> request, id |-> n, report |-> report]
  OBVIOUS
<1>4. /\ session[h].request = request /\ session[h].id = n /\ session[h].report = report
      /\ [session[h] EXCEPT !.pc = "stored"] = entry
  BY <1>1, <1>3
<1>5. /\ records' = records \union NewRecords(request, n, report)
      /\ jobs' = jobs \union {job} /\ lock' = None
      /\ session' = [session EXCEPT ![h] = entry]
      /\ begun' = begun /\ others' = others /\ ~request.dry
  <2>1. Pending(h) = NewRecords(request, n, report)
    BY <1>4 DEF Pending, NewRecords
  <2>2. JobOf(h, "running", None) = job
    BY <1>2, <1>4 DEF JobOf
  <2>3. session' = [session EXCEPT ![h] = [session[h] EXCEPT !.pc = "stored"]]
    BY DEF CommitRecords
  <2> QED BY <1>4, <2>1, <2>2, <2>3 DEF CommitRecords
<1>6. /\ NewRecords(request, n, report) \subseteq Record
      /\ \A r \in NewRecords(request, n, report) : r.by = n
      /\ Accounts(n, report)'
  BY <1>1, <1>5, CommitAccounts DEF Inv, TypeOK
<1>7. entry \in Session /\ job \in Job /\ entry # None
  <2>1. entry \in Session
    BY <1>3 DEF Session
  <2>2. job \in Job
    BY <1>2 DEF Job, ImportRequest
  <2> QED BY <2>1, <2>2, AbsenceAssumption
<1>8. \A g \in Handler : session'[g] = IF g = h THEN entry ELSE session[g]
  BY <1>5 DEF Inv, TypeOK
<1>9. \A g \in Handler : ~Writing(g)'
  BY <1>1, <1>3, <1>8 DEF Writing, At, Idle
<1>10. TypeOK'
  <2>1. session' \in [Handler -> Session \union {None}]
    BY <1>5, <1>7 DEF Inv, TypeOK
  <2>2. \A g \in Handler : lock' = g <=> Writing(g)'
    BY <1>5, <1>9, ImportAssumption
  <2> QED BY <1>5, <1>6, <1>7, <2>1, <2>2 DEF Inv, TypeOK, Writing
<1>11. IdsTaken'
  <2>1. \A g \in Handler : session'[g].id = session[g].id /\ (Working(g)' <=> Working(g))
    BY <1>1, <1>3, <1>4, <1>7, <1>8 DEF Working, Idle
  <2>2. \A r \in records' : r.by # None => r.by <= begun
    BY <1>1, <1>5, <1>6 DEF Inv, IdsTaken
  <2>3. \A j \in jobs' : j.id <= begun
    BY <1>1, <1>2, <1>5 DEF Inv, IdsTaken
  <2> QED BY <1>5, <2>1, <2>2, <2>3 DEF Inv, IdsTaken
<1>12. LockOK(h)' /\ StoredOK(h)'
  <2>1. LockOK(h)'
    BY <1>9 DEF LockOK, Writing
  <2>2. session'[h].request = request /\ session'[h].id = n /\ session'[h].report = report
    BY <1>3, <1>8
  <2>3. JobOf(h, "running", None)' = job
    BY <1>2, <2>2 DEF JobOf
  <2> QED BY <1>5, <1>6, <2>1, <2>2, <2>3 DEF StoredOK
<1>13. \A g \in Handler : LockOK(g)' /\ StoredOK(g)'
  <2> SUFFICES ASSUME NEW g \in Handler, g # h PROVE LockOK(g)' /\ StoredOK(g)'
    BY <1>12
  <2>1. session'[g] = session[g]
    BY <1>8
  <2>2. \A r \in records' \ records : Working(g) => r.by # session[g].id
    BY <1>1, <1>5, <1>6
  <2> QED BY <1>1, <1>5, <2>1, <2>2, OthersKeep
<1>14. JobsOK'
  <2>1. KeysUnique'
    BY <1>1, <1>2, <1>5 DEF Inv, JobsOK, KeysUnique
  <2>2. RecordsHaveJobs'
    <3> SUFFICES ASSUME NEW r \in records', r.by # None PROVE \E j \in jobs' : j.id = r.by
      BY DEF RecordsHaveJobs
    <3>1. CASE r \in records
      BY <1>5, <3>1 DEF Inv, JobsOK, RecordsHaveJobs
    <3>2. CASE r \in NewRecords(request, n, report)
      BY <1>2, <1>5, <1>6, <3>2
    <3> QED BY <1>5, <3>1, <3>2
  <2>3. ASSUME NEW j \in jobs', j.status = "complete", ~j.dry
        PROVE  Accounts(j.id, j.report)'
    <3>1. j \in jobs
      BY <1>2, <1>5, <2>3
    <3>2. PICK m, listed : m = j.id /\ listed = j.report
      OBVIOUS
    <3>3. m # n /\ Accounts(m, listed)
      BY <1>1, <2>3, <3>1, <3>2 DEF Inv, JobsOK
    <3>4. Accounts(m, listed)'
      BY <1>5, <1>6, <3>3, AccountsGrows
    <3> QED BY <3>2, <3>4
  <2> QED BY <2>1, <2>2, <2>3 DEF JobsOK
<1> QED BY <1>10, <1>11, <1>13, <1>14 DEF Inv

\* The report of a handler is committed: of one that has its running job and
\* true report, or of a dry run, that claims nothing.
LEMMA CommitReportKeeps ==
  ASSUME Inv, NEW h \in Handler, CommitReport(h)
  PROVE  Inv'
<1>1. PICK request \in ImportRequest, n \in 1..MaxJobs, report \in Seq(RowResult) :
        /\ session[h].request = request /\ session[h].id = n /\ session[h].report = report
        /\ lock \in {h, None} /\ Working(h)
        /\ \/ /\ request.dry
              /\ \A j \in jobs : j.id # n /\ (request.key # NoKey => j.key # request.key)
              /\ \A r \in records : r.by # n
           \/ /\ ~request.dry /\ Accounts(n, report)
              /\ \E j \in jobs : j.id = n /\ j.key = request.key
  <2>1. CASE At(h, "planned") /\ session[h].request.dry
    <3>1. PICK request \in ImportRequest, n \in 1..MaxJobs, report \in Seq(RowResult) :
            AboutToCommit(h, request, n, report)
      BY <2>1, Planned
    <3>2. /\ lock = h /\ Working(h)
          /\ \A j \in jobs : j.id # n /\ (request.key # NoKey => j.key # request.key)
          /\ \A r \in records : r.by # n
      BY <3>1 DEF AboutToCommit
    <3>3. session[h].request = request /\ session[h].id = n /\ session[h].report = report
      BY <3>1 DEF AboutToCommit
    <3> QED BY <2>1, <3>2, <3>3
  <2>2. CASE At(h, "stored") /\ lock = None
    <3>1. PICK request \in ImportRequest, n \in 1..MaxJobs, report \in Seq(RowResult) :
            session[h] = [pc |-> "stored", request |-> request, id |-> n, report |-> report]
      BY <2>2, SessionStages DEF Inv
    <3>2. session[h].request = request /\ session[h].id = n /\ session[h].report = report
      BY <3>1
    <3>3. /\ ~request.dry /\ Accounts(n, report) /\ JobOf(h, "running", None) \in jobs
          /\ Working(h)
      BY <2>2, <3>2 DEF Inv, StoredOK, Working, At
    <3>4. /\ JobOf(h, "running", None).id = n
          /\ JobOf(h, "running", None).key = request.key
      BY <3>2 DEF JobOf
    <3> QED BY <2>2, <3>2, <3>3, <3>4
  <2> QED BY <2>1, <2>2 DEF CommitReport
<1>2. PICK running, job :
        /\ running = [id |-> n, key |-> request.key, status |-> "running",
                      dry |-> request.dry, report |-> None]
        /\ job = [id |-> n, key |-> request.key, status |-> "complete",
                  dry |-> request.dry, report |-> report]
  OBVIOUS
<1>3. /\ jobs' = (jobs \ {running}) \union {job} /\ lock' = None
      /\ session' = [session EXCEPT ![h] = None]
      /\ records' = records /\ begun' = begun /\ others' = others
  BY <1>1, <1>2 DEF CommitReport, JobOf
<1>4. /\ job.id = n /\ job.key = request.key /\ job.dry = request.dry
      /\ job.report = report /\ running.id = n
  BY <1>2
<1>5. job \in Job
  BY <1>2 DEF Job, ImportRequest
<1>6. \A g \in Handler : session'[g] = IF g = h THEN None ELSE session[g]
  BY <1>3 DEF Inv, TypeOK
<1>7. \A g \in Handler : ~Writing(g)'
  <2>1. \A g \in Handler : Writing(g) => g = h
    BY <1>1, ImportAssumption DEF Inv, TypeOK, Writing
  <2> QED BY <1>6, <2>1 DEF Writing, At, Idle
<1>8. TypeOK'
  <2>1. session' \in [Handler -> Session \union {None}]
    BY <1>3 DEF Inv, TypeOK
  <2>2. \A g \in Handler : lock' = g <=> Writing(g)'
    BY <1>3, <1>7, ImportAssumption
  <2> QED BY <1>3, <1>5, <2>1, <2>2 DEF Inv, TypeOK, Writing
<1>9. IdsTaken'
  <2>1. \A g \in Handler : Working(g)' => Working(g) /\ session'[g] = session[g]
    BY <1>6 DEF Working, Idle
  <2>2. n <= begun
    BY <1>1 DEF Inv, IdsTaken
  <2> QED BY <1>3, <1>4, <2>1, <2>2 DEF Inv, IdsTaken
<1>10. ASSUME NEW g \in Handler
       PROVE  LockOK(g)' /\ StoredOK(g)'
  <2>1. CASE g = h
    BY <1>6, <2>1 DEF LockOK, StoredOK, Writing, At, Idle
  <2>2. CASE g # h
    <3>1. Working(g) => session[g].id # n
      BY <1>1, <2>2 DEF Inv, IdsTaken
    <3>2. \A j \in jobs : Working(g) /\ j.id = session[g].id => j \in jobs'
      BY <1>3, <1>4, <3>1
    <3> QED BY <1>1, <1>3, <1>6, <2>2, <3>2, OthersKeep
  <2> QED BY <2>1, <2>2
<1>11. JobsOK'
  <2>1. KeysUnique'
    BY <1>1, <1>3, <1>4 DEF Inv, JobsOK, KeysUnique
  <2>2. RecordsHaveJobs'
    <3> SUFFICES ASSUME NEW r \in records, r.by # None PROVE \E j \in jobs' : j.id = r.by
      BY <1>3 DEF RecordsHaveJobs
    <3>1. PICK j \in jobs : j.id = r.by
      BY DEF Inv, JobsOK, RecordsHaveJobs
    <3> QED BY <1>3, <1>4, <3>1
  <2>3. ASSUME NEW j \in jobs', j.status = "complete", ~j.dry
        PROVE  Accounts(j.id, j.report)'
    <3>1. Accounts(j.id, j.report)
      <4>1. CASE j = job
        BY <1>1, <1>4, <2>3, <4>1
      <4>2. CASE j # job
        BY <1>3, <2>3, <4>2 DEF Inv, JobsOK
      <4> QED BY <4>1, <4>2
    <3>2. PICK m, listed : m = j.id /\ listed = j.report
      OBVIOUS
    <3>3. Accounts(m, listed)'
      BY <1>3, <3>1, <3>2, AccountsSame
    <3> QED BY <3>2, <3>3
  <2> QED BY <2>1, <2>2, <2>3 DEF JobsOK
<1> QED BY <1>8, <1>9, <1>10, <1>11 DEF Inv

-----------------------------------------------------------------------------
(* The theorems. *)

\* Every step keeps the invariant.
LEMMA StepKeeps ==
  ASSUME Inv, [Next]_vars
  PROVE  Inv'
<1>1. CASE UNCHANGED vars
  <2>1. TypeOK'
    BY <1>1 DEF Inv, TypeOK, At, Idle, vars
  <2> QED BY <1>1, <2>1, SessionStepKeeps DEF vars
<1>2. CASE Next
  BY <1>2, BeginKeeps, InsertJobKeeps, PlanKeeps, CommitRecordsKeeps, CommitReportKeeps,
     AbortKeeps, CrashKeeps, CreateOtherKeeps DEF Next
<1> QED BY <1>1, <1>2

\* Every reachable state satisfies the invariant: the write lock keeps what a
\* handler decided true until it commits, and the ids of imports are their own.
THEOREM AlwaysInv == Spec => []Inv
<1>1. Init => Inv
  BY InitInv
<1>2. Inv /\ [Next]_vars => Inv'
  BY StepKeeps
<1> QED BY <1>1, <1>2, PTL DEF Spec

\* Every variable has its type, and SQLite's write lock is held by exactly the
\* handler that has written and not committed.
THEOREM AlwaysTypeOK == Spec => []TypeOK
<1>1. Inv => TypeOK
  BY DEF Inv
<1> QED BY <1>1, AlwaysInv, PTL

\* An idempotency key takes effect at most once, however many handlers import
\* with it, fail or die between their commits.
THEOREM AlwaysOncePerKey == Spec => []OncePerKey
<1>1. Inv => OncePerKey
  BY DEF Inv, JobsOK, KeysUnique, OncePerKey
<1> QED BY <1>1, AlwaysInv, PTL

\* No record of an import is without a committed job: the job is in the same
\* transaction as the records.
THEOREM AlwaysRecordsHaveJobs == Spec => []RecordsHaveJobs
<1>1. Inv => RecordsHaveJobs
  BY DEF Inv, JobsOK
<1> QED BY <1>1, AlwaysInv, PTL

\* The report of a finished import is true for ever: the records it lists as
\* created are the ones it created, those it found are stored, though report
\* and records are two commits.
THEOREM AlwaysReportIsTrue == Spec => []ReportIsTrue
<1>1. Inv => ReportIsTrue
  BY DEF Inv, JobsOK, Accounts, Ids, ReportIsTrue
<1> QED BY <1>1, AlwaysInv, PTL

-----------------------------------------------------------------------------
(* Deduplication. *)

\* A set of numbers that is not empty has a least one.
LEMMA LeastNat ==
  ASSUME NEW T \in SUBSET Nat, T # {}
  PROVE  \E x \in T : \A y \in T : x <= y
<1>1. \E x \in T : \A y \in T : ~(y < x)
  <2>1. IsWellFoundedOn(OpToRel(<, Nat), Nat)
    BY NatLessThanWellFounded
  <2>2. \E x \in T : \A y \in T : ~(<<y, x>> \in OpToRel(<, Nat))
    BY <2>1, WFMin
  <2> QED BY <2>2 DEF OpToRel
<1> QED BY <1>1

\* The asset of a row is found for every later row that repeats it.
LEMMA FoundIfRepeated ==
  ASSUME NEW request \in ImportRequest, NEW n, NEW i \in DOMAIN request.rows,
         NEW j \in DOMAIN request.rows, j < i, request.rows[j] = request.rows[i]
  PROVE  FoundFor(request, n, i) # {}
<1>1. PICK len \in Nat : DOMAIN request.rows = 1..len
  BY RowsOfRequest
<1> DEFINE same == {k \in 1..len : request.rows[k] = request.rows[i]}
<1>2. PICK first \in same : \A k \in same : first <= k
  <2>1. j \in same /\ same \subseteq Nat
    BY <1>1
  <2> HIDE DEF same
  <2> QED BY <2>1, LeastNat
<1>3. first \in 1..(i - 1) /\ request.rows[first] = request.rows[i]
  BY <1>1, <1>2
<1>4. ~Repeats(request.rows, first)
  BY <1>1, <1>2 DEF Repeats
<1>5. CASE \E r \in records : r.key = request.rows[i]
  <2>1. PICK r \in records : r.key = request.rows[i]
    BY <1>5
  <2>2. r.id \in {q.id : q \in {q \in records : q.key = request.rows[i]}}
    BY <2>1
  <2> QED BY <2>2 DEF FoundFor
<1>6. CASE \A r \in records : r.key # request.rows[i]
  <2>1. <<n, first>> \in {<<n, k>> : k \in {k \in 1..(i - 1) :
                           /\ request.rows[k] = request.rows[i]
                           /\ ~Repeats(request.rows, k)
                           /\ \A r \in records : r.key # request.rows[k]}}
    <3> HIDE DEF same
    <3> QED BY <1>3, <1>4, <1>6
  <2> QED BY <2>1 DEF FoundFor
<1> QED BY <1>5, <1>6

\* The records that a deduplicating import commits are the only ones of their
\* assets.
LEMMA CommitDeduplicates ==
  ASSUME Inv, NEW h \in Handler, CommitRecords(h), session[h].request.deduplicate,
         NEW r \in records' \ records, NEW q \in records', q.key = r.key
  PROVE  q = r
<1> PICK request \in ImportRequest, n \in 1..MaxJobs, report \in Seq(RowResult) :
        AboutToCommit(h, request, n, report)
  BY Planned DEF CommitRecords
<1>1. /\ session[h] = [pc |-> "planned", request |-> request, id |-> n, report |-> report]
      /\ DOMAIN report = DOMAIN request.rows
      /\ \A i \in DOMAIN report : report[i] \in Decided(request, n, i)
  BY DEF AboutToCommit
<1>2. session[h].request = request /\ session[h].id = n /\ session[h].report = report
  BY <1>1
<1>3. records' = records \union NewRecords(request, n, report)
  BY <1>2 DEF CommitRecords, Pending, NewRecords
<1>4. \A p \in NewRecords(request, n, report) :
        \E i \in DOMAIN request.rows :
          /\ p = [id |-> <<n, i>>, key |-> request.rows[i], by |-> n]
          /\ FoundFor(request, n, i) = {}
  <2> SUFFICES ASSUME NEW i \in DOMAIN report, report[i].status = "created"
               PROVE  FoundFor(request, n, i) = {}
    BY <1>1 DEF NewRecords
  <2> QED BY <1>1, <1>2, DecidedCases DEF Inv, TypeOK
<1>5. PICK i \in DOMAIN request.rows :
        /\ r = [id |-> <<n, i>>, key |-> request.rows[i], by |-> n]
        /\ FoundFor(request, n, i) = {}
  BY <1>3, <1>4
<1>6. r.key = request.rows[i]
  BY <1>5
<1>7. CASE q \in records
  <2>1. q.id \in {s.id : s \in {s \in records : s.key = request.rows[i]}}
    BY <1>6, <1>7
  <2> QED BY <1>5, <2>1 DEF FoundFor
<1>8. CASE q \in NewRecords(request, n, report)
  <2>1. PICK k \in DOMAIN request.rows :
          /\ q = [id |-> <<n, k>>, key |-> request.rows[k], by |-> n]
          /\ FoundFor(request, n, k) = {}
    BY <1>4, <1>8
  <2>2. request.rows[k] = request.rows[i]
    BY <1>6, <2>1
  <2>3. k \in Nat /\ i \in Nat
    BY RowsOfRequest
  <2>4. k = i
    <3>1. ~(k < i)
      BY <1>5, <2>2, FoundIfRepeated
    <3>2. ~(i < k)
      BY <2>1, <2>2, FoundIfRepeated
    <3> QED BY <2>3, <3>1, <3>2
  <2> QED BY <1>5, <2>1, <2>4
<1> QED BY <1>3, <1>7, <1>8

\* No interleaving of imports and other writes makes a deduplicating import
\* create a record of an asset that has one, nor two of one asset.
THEOREM AlwaysDeduplicates == Spec => DeduplicationHolds
<1>1. Inv => [\A h \in Handler :
                CommitRecords(h) /\ session[h].request.deduplicate =>
                \A r \in records' \ records :
                  \A q \in records' : q.key = r.key => q = r]_vars
  BY CommitDeduplicates
<1> QED BY <1>1, AlwaysInv, PTL DEF DeduplicationHolds
=============================================================================
