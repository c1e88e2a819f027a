-------------------------- MODULE PgContractProofs --------------------------
(* The PostgreSQL store implements the contract of Lifecycle, for any        *)
(* number of sessions, workers and workflows and any plan of activities.     *)
EXTENDS PgRefinement, PgStoreProofs

-----------------------------------------------------------------------------
(* What a transaction owes the contract while it is under way: it decides   *)
(* on rows as it reads them, and is judged on the rows at its commit.       *)

\* Who logs events of a workflow holds KEY SHARE on it, which Cancel excludes.
KeyShared(t) == \A e \in t.log : e.workflow \in t.keyshare
CancelExcludes ==
  \A p, q \in Sessions : p # q /\ tx[p].op = "Cancel" => DOMAIN tx[p].wfs \cap tx[q].keyshare = {}

\* Cancel misses nothing that waits.
Covered(t) ==
  t.op = "Cancel" => \A w \in DOMAIN t.wfs : \A a \in Of(w) :
    Pending(activities[a]) => a \in t.todo \cup DOMAIN t.rows

\* What a transaction may release.
Due(t, a) ==
  /\ \A d \in Plan[a].dependsOn : RowOf(t, d).status = "completed"
  /\ t.op = "Complete" => WorkflowOf(a) = WorkflowOf(t.claim.activity)

Released(t) ==
  /\ t.pc = "promote" => \A a \in t.todo : Due(t, a)
  /\ t.op \in {"Complete", "RunSchedulerPass"} =>
       \A a \in DOMAIN t.rows : activities[a].status = "retry_pending" => Due(t, a)

\* The result that is about to count is the holder's.
Reports(t) ==
  /\ t.op \in LeaseOps
  /\ \/ t.pc \in {"write", "release", "promote", "promoted", "finish", "close"}
     \/ DOMAIN t.wfs # {}
     \/ \E a \in DOMAIN t.rows : t.rows[a].status # activities[a].status

HolderOf(t, a) ==
  /\ activities[a].status = "running" /\ activities[a].owner = t.claim.worker
  /\ activities[a].token = t.claim.token

ByHolder(t) ==
  Reports(t) =>
    /\ t.claim.activity \in DOMAIN t.rows /\ HolderOf(t, t.claim.activity)
    /\ \A b \in DOMAIN t.rows \ {t.claim.activity} : activities[b].status = "retry_pending"
    /\ t.op = "Complete" /\ t.pc # "write" => t.rows[t.claim.activity].status = "completed"

TxContract(t) == KeyShared(t) /\ Covered(t) /\ Released(t) /\ ByHolder(t)

ContractInv == CancelExcludes /\ \A p \in Sessions : TxContract(tx[p])

-----------------------------------------------------------------------------
(* Statements lock what they log about, and not what Cancel has locked.    *)

NewKeys(p, t) == \A w \in t.keyshare \ tx[p].keyshare : KeyShareFree(p, w)

CancelFresh(p, t) ==
  t.op = "Cancel" => \A w \in DOMAIN t.wfs :
    (tx[p].op = "Cancel" /\ w \in DOMAIN tx[p].wfs) \/ UpdateFree(p, w)

LocksFit(p, t) == KeyShared(t) /\ NewKeys(p, t) /\ CancelFresh(p, t)

\* What ContractInv says of one session.
LEMMA SessionContract ==
  ASSUME ContractInv, NEW p \in Sessions
  PROVE  KeyShared(tx[p]) /\ Covered(tx[p]) /\ Released(tx[p]) /\ ByHolder(tx[p])
BY DEF ContractInv, TxContract

\* A statement that logs nothing takes no lock on a workflow.
LEMMA SilentLocks ==
  ASSUME ContractInv, NEW p \in Sessions, NEW t, Silent(tx[p], t), t.op = tx[p].op, t.wfs = tx[p].wfs
  PROVE  LocksFit(p, t)
BY SessionContract DEF Silent, LocksFit, KeyShared, NewKeys, CancelFresh

\* A statement that logs takes KEY SHARE where no Cancel is.
LEMMA LogsLocks ==
  ASSUME ContractInv, NEW p \in Sessions, NEW t, NEW w, NEW new, Logs(tx[p], t, w, new),
         \A e \in new : e.workflow = w, KeyShareFree(p, w), t.op = tx[p].op,
         t.op # "Cancel" \/ t.wfs = tx[p].wfs
  PROVE  LocksFit(p, t)
BY SessionContract DEF Logs, LocksFit, KeyShared, NewKeys, CancelFresh

\* Who may write a workflow may also log of it.
LEMMA NoKeyShares ==
  ASSUME NEW p, NEW w, NoKeyFree(p, w)
  PROVE  KeyShareFree(p, w)
BY DEF NoKeyFree, KeyShareFree

\* The same for one event.
LEMMA OneEntryLocks ==
  ASSUME ContractInv, NEW p \in Sessions, NEW t, NEW w, NEW k, NEW s, NEW type,
         Logs(tx[p], t, w, {Entry(k, w, s, type)}), KeyShareFree(p, w), t.op = tx[p].op,
         t.op # "Cancel" \/ t.wfs = tx[p].wfs
  PROVE  LocksFit(p, t)
<1>1. \A e \in {Entry(k, w, s, type)} : e.workflow = w
  BY EntryFields
<1> QED
  BY <1>1, LogsLocks

\* The same for two events.
LEMMA TwoEntriesLock ==
  ASSUME ContractInv, NEW p \in Sessions, NEW t, NEW w, NEW k1, NEW s1, NEW type1, NEW k2, NEW s2, NEW type2,
         Logs(tx[p], t, w, {Entry(k1, w, s1, type1), Entry(k2, w, s2, type2)}), KeyShareFree(p, w),
         t.op = tx[p].op, t.op # "Cancel"
  PROVE  LocksFit(p, t)
<1>1. \A e \in {Entry(k1, w, s1, type1), Entry(k2, w, s2, type2)} : e.workflow = w
  BY EntryFields
<1> QED
  BY <1>1, LogsLocks

\* Cancel begins only where nobody logs, and the others without locks.
LEMMA BeginsLocks ==
  ASSUME NEW p, NEW t, NEW n, BeginsTx(p, t, n)
  PROVE  LocksFit(p, t)
<1>1. t.keyshare = {} /\ t.log = {}
  BY DEF BeginsTx, Picked, Called, CancelBegun, SchedulerBegun, Begun
<1>2. CancelFresh(p, t)
  <2>1. CASE \E w \in Workflows : CancelBegun(p, w, t)
    BY <2>1 DEF CancelBegun, CancelFresh
  <2>2. CASE t.op # "Cancel"
    BY <2>2 DEF CancelFresh
  <2> QED
    BY <2>1, <2>2 DEF BeginsTx, Picked, Called, SchedulerBegun, Begun, LeaseOps
<1> QED
  BY <1>1, <1>2 DEF LocksFit, KeyShared, NewKeys

\* Results are logged where no Cancel is.
LEMMA WritesLocks ==
  ASSUME StoreInv, ContractInv, NEW p \in Sessions, NEW t, NEW n, WritesResult(p, t, n)
  PROVE  LocksFit(p, t)
<1>0. Place(tx[p])
  BY SessionTx
<1>1. ASSUME NEW pc \in {"log", "stale"}, NEW a, NEW type, Noted(p, pc, a, type, t)
      PROVE  LocksFit(p, t)
  <2>1. tx[p].pc = pc /\ t.op = tx[p].op /\ t.wfs = tx[p].wfs /\ KeyShareFree(p, WorkflowOf(a))
        /\ Logs(tx[p], t, WorkflowOf(a), {Entry(nextSequence + 1, WorkflowOf(a), a, type)})
    BY <1>1 DEF Noted, SameCall, SameTables
  <2> QED
    BY <2>1, OneEntryLocks
<1>2. ASSUME NEW op, NEW row, NEW type, NEW pc, RowWritten(p, op, row, type, pc, t)
      PROVE  LocksFit(p, t)
  <2> DEFINE w == SubjectWorkflow(p)
  <2>1. t.op = tx[p].op /\ t.wfs = tx[p].wfs /\ KeyShareFree(p, w)
        /\ Logs(tx[p], t, w, {Entry(nextSequence + 1, w, Subject(p), type)})
    BY <1>2 DEF RowWritten, SameCall
  <2> HIDE DEF w
  <2> QED
    BY <2>1, OneEntryLocks
<1>3. CASE FailedFinally(p, t)
  <2> DEFINE w == SubjectWorkflow(p)
  <2>1. t.op = tx[p].op /\ t.op = "Fail" /\ NoKeyFree(p, w)
        /\ Logs(tx[p], t, w, {Entry(nextSequence + 1, w, Subject(p), "activity.failed"),
                              Entry(nextSequence + 2, w, w, "workflow.failed")})
    BY <1>3 DEF FailedFinally, SameCall, At
  <2> HIDE DEF w
  <2>2. KeyShareFree(p, w) /\ t.op # "Cancel"
    BY <2>1, NoKeyShares
  <2> QED
    BY <2>1, <2>2, TwoEntriesLock
<1> QED
  BY <1>1, <1>2, <1>3 DEF WritesResult

\* Cancel logs under its own lock, which excludes another Cancel.
LEMMA OwnKeyFree ==
  ASSUME StatusInv, NEW p \in Sessions, NEW w \in DOMAIN tx[p].wfs
  PROVE  KeyShareFree(p, w)
BY DEF StatusInv, WorkflowsExclusive, KeyShareFree, Others

\* The loops log where no Cancel is.
LEMMA LogsRowLocks ==
  ASSUME StoreInv, StatusInv, ContractInv, NEW p \in Sessions, NEW t, NEW n, LogsRow(p, t, n)
  PROVE  LocksFit(p, t)
<1>0. Place(tx[p])
  BY SessionTx
<1>1. PICK a \in Activities :
       \/ /\ KeyShareFree(p, WorkflowOf(a)) /\ t.wfs = tx[p].wfs
          /\ HitLogged(p, "promoted", a, {Entry(nextSequence + 1, WorkflowOf(a), a, "activity.ready")}, t)
       \/ /\ KeyShareFree(p, WorkflowOf(a)) /\ t.wfs = tx[p].wfs
          /\ HitLogged(p, "expired", a,
                       {Entry(nextSequence + 1, WorkflowOf(a), a, "activity.lease_expired")}, t)
       \/ /\ NoKeyFree(p, WorkflowOf(a))
          /\ HitLogged(p, "expired", a,
                       {Entry(nextSequence + 1, WorkflowOf(a), WorkflowOf(a), "workflow.failed"),
                        Entry(nextSequence + 2, WorkflowOf(a), a, "activity.lease_expired_failed")}, t)
       \/ \E v \in Workflows : CancelRowLogged(p, v, a, t)
  BY DEF LogsRow
<1> DEFINE w == WorkflowOf(a)
<1>2. ASSUME NEW pc \in {"promoted", "expired"}, NEW type, KeyShareFree(p, w), t.wfs = tx[p].wfs,
             HitLogged(p, pc, a, {Entry(nextSequence + 1, w, a, type)}, t)
      PROVE  LocksFit(p, t)
  <2>1. t.op = tx[p].op /\ Logs(tx[p], t, w, {Entry(nextSequence + 1, w, a, type)})
    BY <1>2 DEF HitLogged, SameCall
  <2> HIDE DEF w
  <2> QED
    BY <1>2, <2>1, OneEntryLocks
<1>3. ASSUME NoKeyFree(p, w),
             HitLogged(p, "expired", a,
                       {Entry(nextSequence + 1, w, w, "workflow.failed"),
                        Entry(nextSequence + 2, w, a, "activity.lease_expired_failed")}, t)
      PROVE  LocksFit(p, t)
  <2>1. t.op = tx[p].op /\ tx[p].pc = "expired" /\
        Logs(tx[p], t, w, {Entry(nextSequence + 1, w, w, "workflow.failed"),
                           Entry(nextSequence + 2, w, a, "activity.lease_expired_failed")})
    BY <1>3 DEF HitLogged, SameCall
  <2>2. t.op # "Cancel"
    BY <1>0, <2>1, EmptyTx DEF Place
  <2> HIDE DEF w
  <2> QED
    BY <1>3, <2>1, <2>2, NoKeyShares, TwoEntriesLock
<1>4. CASE \E v \in Workflows : CancelRowLogged(p, v, a, t)
  <2>1. PICK v \in Workflows : CancelRowLogged(p, v, a, t)
    BY <1>4
  <2>2. t.op = tx[p].op /\ t.wfs = tx[p].wfs /\ v \in DOMAIN tx[p].wfs
        /\ Logs(tx[p], t, v, {Entry(nextSequence + 1, v, a, "activity.cancelled")})
    BY <2>1 DEF CancelRowLogged, SameCall, SameTables
  <2> QED
    BY <2>2, OwnKeyFree, OneEntryLocks
<1> QED
  BY <1>1, <1>2, <1>3, <1>4

\* Complete and Cancel log of the workflow they have.
LEMMA MovesOnLocks ==
  ASSUME StoreInv, StatusInv, ContractInv, NEW p \in Sessions, NEW t, NEW n, MovesOn(p, t, n)
  PROVE  LocksFit(p, t)
<1>0. Place(tx[p])
  BY SessionTx
<1>1. CASE t = Idle
  BY <1>1, EmptyTx DEF LocksFit, KeyShared, NewKeys, CancelFresh
<1>2. CASE Locked(p, t) \/ ReleaseBegun(p, t) \/ DoneChecked(p, t) \/ LeavesOpen(p, t)
  <2>1. Silent(tx[p], t) /\ t.op = tx[p].op /\ t.wfs = tx[p].wfs
    BY <1>2 DEF Locked, ReleaseBegun, DoneChecked, LeavesOpen, SameCall, SameTables
  <2> QED
    BY <2>1, SilentLocks
<1>3. CASE Closes(p, t)
  <2> DEFINE w == SubjectWorkflow(p)
  <2>1. t.op = tx[p].op /\ tx[p].pc = "close" /\ NoKeyFree(p, w)
        /\ Logs(tx[p], t, w, {Entry(nextSequence + 1, w, w, "workflow.completed")})
    BY <1>3 DEF Closes, SameCall
  <2>2. t.op # "Cancel"
    BY <1>0, <2>1, EmptyTx DEF Place
  <2> HIDE DEF w
  <2> QED
    BY <2>1, <2>2, NoKeyShares, OneEntryLocks
<1>4. CASE \E w \in Workflows : CancelDone(p, w, t)
  <2>1. PICK w \in Workflows : CancelDone(p, w, t)
    BY <1>4
  <2>2. t.op = tx[p].op /\ t.wfs = tx[p].wfs /\ w \in DOMAIN tx[p].wfs
        /\ Logs(tx[p], t, w, {Entry(nextSequence + 1, w, w, "workflow.cancelled")})
    BY <2>1 DEF CancelDone, SameCall, SameTables
  <2> QED
    BY <2>2, OwnKeyFree, OneEntryLocks
<1> QED
  BY <1>1, <1>2, <1>3, <1>4 DEF MovesOn

\* All statements keep loggers and Cancel apart.
LEMMA StatementLocks ==
  ASSUME StoreInv, StatusInv, ContractInv, NEW p \in Sessions, NEW t, NEW n, Statement(p, t, n)
  PROVE  LocksFit(p, t)
<1>1. CASE VisitsRow(p, t, n)
  <2>1. Silent(tx[p], t) /\ t.op = tx[p].op /\ t.wfs = tx[p].wfs
    BY <1>1 DEF VisitsRow, RowVisited, RowSkipped, SameCall, SameTables
  <2> QED
    BY <2>1, SilentLocks
<1> QED
  BY <1>1, BeginsLocks, WritesLocks, LogsRowLocks, MovesOnLocks DEF Statement

-----------------------------------------------------------------------------
(* Statements release what is due, on behalf of the holder.                *)

TablesFit(t) == Covered(t) /\ Released(t) /\ ByHolder(t)

\* Rows already held, and nothing more to visit.
KeepsRows(p, t) ==
  /\ t.op = tx[p].op /\ t.claim = tx[p].claim /\ t.rows = tx[p].rows
  /\ t.todo = tx[p].todo \/ t.op # "Cancel"
  /\ t.wfs = tx[p].wfs \/ t.op # "Cancel"

\* A statement that leaves rows alone keeps what is owed.
LEMMA KeepsTables ==
  ASSUME ContractInv, NEW p \in Sessions, NEW t, KeepsRows(p, t),
         t.pc = "promote" => \A a \in t.todo : Due(t, a),
         Reports(t) => Reports(tx[p]) /\ tx[p].pc # "write"
  PROVE  TablesFit(t)
<1>1. Covered(tx[p]) /\ Released(tx[p]) /\ ByHolder(tx[p])
  BY SessionContract
<1>2. Covered(t)
  BY <1>1 DEF Covered, KeepsRows
<1>3. \A a : Due(tx[p], a) => Due(t, a)
  BY DEF Due, RowOf, KeepsRows
<1>4. Released(t)
  BY <1>1, <1>3 DEF Released, KeepsRows
<1>5. ByHolder(t)
  BY <1>1 DEF ByHolder, HolderOf, KeepsRows
<1> QED
  BY <1>2, <1>4, <1>5 DEF TablesFit

\* Cancel begins with all that waits, and the others owe nothing yet.
LEMMA BeginsTables ==
  ASSUME StoreInv, NEW p \in Sessions, NEW t, NEW n, BeginsTx(p, t, n)
  PROVE  TablesFit(t)
<1>1. CASE \E worker \in Workers, a \in Activities : Picked(p, a, worker, t)
  BY <1>1 DEF Picked, Begun, TablesFit, Covered, Released, ByHolder, Reports, LeaseOps
<1>2. CASE \E op \in LeaseOps, c \in claims : Called(p, op, c, t)
  BY <1>2 DEF Called, Begun, TablesFit, Covered, Released, ByHolder, Reports, LeaseOps
<1>3. CASE \E w \in Workflows : CancelBegun(p, w, t)
  <2>1. PICK w \in Workflows : CancelBegun(p, w, t)
    BY <1>3
  <2>2. /\ t.op = "Cancel" /\ t.pc # "promote" /\ DOMAIN t.wfs = {w}
        /\ t.todo = {a \in Activities : WorkflowOf(a) = w /\ Pending(activities[a])}
    BY <2>1 DEF CancelBegun, Begun, PlaceAfter
  <2>3. Covered(t)
    BY <2>2 DEF Covered, Of
  <2> QED
    BY <2>2, <2>3 DEF TablesFit, Released, ByHolder, Reports, LeaseOps
<1>4. CASE SchedulerBegun(p, t)
  <2>1. t.op = "RunSchedulerPass" /\ t.pc # "promote" /\ DOMAIN t.rows = {}
    BY <1>4 DEF SchedulerBegun, Begun, PlaceAfter
  <2> QED
    BY <2>1 DEF TablesFit, Covered, Released, ByHolder, Reports, LeaseOps
<1> QED
  BY <1>1, <1>2, <1>3, <1>4 DEF BeginsTx

\* The holder's row, and nothing else.
LEMMA ResultTables ==
  ASSUME StoreInv, ContractInv, NEW p \in Sessions, NEW t, tx[p].pc = "write", t.op = tx[p].op,
         t.claim = tx[p].claim, NEW row, IsPut(t.rows, tx[p].rows, Subject(p), row), t.pc # "promote",
         t.op = "Complete" => row.status = "completed"
  PROVE  TablesFit(t)
<1> DEFINE a == Subject(p)
<1>1. /\ tx[p].op \in LeaseOps /\ DOMAIN tx[p].rows = {a} /\ activities[a].status = "running"
  BY HeldRow
<1>2. DOMAIN t.rows = {a} /\ t.rows[a] = row
  BY <1>1 DEF IsPut
<1>3. Reports(tx[p])
  BY <1>1 DEF Reports
<1>4. HolderOf(tx[p], a)
  BY <1>3, SessionContract DEF ByHolder, Subject
<1>5. a = t.claim.activity
  BY DEF Subject
<1> HIDE DEF a
<1>6. HolderOf(t, a)
  BY <1>4 DEF HolderOf
<1>7. ByHolder(t)
  BY <1>2, <1>5, <1>6 DEF ByHolder
<1>8. Covered(t) /\ Released(t)
  BY <1>1, <1>2 DEF Covered, Released, LeaseOps
<1> QED
  BY <1>7, <1>8 DEF TablesFit

\* Only the holder of the lease gets to write a result.
LEMMA WritesTables ==
  ASSUME StoreInv, StatusInv, ContractInv, NEW p \in Sessions, NEW t, NEW n, WritesResult(p, t, n)
  PROVE  TablesFit(t)
<1>0. Place(tx[p]) /\ RowLocked(tx[p]) /\ StatusWritten(tx[p]) /\ IsTx(tx[p])
  BY SessionTx, SessionStatus
<1>1. ASSUME NEW e, tx[p].op = "Claim", Noted(p, "log", e, "activity.claimed", t)
      PROVE  TablesFit(t)
  BY <1>1 DEF Noted, SameCall, TablesFit, Covered, Released, ByHolder, Reports, LeaseOps
<1>2. ASSUME NEW type, Noted(p, "stale", Subject(p), type, t)
      PROVE  TablesFit(t)
  <2>1. /\ tx[p].pc = "stale" /\ t.pc = "commit" /\ KeepsRows(p, t) /\ t.wfs = tx[p].wfs
    BY <1>2 DEF Noted, SameCall, SameTables, SameLoop, KeepsRows
  <2>2. tx[p].op \in LeaseOps /\ DOMAIN tx[p].wfs = {}
    BY <1>0, <2>1, EmptyTx DEF Place, StatusWritten
  <2>3. \A a \in DOMAIN t.rows : t.rows[a].status = activities[a].status
    BY <1>0, <2>1 DEF RowLocked, KeepsRows
  <2>4. ~Reports(t)
    BY <2>1, <2>2, <2>3 DEF Reports
  <2> QED
    BY <2>1, <2>4, KeepsTables
<1>3. ASSUME NEW op, NEW row, NEW type, NEW pc, RowWritten(p, op, row, type, pc, t), pc # "promote",
             op = "Complete" => row.status = "completed"
      PROVE  TablesFit(t)
  <2>1. /\ tx[p].pc = "write" /\ t.op = tx[p].op /\ t.claim = tx[p].claim /\ t.pc # "promote"
        /\ t.op = op /\ IsPut(t.rows, tx[p].rows, Subject(p), row)
    BY <1>3 DEF RowWritten, SameCall, At
  <2> QED
    BY <1>3, <2>1, ResultTables
<1>4. CASE FailedFinally(p, t)
  <2> DEFINE row == Freed(Row(p, Subject(p)), "failed")
  <2>1. /\ tx[p].pc = "write" /\ t.op = tx[p].op /\ t.claim = tx[p].claim /\ t.pc # "promote"
        /\ t.op = "Fail" /\ IsPut(t.rows, tx[p].rows, Subject(p), row)
    BY <1>4 DEF FailedFinally, SameCall, At
  <2> HIDE DEF row
  <2> QED
    BY <2>1, ResultTables
<1>5. ASSUME RowWritten(p, "Complete", Freed(Row(p, Subject(p)), "completed"), "activity.completed",
                        "release", t)
      PROVE  TablesFit(t)
  <2>1. Row(p, Subject(p)) \in Rows
    BY <1>5, HeldRow DEF RowWritten, At
  <2>2. Freed(Row(p, Subject(p)), "completed").status = "completed"
    BY <2>1, FreedRow
  <2> QED
    BY <1>3, <1>5, <2>2
<1> QED
  BY <1>1, <1>2, <1>3, <1>4, <1>5 DEF WritesResult

\* Rows that read as completed are not visited.
LEMMA VisitKeepsDue ==
  ASSUME NEW p, NEW t, NEW a, NEW row, IsPut(t.rows, tx[p].rows, a, row), t.op = tx[p].op,
         t.claim = tx[p].claim, RowOf(tx[p], a).status # "completed", NEW b, Due(tx[p], b)
  PROVE  Due(t, b)
<1>1. \A d : d # a => RowOf(t, d) = RowOf(tx[p], d)
  BY DEF RowOf, IsPut
<1> QED
  BY <1>1 DEF Due

\* What is released is due, and Cancel drops what it visits if it waits.
LEMMA VisitsTables ==
  ASSUME StoreInv, HistoryInv, StatusInv, ContractInv, NEW p \in Sessions, NEW t, NEW n, VisitsRow(p, t, n)
  PROVE  TablesFit(t)
<1>0. /\ Place(tx[p]) /\ Covered(tx[p]) /\ Released(tx[p]) /\ ByHolder(tx[p])
  BY SessionTx, SessionContract
<1>1. \A b : RowOf(tx[p], b) = Row(p, b)
  BY DEF RowOf, Row
<1>2. ASSUME NEW a \in Activities, NEW row, RowVisited(p, "promote", a, row, t),
             Row(p, a).status = "retry_pending"
      PROVE  TablesFit(t)
  <2>1. /\ tx[p].pc = "promote" /\ a \in tx[p].todo /\ t.op = tx[p].op /\ t.claim = tx[p].claim
        /\ t.wfs = tx[p].wfs /\ t.todo = tx[p].todo \ {a} /\ IsPut(t.rows, tx[p].rows, a, row)
        /\ t.pc = PlaceAfter("promote", t.todo, t.hit, t.op)
    BY <1>2 DEF RowVisited, SameCall
  <2>2. tx[p].op \in {"Complete", "RunSchedulerPass"}
    BY <1>0, <2>1, EmptyTx DEF Place, LeaseOps
  <2>3. ASSUME NEW b, Due(tx[p], b) PROVE Due(t, b)
    BY <1>1, <1>2, <2>1, <2>3, VisitKeepsDue
  <2>4. Released(t)
    BY <1>0, <2>1, <2>2, <2>3 DEF Released, IsPut
  <2>5. Covered(t)
    BY <2>1, <2>2 DEF Covered
  <2>6. ByHolder(t)
    <3>1. CASE tx[p].op = "Complete"
      <4> DEFINE c == tx[p].claim.activity
      <4>1. Reports(tx[p])
        BY <2>1, <3>1 DEF Reports, LeaseOps
      <4>2. /\ c \in DOMAIN tx[p].rows /\ HolderOf(tx[p], c)
            /\ \A b \in DOMAIN tx[p].rows \ {c} : activities[b].status = "retry_pending"
            /\ tx[p].rows[c].status = "completed"
        BY <1>0, <2>1, <3>1, <4>1 DEF ByHolder
      <4>3. a # c
        BY <1>1, <1>2, <4>2 DEF RowOf
      <4>4. a \notin DOMAIN tx[p].rows => activities[a].status = "retry_pending"
        BY <1>2 DEF Row
      <4> HIDE DEF c
      <4>5. /\ c \in DOMAIN t.rows /\ t.rows[c].status = "completed"
            /\ \A b \in DOMAIN t.rows \ {c} : activities[b].status = "retry_pending"
        BY <2>1, <4>2, <4>3, <4>4 DEF IsPut
      <4> QED
        BY <2>1, <4>2, <4>5 DEF ByHolder, HolderOf, c
    <3>2. CASE tx[p].op = "RunSchedulerPass"
      BY <2>1, <3>2 DEF ByHolder, Reports, LeaseOps
    <3> QED
      BY <2>2, <3>1, <3>2
  <2> QED
    BY <2>4, <2>5, <2>6 DEF TablesFit
<1>3. ASSUME NEW a \in Activities, NEW row, RowVisited(p, "expire", a, row, t), Row(p, a).status = "running"
      PROVE  TablesFit(t)
  <2>1. /\ tx[p].pc = "expire" /\ t.op = tx[p].op /\ t.claim = tx[p].claim
        /\ IsPut(t.rows, tx[p].rows, a, row) /\ t.pc = PlaceAfter("expire", t.todo, t.hit, t.op)
    BY <1>3 DEF RowVisited, SameCall
  <2>2. tx[p].op = "RunSchedulerPass" /\ t.pc # "promote"
    BY <1>0, <2>1, EmptyTx DEF Place, LeaseOps, PlaceAfter
  <2>3. ASSUME NEW b, Due(tx[p], b) PROVE Due(t, b)
    BY <1>1, <1>3, <2>1, <2>3, VisitKeepsDue
  <2>4. a \notin DOMAIN tx[p].rows => activities[a].status = "running"
    BY <1>3 DEF Row
  <2>5. Released(t)
    BY <1>0, <2>1, <2>2, <2>3, <2>4 DEF Released, IsPut
  <2> QED
    BY <2>1, <2>2, <2>5 DEF TablesFit, Covered, ByHolder, Reports, LeaseOps
<1>4. ASSUME NEW a \in Activities, tx[p].pc = "drop", t.op = tx[p].op, t.wfs = tx[p].wfs,
             t.todo = tx[p].todo \ {a}, t.pc = PlaceAfter("drop", t.todo, t.hit, t.op),
             DOMAIN tx[p].rows \subseteq DOMAIN t.rows,
             a \in DOMAIN t.rows \/ ~Pending(activities[a])
      PROVE  TablesFit(t)
  <2>1. t.op = "Cancel" /\ t.pc # "promote"
    BY <1>0, <1>4, EmptyTx DEF Place, LeaseOps, PlaceAfter
  <2>2. Covered(t)
    BY <1>0, <1>4, <2>1 DEF Covered
  <2> QED
    BY <2>1, <2>2 DEF TablesFit, Released, ByHolder, Reports, LeaseOps
<1>5. ASSUME NEW a \in Activities, NEW row, RowVisited(p, "drop", a, row, t)
      PROVE  TablesFit(t)
  <2>1. /\ tx[p].pc = "drop" /\ t.op = tx[p].op /\ t.wfs = tx[p].wfs /\ t.todo = tx[p].todo \ {a}
        /\ t.pc = PlaceAfter("drop", t.todo, t.hit, t.op) /\ IsPut(t.rows, tx[p].rows, a, row)
    BY <1>5 DEF RowVisited, SameCall
  <2>2. DOMAIN tx[p].rows \subseteq DOMAIN t.rows /\ a \in DOMAIN t.rows
    BY <2>1 DEF IsPut
  <2> QED
    BY <1>4, <2>1, <2>2
<1>6. ASSUME NEW a \in Activities, RowSkipped(p, "drop", a, t), ~Pending(Row(p, a))
      PROVE  TablesFit(t)
  <2>1. /\ tx[p].pc = "drop" /\ t.op = tx[p].op /\ t.wfs = tx[p].wfs /\ t.todo = tx[p].todo \ {a}
        /\ t.pc = PlaceAfter("drop", t.todo, t.hit, t.op) /\ t.rows = tx[p].rows
    BY <1>6 DEF RowSkipped, SameCall, SameTables
  <2>2. a \in DOMAIN t.rows \/ ~Pending(activities[a])
    BY <1>6, <2>1 DEF Row
  <2> QED
    BY <1>4, <2>1, <2>2
<1>7. ASSUME NEW a \in Activities, NEW pc \in {"promote", "expire"}, RowSkipped(p, pc, a, t)
      PROVE  TablesFit(t)
  <2>1. /\ tx[p].pc = pc /\ t.op = tx[p].op /\ t.claim = tx[p].claim /\ t.rows = tx[p].rows
        /\ t.wfs = tx[p].wfs /\ t.todo = tx[p].todo \ {a} /\ t.pc = PlaceAfter(pc, t.todo, t.hit, t.op)
    BY <1>7 DEF RowSkipped, SameCall, SameTables
  <2>2. tx[p].op \in {"Complete", "RunSchedulerPass"} /\ (pc = "expire" => tx[p].op = "RunSchedulerPass")
    BY <1>0, <2>1, EmptyTx DEF Place, LeaseOps
  <2>3. KeepsRows(p, t)
    BY <2>1, <2>2 DEF KeepsRows
  <2>4. t.pc = "promote" => tx[p].pc = "promote"
    BY <2>1 DEF PlaceAfter
  <2>5. \A b : Due(tx[p], b) => Due(t, b)
    BY <2>1 DEF Due, RowOf
  <2>6. t.pc = "promote" => \A b \in t.todo : Due(t, b)
    BY <1>0, <2>1, <2>4, <2>5 DEF Released
  <2>7. Reports(t) => Reports(tx[p]) /\ tx[p].pc # "write"
    BY <2>1, <2>2 DEF Reports, LeaseOps
  <2> QED
    BY <2>3, <2>6, <2>7, KeepsTables
<1> QED
  BY <1>2, <1>3, <1>5, <1>6, <1>7 DEF VisitsRow

\* Logging changes nothing that is owed.
LEMMA LogsRowTables ==
  ASSUME StoreInv, StatusInv, ContractInv, NEW p \in Sessions, NEW t, NEW n, LogsRow(p, t, n)
  PROVE  TablesFit(t)
<1>0. Place(tx[p]) /\ StatusWritten(tx[p])
  BY SessionTx, SessionStatus
<1>1. ASSUME NEW a, NEW pc \in {"promoted", "expired"}, NEW new, HitLogged(p, pc, a, new, t)
      PROVE  TablesFit(t)
  <2>1. /\ tx[p].pc = pc /\ t.op = tx[p].op /\ t.claim = tx[p].claim /\ t.rows = tx[p].rows
        /\ t.todo = tx[p].todo /\ t.pc = PlaceAfter(pc, t.todo, t.hit, t.op)
    BY <1>1 DEF HitLogged, SameCall
  <2>2. t.op \in {"Complete", "RunSchedulerPass"} /\ (pc = "expired" => t.op = "RunSchedulerPass")
    BY <1>0, <2>1, EmptyTx DEF Place, LeaseOps
  <2>3. t.pc # "promote"
    BY <2>1 DEF PlaceAfter
  <2>4. Reports(t) => Reports(tx[p]) /\ tx[p].pc # "write"
    BY <2>1, <2>2 DEF Reports, LeaseOps
  <2>5. KeepsRows(p, t)
    BY <2>1, <2>2 DEF KeepsRows
  <2> QED
    BY <2>3, <2>4, <2>5, KeepsTables
<1>2. ASSUME NEW v, NEW a, CancelRowLogged(p, v, a, t)
      PROVE  TablesFit(t)
  <2>1. /\ tx[p].pc = "dropped" /\ t.pc = "dropped" /\ KeepsRows(p, t) /\ t.op = tx[p].op
    BY <1>2 DEF CancelRowLogged, SameCall, SameTables, KeepsRows
  <2>2. t.op = "Cancel"
    BY <1>0, <2>1, EmptyTx DEF Place, LeaseOps
  <2>3. ~Reports(t)
    BY <2>2 DEF Reports, LeaseOps
  <2> QED
    BY <2>1, <2>3, KeepsTables
<1> QED
  BY <1>1, <1>2 DEF LogsRow

\* lockActivity lets the holder pass, and releaseReady selects what is due.
LEMMA MovesOnTables ==
  ASSUME StoreInv, StatusInv, ContractInv, NEW p \in Sessions, NEW t, NEW n, MovesOn(p, t, n)
  PROVE  TablesFit(t)
<1>0. Place(tx[p]) /\ StatusWritten(tx[p]) /\ RowLocked(tx[p])
  BY SessionTx, SessionStatus
<1>1. CASE t = Idle
  BY <1>1, EmptyTx DEF TablesFit, Covered, Released, ByHolder, Reports, LeaseOps
<1>2. CASE Locked(p, t)
  <2> DEFINE a == Subject(p)
  <2>1. /\ tx[p].pc = "lock" /\ activities[a].status = "running" /\ t.op = tx[p].op
        /\ t.pc = IF currentLease(p, activities[a]) THEN "write" ELSE "stale"
        /\ t.claim = tx[p].claim /\ t.wfs = tx[p].wfs /\ IsPut(t.rows, tx[p].rows, a, activities[a])
    BY <1>2 DEF Locked, SameCall
  <2>2. t.op \in LeaseOps /\ DOMAIN t.wfs = {} /\ DOMAIN tx[p].rows = {}
    BY <1>0, <2>1, EmptyTx DEF Place, StatusWritten, RowLocked
  <2>3. DOMAIN t.rows = {a} /\ t.rows[a] = activities[a]
    BY <2>1, <2>2 DEF IsPut
  <2>4. a = t.claim.activity
    BY <2>1 DEF Subject
  <2>5. Reports(t) => t.pc = "write"
    BY <2>1, <2>2, <2>3 DEF Reports
  <2>6. t.pc = "write" => HolderOf(t, a)
    BY <2>1 DEF currentLease, HolderOf
  <2> HIDE DEF a
  <2>7. ByHolder(t)
    BY <2>3, <2>4, <2>5, <2>6 DEF ByHolder
  <2>8. Covered(t) /\ Released(t)
    BY <2>1, <2>2, <2>3 DEF Covered, Released, LeaseOps
  <2> QED
    BY <2>7, <2>8 DEF TablesFit
<1>3. CASE ReleaseBegun(p, t)
  <2>1. /\ tx[p].pc = "release" /\ t.op = tx[p].op /\ t.claim = tx[p].claim /\ t.rows = tx[p].rows
        /\ t.wfs = tx[p].wfs /\ t.pc = PlaceAfter("promote", t.todo, t.hit, t.op)
        /\ \A a \in t.todo : /\ WorkflowOf(a) \in Scope(p) /\ dependenciesComplete(p, a)
    BY <1>3 DEF ReleaseBegun, SameCall, SameTables
  <2>2. t.op \in {"Complete", "RunSchedulerPass"}
    BY <1>0, <2>1, EmptyTx DEF Place, LeaseOps
  <2>3. \A b : RowOf(t, b) = Row(p, b)
    BY <2>1 DEF RowOf, Row
  <2>4. \A a \in t.todo : Due(t, a)
    BY <2>1, <2>3 DEF Due, dependenciesComplete, Scope
  <2>5. KeepsRows(p, t)
    BY <2>1, <2>2 DEF KeepsRows
  <2>6. Reports(t) => Reports(tx[p]) /\ tx[p].pc # "write"
    BY <2>1, <2>2 DEF Reports, LeaseOps
  <2> QED
    BY <2>4, <2>5, <2>6, KeepsTables
<1>4. CASE DoneChecked(p, t) \/ LeavesOpen(p, t) \/ Closes(p, t)
  <2>1. /\ tx[p].pc \in {"finish", "close"} /\ t.pc \in {"close", "commit"} /\ t.op = tx[p].op
        /\ t.claim = tx[p].claim /\ t.rows = tx[p].rows /\ t.todo = tx[p].todo
    BY <1>4 DEF DoneChecked, LeavesOpen, Closes, SameCall, SameTables, SameLoop
  <2>2. t.op = "Complete"
    BY <1>0, <2>1, EmptyTx DEF Place, LeaseOps
  <2>3. KeepsRows(p, t)
    BY <2>1, <2>2 DEF KeepsRows
  <2>4. Reports(t) => Reports(tx[p]) /\ tx[p].pc # "write"
    BY <2>1, <2>2 DEF Reports, LeaseOps
  <2> QED
    BY <2>1, <2>3, <2>4, KeepsTables
<1>5. CASE \E w \in Workflows : CancelDone(p, w, t)
  <2>1. /\ tx[p].pc = "dropped" /\ t.pc = "commit" /\ KeepsRows(p, t) /\ t.op = tx[p].op
    BY <1>5 DEF CancelDone, SameCall, SameTables, SameLoop, KeepsRows
  <2>2. t.op = "Cancel"
    BY <1>0, <2>1, EmptyTx DEF Place, LeaseOps
  <2>3. ~Reports(t)
    BY <2>2 DEF Reports, LeaseOps
  <2> QED
    BY <2>1, <2>3, KeepsTables
<1> QED
  BY <1>1, <1>2, <1>3, <1>4, <1>5 DEF MovesOn

\* Statements keep the invariant.
LEMMA StatementContract ==
  ASSUME StoreInv, HistoryInv, StatusInv, ContractInv, NEW p \in Sessions, NEW t, NEW n, Statement(p, t, n)
  PROVE  ContractInv'
<1>1. LocksFit(p, t)
  BY StatementLocks
<1>2. TablesFit(t)
  BY BeginsTables, WritesTables, VisitsTables, LogsRowTables, MovesOnTables DEF Statement
<1>3. tx' = [q \in Sessions |-> IF q = p THEN t ELSE tx[q]]
  BY DEF Statement, Becomes, StoreInv, Transactions
<1>4. activities' = activities
  BY DEF Statement
<1>5. CancelExcludes'
  <2>1. \A q \in Sessions : q # p /\ tx[q].op = "Cancel" => DOMAIN tx[q].wfs \cap t.keyshare = {}
    BY <1>1 DEF LocksFit, NewKeys, KeyShareFree, Others, ContractInv, CancelExcludes
  <2>2. \A q \in Sessions : q # p /\ t.op = "Cancel" => DOMAIN t.wfs \cap tx[q].keyshare = {}
    BY <1>1 DEF LocksFit, CancelFresh, UpdateFree, Others, ContractInv, CancelExcludes
  <2> QED
    BY <1>3, <2>1, <2>2 DEF ContractInv, CancelExcludes
<1>6. \A q \in Sessions : TxContract(tx[q])'
  <2> TAKE q \in Sessions
  <2>1. TxContract(tx'[q])
    BY <1>1, <1>2, <1>3 DEF LocksFit, TablesFit, ContractInv, TxContract
  <2> QED
    BY <1>4, <2>1 DEF TxContract, KeyShared, Covered, Released, Due, RowOf, ByHolder, Reports, HolderOf
<1> QED
  BY <1>5, <1>6 DEF ContractInv

-----------------------------------------------------------------------------
(* Commits.                                                                *)

\* A commit that changes the status of an activity has its workflow locked.
LEMMA CommitHasKey ==
  ASSUME StoreInv, HistoryInv, ContractInv, NEW p \in Sessions, Commit(p), NEW a \in Activities,
         activities'[a].status # activities[a].status
  PROVE  WorkflowOf(a) \in tx[p].keyshare
<1>1. a \in DOMAIN tx[p].rows /\ activities'[a] = tx[p].rows[a]
  BY CommittedRow
<1>2. MovesLogged(tx[p]) /\ LoggedMoves(tx[p]) /\ Finished(tx[p]) /\ tx[p].pc = "commit"
  BY SessionLog DEF Commit
<1>3. ~Unlogged(tx[p], a)
  BY <1>2 DEF Finished, Unlogged
<1>4. PICK e \in tx[p].log : e.subject = a /\ IsMove(e)
  BY <1>1, <1>2, <1>3 DEF MovesLogged, MovesOf
<1>5. e.workflow = WorkflowOf(a)
  BY <1>2, <1>4 DEF LoggedMoves, Told
<1> QED
  BY <1>4, <1>5, SessionContract DEF KeyShared

\* A commit takes nothing from under the transactions of others: what was due
\* stays due, and nothing begins to wait in a workflow that is being cancelled.
LEMMA CommitContract ==
  ASSUME StoreInv, HistoryInv, StatusInv, ContractInv, NEW p \in Sessions, Commit(p)
  PROVE  ContractInv'
<1>1. tx' = [q \in Sessions |-> IF q = p THEN Idle ELSE tx[q]]
  BY DEF Commit, Becomes, StoreInv, Transactions
<1>2. CancelExcludes'
  BY <1>1, EmptyTx DEF ContractInv, CancelExcludes
<1>3. ASSUME NEW q \in Sessions
      PROVE  TxContract(tx[q])'
  <2>1. CASE q = p
    <3>1. tx'[q] = Idle
      BY <1>1, <2>1
    <3> QED
      BY <3>1, EmptyTx DEF TxContract, KeyShared, Covered, Released, ByHolder, Reports, LeaseOps
  <2>2. CASE q # p
    <3>1. tx'[q] = tx[q]
      BY <1>1, <2>2
    <3>2. KeyShared(tx[q]) /\ Covered(tx[q]) /\ Released(tx[q]) /\ ByHolder(tx[q]) /\ Shape(tx[q])
      BY SessionContract, SessionTx
    <3>3. \A a \in DOMAIN tx[q].rows : activities'[a] = activities[a]
      BY <2>2, CommitSpares
    <3>4. \A a \in Activities : RowOf(tx[q], a).status = "completed" => (RowOf(tx[q], a)').status = "completed"
      BY <3>1, CommittedStatus DEF RowOf
    <3>5. \A w : Of(w)' = Of(w) /\ Of(w) \subseteq Activities
      BY DEF Of, WorkflowOf
    <3>6. Covered(tx[q])'
      <4> SUFFICES ASSUME tx[q].op = "Cancel", NEW w \in DOMAIN tx[q].wfs, NEW a \in Of(w),
                          Pending(activities'[a])
                   PROVE  a \in tx[q].todo \cup DOMAIN tx[q].rows
        BY <3>1, <3>5 DEF Covered, Pending
      <4>1. w \notin tx[p].keyshare
        BY <2>2 DEF ContractInv, CancelExcludes
      <4>2. activities'[a].status = activities[a].status
        BY <3>5, <4>1, CommitHasKey DEF Of
      <4> QED
        BY <3>2, <4>2 DEF Covered, Pending
    <3>7. \A a \in Activities : Due(tx[q], a) => Due(tx[q], a)'
      <4> SUFFICES ASSUME NEW a \in Activities, Due(tx[q], a) PROVE Due(tx[q], a)'
        OBVIOUS
      <4>1. \A d \in Plan[a].dependsOn : d \in Activities
        BY PgAssumption
      <4> QED
        BY <3>1, <3>4, <4>1 DEF Due, WorkflowOf
    <3>8. Released(tx[q])'
      BY <3>1, <3>2, <3>3, <3>7 DEF Released, Shape
    <3>9. ByHolder(tx[q])'
      <4>1. Reports(tx[q])' <=> Reports(tx[q])
        BY <3>1, <3>3 DEF Reports
      <4>2. \A a \in DOMAIN tx[q].rows : HolderOf(tx[q], a)' <=> HolderOf(tx[q], a)
        BY <3>1, <3>3 DEF HolderOf
      <4> QED
        BY <3>1, <3>2, <3>3, <4>1, <4>2 DEF ByHolder
    <3>10. KeyShared(tx[q])'
      BY <3>1, <3>2 DEF KeyShared
    <3> QED
      BY <3>6, <3>8, <3>9, <3>10 DEF TxContract
  <2> QED
    BY <2>1, <2>2
<1> QED
  BY <1>2, <1>3 DEF ContractInv

\* Nothing is owed at the start.
LEMMA ContractInit ==
  ASSUME Init
  PROVE  ContractInv
<1>1. \A p \in Sessions : tx[p] = Idle
  BY DEF Init
<1> QED
  BY <1>1, EmptyTx DEF ContractInv, CancelExcludes, TxContract, KeyShared, Covered, Released, ByHolder,
                       Reports, LeaseOps

\* Every step keeps the invariant.
LEMMA ContractNext ==
  ASSUME StoreInv, HistoryInv, StatusInv, ContractInv, [Next]_vars
  PROVE  ContractInv'
<1>1. CASE UNCHANGED <<activities, tx>>
  <2>1. \A q \in Sessions : TxContract(tx[q])'
    BY <1>1 DEF ContractInv, TxContract, KeyShared, Covered, Released, Due, RowOf, ByHolder, Reports, HolderOf
  <2> QED
    BY <1>1, <2>1 DEF ContractInv, CancelExcludes
<1>2. ASSUME NEW p \in Sessions, Step(p)
      PROVE  ContractInv'
  <2>1. CASE UNCHANGED vars
    BY <1>1, <2>1 DEF vars
  <2> QED
    BY <1>2, <2>1, StepCases, CommitContract, StatementContract
<1> QED
  BY <1>1, <1>2 DEF Next, Tick, vars

\* The invariant holds throughout.
LEMMA ContractAlways == Spec => [](StoreInv /\ HistoryInv /\ StatusInv /\ ContractInv)
<1>1. Init => StoreInv /\ HistoryInv /\ StatusInv /\ ContractInv
  BY StoreInit, HistoryInit, StatusInit, ContractInit
<1>2. /\ StoreInv /\ HistoryInv /\ StatusInv /\ ContractInv /\ [Next]_vars
      => StoreInv' /\ HistoryInv' /\ StatusInv' /\ ContractInv'
  BY StoreNext, HistoryNext, StatusNext, ContractNext
<1> QED
  BY <1>1, <1>2, PTL DEF Spec

-----------------------------------------------------------------------------
(* The mapping.                                                            *)

ContractStep == [Contract!LifecycleNext]_(Contract!contract)

\* What the contract sees of a row.
Seen(row) == [status |-> row.status, token |-> row.token, owner |-> row.owner]

\* The contract's functions are the store's tables.
LEMMA Mapped ==
  /\ Contract!Activities = Activities
  /\ \A w : Contract!OfWorkflow(w) = Of(w)
  /\ \A a \in Activities :
       /\ ContractPlan[a].workflow = WorkflowOf(a) /\ ContractPlan[a].dependsOn = Plan[a].dependsOn
       /\ ContractPlan[a].maxAttempts = Plan[a].maxAttempts
       /\ ContractRows[a] = Seen(activities[a]) /\ ContractRows[a].status = activities[a].status
       /\ ContractRows[a].token = activities[a].token /\ ContractRows[a].owner = activities[a].owner
<1>1. Contract!Activities = Activities
  BY DEF Contract!Activities, ContractPlan
<1>2. \A a \in Activities :
       /\ ContractPlan[a].workflow = WorkflowOf(a) /\ ContractPlan[a].dependsOn = Plan[a].dependsOn
       /\ ContractPlan[a].maxAttempts = Plan[a].maxAttempts
  BY DEF ContractPlan, WorkflowOf
<1> QED
  BY <1>1, <1>2 DEF Contract!OfWorkflow, Of, ContractRows, Seen

\* The plan never changes, and the rows of the contract are those committed.
LEMMA MappedNext ==
  /\ ContractPlan' = ContractPlan
  /\ \A table :
       /\ DOMAIN table = Activities /\ table = [a \in DOMAIN table |-> table[a]]
       /\ \A a \in Activities : table[a] = Seen(activities'[a])
       => ContractRows' = table
BY DEF ContractPlan, ContractRows, Seen

\* The tables Start has left are an initial state of the contract.
LEMMA ContractStarts ==
  ASSUME Init
  PROVE  Contract!LifecycleInit
<1>1. /\ workflows = [w \in Workflows |-> "running"] /\ claims = {}
      /\ activities = [a \in Activities |->
           [status |-> IF Plan[a].dependsOn = {} THEN "ready" ELSE "retry_pending",
            attempt |-> 0, token |-> 0, owner |-> NoOwner, expires |-> 0, nextAt |-> 1]]
  BY DEF Init
<1>2. ContractRows = [a \in Activities |-> Contract!Fresh(ContractPlan[a])]
  BY <1>1, Mapped DEF ContractRows, Contract!Fresh
<1>3. \A a \in Activities : /\ ContractPlan[a].workflow \in Workflows
                            /\ ContractPlan[a].dependsOn \subseteq Of(ContractPlan[a].workflow)
  BY Mapped, PgAssumption DEF Of, WorkflowOf
<1> QED
  BY <1>1, <1>2, <1>3, Mapped DEF Contract!LifecycleInit

\* The steps of the contract.
LEMMA StepsOfContract ==
  /\ UNCHANGED <<workflows, claims, ContractRows>> => ContractStep
  /\ \A a \in Activities, worker \in Workers : Contract!Claim(a, worker) => ContractStep
  /\ \A c \in claims, released \in SUBSET Activities : Contract!Complete(c, released) => ContractStep
  /\ \A c \in claims, retryable \in BOOLEAN : Contract!Fail(c, retryable) => ContractStep
  /\ \A w \in DOMAIN workflows : Contract!Cancel(w) => ContractStep
  /\ \A lapsed, released \in SUBSET Activities :
       Contract!RunSchedulerPass(lapsed, released) => ContractStep
BY Mapped, MappedNext DEF ContractStep, Contract!LifecycleNext, Contract!contract

\* What a claim holds is the same to both.
LEMMA HolderHolds ==
  ASSUME StoreInv, NEW t, t.claim \in claims, HolderOf(t, t.claim.activity)
  PROVE  t.claim.activity \in Activities /\ Contract!Holds(t.claim)
<1> DEFINE c == t.claim
<1>1. c.activity \in Activities /\ c = [activity |-> c.activity, worker |-> c.worker, token |-> c.token]
  BY DEF StoreInv, TypeOK
<1>2. /\ activities[c.activity].status = "running" /\ activities[c.activity].owner = c.worker
      /\ activities[c.activity].token = c.token
  BY DEF HolderOf
<1> HIDE DEF c
<1>3. Contract!Holds(c)
  BY <1>1, <1>2, Mapped DEF Contract!Holds, Contract!Claimed
<1> QED
  BY <1>1, <1>3 DEF c

\* The fencing token counts the attempts, so both mean the same by budget.
LEMMA BudgetIsSame ==
  ASSUME StoreInv, NEW a \in Activities
  PROVE  Contract!HasBudget(a) <=> activities[a].attempt < Plan[a].maxAttempts
BY Mapped DEF Contract!HasBudget, StoreInv, LeaseHolderIsLatestClaim

\* Giving up a lease is the same to both.
LEMMA FreedMapped ==
  ASSUME NEW a \in Activities, NEW status
  PROVE  Contract!Freed(a, status) = [status |-> status, token |-> activities[a].token, owner |-> NoOwner]
<1> DEFINE r == [status |-> activities[a].status, token |-> activities[a].token,
                 owner |-> activities[a].owner]
<1>1. ContractRows[a] = r
  BY Mapped DEF Seen
<1>2. Contract!Freed(a, status) = [[ContractRows[a] EXCEPT !.status = status] EXCEPT !.owner = NoOwner]
  BY DEF Contract!Freed
<1>3. Contract!Freed(a, status) = [[r EXCEPT !.status = status] EXCEPT !.owner = NoOwner]
  BY <1>1, <1>2
<1> QED
  BY <1>3

\* A change of status alone is the same to both.
LEMMA StatusMapped ==
  ASSUME NEW a \in Activities, NEW status
  PROVE  [ContractRows[a] EXCEPT !.status = status]
           = [status |-> status, token |-> activities[a].token, owner |-> activities[a].owner]
<1>1. ContractRows[a] = [status |-> activities[a].status, token |-> activities[a].token,
                         owner |-> activities[a].owner]
  BY Mapped DEF Seen
<1> QED
  BY <1>1

-----------------------------------------------------------------------------
(* Every commit is a step of the contract.                                 *)

\* What is true of every transaction that commits.
LEMMA AtCommit ==
  ASSUME StoreInv, HistoryInv, NEW p \in Sessions, Commit(p)
  PROVE  /\ tx[p].op \in LeaseOps \cup {"Claim", "Cancel", "RunSchedulerPass"}
         /\ tx[p].pc = "commit" /\ tx[p].todo = {} /\ tx[p].hit = {}
         /\ DOMAIN tx[p].rows \subseteq Activities /\ DOMAIN tx[p].wfs \subseteq Workflows
         /\ DOMAIN workflows = Workflows /\ workflows = [w \in DOMAIN workflows |-> workflows[w]]
         /\ tx[p].op # "Claim" => claims' = claims
         /\ workflows' = [w \in Workflows |->
                            IF w \in DOMAIN tx[p].wfs THEN tx[p].wfs[w] ELSE workflows[w]]
<1>1. Place(tx[p]) /\ Shape(tx[p]) /\ Finished(tx[p]) /\ tx[p].pc = "commit"
  BY SessionTx, SessionLog DEF Commit
<1>2. tx[p].op \in LeaseOps \cup {"Claim", "Cancel", "RunSchedulerPass"}
  BY <1>1, EmptyTx DEF Place
<1>3. tx[p].op # "Claim" => claims' = claims
  BY DEF Commit
<1>4. workflows' = [w \in Workflows |->
                      IF w \in DOMAIN tx[p].wfs THEN tx[p].wfs[w] ELSE workflows[w]]
  BY DEF Commit, Status
<1>5. DOMAIN workflows = Workflows /\ workflows = [w \in DOMAIN workflows |-> workflows[w]]
  BY DEF StoreInv, TypeOK
<1> QED
  BY <1>1, <1>2, <1>3, <1>4, <1>5 DEF Finished, Shape

\* A commit that has written no workflow changes none.
LEMMA SameWorkflows ==
  ASSUME StoreInv, HistoryInv, NEW p \in Sessions, Commit(p), DOMAIN tx[p].wfs = {}
  PROVE  workflows' = workflows
<1>1. /\ DOMAIN workflows = Workflows /\ workflows = [w \in DOMAIN workflows |-> workflows[w]]
      /\ workflows' = [w \in Workflows |-> IF w \in DOMAIN tx[p].wfs THEN tx[p].wfs[w] ELSE workflows[w]]
  BY AtCommit
<1> QED
  BY <1>1

\* A commit that has written one workflow changes that one.
LEMMA OneWorkflow ==
  ASSUME StoreInv, HistoryInv, NEW p \in Sessions, Commit(p), NEW w, NEW status,
         DOMAIN tx[p].wfs = {w}, tx[p].wfs[w] = status
  PROVE  workflows' = [workflows EXCEPT ![w] = status]
<1>1. /\ DOMAIN workflows = Workflows /\ workflows = [v \in DOMAIN workflows |-> workflows[v]]
      /\ DOMAIN tx[p].wfs \subseteq Workflows
      /\ workflows' = [v \in Workflows |-> IF v \in DOMAIN tx[p].wfs THEN tx[p].wfs[v] ELSE workflows[v]]
  BY AtCommit
<1> QED
  BY <1>1

\* The commit of Claim is the contract's Claim.
LEMMA CommitClaims ==
  ASSUME StoreInv, HistoryInv, StatusInv, NEW p \in Sessions, Commit(p), tx[p].op = "Claim"
  PROVE  ContractStep
<1>1. PICK a \in Activities : DOMAIN tx[p].rows = {a}
  BY SessionLog DEF Holdings
<1> DEFINE new == tx[p].rows[a]
           seen == [status |-> "running", token |-> activities[a].token + 1, owner |-> new.owner]
<1>2. /\ activities[a].status = "ready" /\ new.status = "running"
      /\ new.token = activities[a].token + 1 /\ new.owner \in Workers
      /\ activities'[a] = new
  BY <1>1, CommittedRow DEF Moves, LeaseOps
<1>3. \A b \in Activities : b # a => activities'[b] = activities[b]
  BY <1>1, CommittedRow
<1>4. claims' = claims \cup {[activity |-> a, worker |-> new.owner, token |-> activities[a].token + 1]}
  <2>1. claims' = claims \cup {[activity |-> b, worker |-> tx[p].rows[b].owner, token |-> tx[p].rows[b].token] :
                                 b \in {a}}
    BY <1>1 DEF Commit
  <2> QED
    BY <1>2, <2>1
<1>5. DOMAIN tx[p].wfs = {}
  BY SessionStatus DEF StatusWritten
<1>6. workflows' = workflows
  BY <1>5, SameWorkflows
<1>7. Seen(new) = seen
  BY <1>2 DEF Seen
<1> HIDE DEF new
<1>8. ContractRows' = [ContractRows EXCEPT ![a] = seen]
  <2> DEFINE table == [ContractRows EXCEPT ![a] = seen]
  <2>1. DOMAIN table = Activities /\ table = [b \in DOMAIN table |-> table[b]]
    BY DEF ContractRows
  <2>2. \A b \in Activities : table[b] = IF b = a THEN seen ELSE ContractRows[b]
    BY DEF ContractRows
  <2> HIDE DEF table
  <2>3. \A b \in Activities : table[b] = Seen(activities'[b])
    BY <1>2, <1>3, <1>7, <2>2, Mapped
  <2> QED
    BY <2>1, <2>3, MappedNext DEF table
<1>9. ContractRows[a].status = "ready" /\ ContractRows[a].token = activities[a].token
  BY <1>2, Mapped
<1>10. Contract!Claim(a, new.owner)
  BY <1>4, <1>6, <1>8, <1>9, MappedNext DEF Contract!Claim
<1> QED
  BY <1>2, <1>10, StepsOfContract

\* A rejected call and a heartbeat change nothing the contract speaks of.
LEMMA CommitsQuietly ==
  ASSUME StoreInv, HistoryInv, StatusInv, NEW p \in Sessions, Commit(p), tx[p].op \in LeaseOps,
         ~Reports(tx[p])
  PROVE  ContractStep
<1>1. /\ DOMAIN tx[p].wfs = {} /\ \A a \in DOMAIN tx[p].rows : tx[p].rows[a].status = activities[a].status
  BY DEF Reports
<1>2. workflows' = workflows /\ claims' = claims
  BY <1>1, SameWorkflows, AtCommit DEF LeaseOps
<1>3. ASSUME NEW a \in Activities
      PROVE  Seen(activities'[a]) = ContractRows[a]
  <2>1. \/ activities'[a] = activities[a]
        \/ /\ activities'[a].status = activities[a].status
           /\ Moves(tx[p].op, a, activities[a], activities'[a])
    BY <1>1, CommittedRow
  <2>2. /\ activities'[a].status = activities[a].status /\ activities'[a].token = activities[a].token
        /\ activities'[a].owner = activities[a].owner
    BY <2>1 DEF Moves, LeaseOps, Pending
  <2> QED
    BY <2>2, Mapped DEF Seen
<1>4. ContractRows' = ContractRows
  <2>1. DOMAIN ContractRows = Activities /\ ContractRows = [b \in DOMAIN ContractRows |-> ContractRows[b]]
    BY DEF ContractRows
  <2> QED
    BY <1>3, <2>1, MappedNext
<1> QED
  BY <1>2, <1>4, StepsOfContract

\* A heartbeat reports no result.
LEMMA HeartbeatsQuiet ==
  ASSUME StoreInv, HistoryInv, StatusInv, NEW p \in Sessions, Commit(p), tx[p].op = "Heartbeat"
  PROVE  ~Reports(tx[p])
<1>1. DOMAIN tx[p].wfs = {}
  BY SessionStatus DEF StatusWritten
<1>2. \A a \in DOMAIN tx[p].rows : tx[p].rows[a].status = activities[a].status
  BY SessionTx DEF RowsMoved, Moves, LeaseOps
<1> QED
  BY <1>1, <1>2, AtCommit DEF Reports

\* What is released with a result, or by a scheduler pass, is releasable.
LEMMA DueIsReleasable ==
  ASSUME StoreInv, ContractInv, NEW p \in Sessions, tx[p].op \in {"Complete", "RunSchedulerPass"},
         NEW table, \A d \in Activities : RowOf(tx[p], d).status = "completed" => table[d].status = "completed",
         NEW a \in DOMAIN tx[p].rows, activities[a].status = "retry_pending",
         table[a].status = "retry_pending"
  PROVE  a \in Contract!Releasable(table)
<1>1. a \in Activities /\ \A d \in Plan[a].dependsOn : d \in Activities
  BY SessionTx, PgAssumption DEF Shape
<1>2. \A d \in Plan[a].dependsOn : RowOf(tx[p], d).status = "completed"
  BY SessionContract DEF Released, Due
<1> QED
  BY <1>1, <1>2, Mapped DEF Contract!Releasable, Contract!DependenciesComplete

\* The commit of an accepted Complete is the contract's Complete, which may miss
\* that it was the last.
LEMMA CommitCompletes ==
  ASSUME StoreInv, HistoryInv, StatusInv, ContractInv, NEW p \in Sessions, Commit(p),
         tx[p].op = "Complete", Reports(tx[p])
  PROVE  ContractStep
<1> DEFINE c == tx[p].claim
           x == c.activity
           w == WorkflowOf(x)
           released == DOMAIN tx[p].rows \ {x}
           done == [ContractRows EXCEPT ![x] = Contract!Freed(x, "completed")]
<1>1. /\ tx[p].pc = "commit" /\ DOMAIN tx[p].rows \subseteq Activities /\ claims' = claims
      /\ c \in claims
  BY AtCommit, SessionTx DEF ClaimKnown, LeaseOps
<1>2. /\ x \in DOMAIN tx[p].rows /\ HolderOf(tx[p], x) /\ tx[p].rows[x].status = "completed"
      /\ \A b \in released : activities[b].status = "retry_pending"
  BY <1>1, SessionContract DEF ByHolder
<1>3. x \in Activities /\ Contract!Holds(c) /\ activities[x].status = "running"
  BY <1>1, <1>2, HolderHolds DEF HolderOf
<1>4. Seen(activities'[x]) = [status |-> "completed", token |-> activities[x].token, owner |-> NoOwner]
  BY <1>2, <1>3, CommittedRow DEF Moves, LeaseOps, Seen, Pending
<1>5. \A b \in released : /\ tx[p].rows[b].status = "ready"
                          /\ Seen(activities'[b]) = [status |-> "ready", token |-> activities[b].token,
                                                     owner |-> activities[b].owner]
  <2>1. ASSUME NEW b \in released
        PROVE  /\ tx[p].rows[b].status = "ready" /\ activities'[b].status = "ready"
               /\ activities'[b].token = activities[b].token /\ activities'[b].owner = activities[b].owner
    BY <1>1, <1>2, <2>1, CommittedRow DEF Moves, LeaseOps, Pending
  <2> QED
    BY <2>1 DEF Seen
<1>6. \A b \in Activities : b \notin released /\ b # x => activities'[b] = activities[b]
  BY CommittedRow
<1>7. /\ DOMAIN done = Activities /\ done[x] = Contract!Freed(x, "completed")
      /\ \A b \in Activities : b # x => done[b] = ContractRows[b]
  BY <1>3 DEF ContractRows
<1>8. done[x].status = "completed"
  BY <1>3, <1>7, FreedMapped
<1>9. \A d \in Activities : RowOf(tx[p], d).status = "completed" => done[d].status = "completed"
  BY <1>5, <1>7, <1>8, Mapped DEF RowOf
<1> HIDE DEF done
<1>10. released \subseteq Contract!Releasable(done) \cap Contract!OfWorkflow(w)
  <2>1. ASSUME NEW b \in released
        PROVE  b \in Contract!Releasable(done) /\ b \in Contract!OfWorkflow(w)
    <3>1. b \in Activities /\ b # x /\ activities[b].status = "retry_pending"
      BY <1>1, <1>2, <2>1
    <3>2. done[b].status = "retry_pending"
      BY <1>7, <3>1, Mapped
    <3>3. WorkflowOf(b) = w
      BY <2>1, <3>1, SessionContract DEF Released, Due
    <3> QED
      BY <1>9, <2>1, <3>1, <3>2, <3>3, DueIsReleasable, Mapped DEF Of
  <2> QED
    BY <2>1
<1>11. ContractRows' = Contract!With(done, released, "ready")
  <2> DEFINE table == Contract!With(done, released, "ready")
  <2>1. DOMAIN table = Activities /\ table = [b \in DOMAIN table |-> table[b]]
    BY Mapped DEF Contract!With
  <2>2. \A b \in Activities : table[b] = IF b \in released THEN [done[b] EXCEPT !.status = "ready"] ELSE done[b]
    BY Mapped DEF Contract!With
  <2> HIDE DEF table
  <2>3. ASSUME NEW b \in Activities
        PROVE  table[b] = Seen(activities'[b])
    <3>1. CASE b = x
      BY <1>3, <1>4, <1>7, <2>2, <3>1, FreedMapped
    <3>2. CASE b \in released
      <4>1. table[b] = [ContractRows[b] EXCEPT !.status = "ready"]
        BY <1>7, <2>2, <3>2
      <4> QED
        BY <1>5, <3>2, <4>1, StatusMapped
    <3>3. CASE b \notin released /\ b # x
      <4>1. table[b] = ContractRows[b] /\ activities'[b] = activities[b]
        BY <1>6, <1>7, <2>2, <3>3
      <4> QED
        BY <4>1, Mapped
    <3> QED
      BY <3>1, <3>2, <3>3
  <2> QED
    BY <2>1, <2>3, MappedNext DEF table
<1> DEFINE last == /\ workflows[w] = "running"
                   /\ \A a \in Contract!OfWorkflow(w) : done[a].status = "completed"
<1>12. workflows' = workflows \/ (last /\ workflows' = [workflows EXCEPT ![w] = "completed"])
  <2>1. CASE DOMAIN tx[p].wfs = {}
    BY <2>1, SameWorkflows
  <2>2. CASE DOMAIN tx[p].wfs # {}
    <3>1. \A v \in DOMAIN tx[p].wfs :
             /\ v = w /\ tx[p].wfs[v] = "completed" /\ workflows[v] = "running"
             /\ \A a \in Of(v) : RowOf(tx[p], a).status = "completed"
      BY SessionStatus DEF StatusWritten
    <3>2. DOMAIN tx[p].wfs = {w} /\ tx[p].wfs[w] = "completed" /\ workflows[w] = "running"
      BY <2>2, <3>1
    <3>3. workflows' = [workflows EXCEPT ![w] = "completed"]
      BY <3>2, OneWorkflow
    <3>4. \A a \in Contract!OfWorkflow(w) : done[a].status = "completed"
      BY <1>9, <3>1, <3>2, Mapped DEF Of
    <3> QED
      BY <3>2, <3>3, <3>4
  <2> QED
    BY <2>1, <2>2
<1>13. ContractPlan[x].workflow = w
  BY <1>3, Mapped
<1>14. Contract!Complete(c, released)
  <2>1. workflows' \in {[workflows EXCEPT ![w] = IF last THEN "completed" ELSE @]} \cup {workflows}
    BY <1>12
  <2> HIDE DEF w, released
  <2> QED
    BY <1>1, <1>3, <1>10, <1>11, <1>13, <2>1, MappedNext DEF Contract!Complete, done
<1>15. released \in SUBSET Activities
  BY <1>1
<1> HIDE DEF released
<1> QED
  BY <1>1, <1>14, <1>15, StepsOfContract

\* The commit of an accepted Fail is the contract's Fail.
LEMMA CommitFails ==
  ASSUME StoreInv, HistoryInv, StatusInv, ContractInv, NEW p \in Sessions, Commit(p),
         tx[p].op = "Fail", Reports(tx[p])
  PROVE  ContractStep
<1> DEFINE c == tx[p].claim
           x == c.activity
           new == tx[p].rows[x]
           retry == new.status = "retry_pending"
<1>1. /\ tx[p].pc = "commit" /\ tx[p].hit = {} /\ DOMAIN tx[p].rows \subseteq Activities /\ claims' = claims
      /\ c \in claims
  BY AtCommit, SessionTx DEF ClaimKnown, LeaseOps
<1>2. /\ x \in DOMAIN tx[p].rows /\ HolderOf(tx[p], x)
      /\ \A b \in DOMAIN tx[p].rows \ {x} : activities[b].status = "retry_pending"
  BY SessionContract DEF ByHolder
<1>3. x \in Activities /\ Contract!Holds(c) /\ activities[x].status = "running"
  BY <1>1, <1>2, HolderHolds DEF HolderOf
<1>4. DOMAIN tx[p].rows = {x}
  <2>1. \A b \in DOMAIN tx[p].rows : activities[b].status = "running"
    BY SessionTx DEF RowsMoved, Moves, LeaseOps
  <2> QED
    BY <1>2, <2>1
<1>5. \A v \in DOMAIN tx[p].wfs : v = WorkflowOf(x) /\ tx[p].wfs[v] = "failed" /\ new.status = "failed"
  BY <1>4, SessionStatus DEF StatusWritten, Of
<1>6. new.status # activities[x].status
  BY <1>1, <1>3, <1>4, <1>5 DEF Reports
<1>7. /\ activities'[x] = new /\ new.token = activities[x].token /\ new.owner = NoOwner
      /\ \/ new.status = "failed"
         \/ new.status = "retry_pending" /\ activities[x].attempt < Plan[x].maxAttempts
  BY <1>3, <1>4, <1>6, CommittedRow DEF Moves, LeaseOps
<1>8. \A b \in Activities : b # x => activities'[b] = activities[b]
  BY <1>4, CommittedRow
<1> DEFINE status == IF retry THEN "retry_pending" ELSE "failed"
<1>9. Seen(activities'[x]) = [status |-> status, token |-> activities[x].token, owner |-> NoOwner]
  BY <1>7 DEF Seen
<1>10. retry => Contract!HasBudget(x)
  BY <1>3, <1>7, BudgetIsSame
<1>11. workflows' = IF retry THEN workflows ELSE [workflows EXCEPT ![WorkflowOf(x)] = "failed"]
  <2>1. CASE retry
    <3>1. DOMAIN tx[p].wfs = {}
      BY <1>5, <2>1
    <3> QED
      BY <2>1, <3>1, SameWorkflows
  <2>2. CASE ~retry
    <3>1. WorkflowOf(x) \in DOMAIN tx[p].wfs
      BY <1>1, <1>2, <1>7, <2>2, SessionStatus DEF StatusFollows
    <3>2. DOMAIN tx[p].wfs = {WorkflowOf(x)} /\ tx[p].wfs[WorkflowOf(x)] = "failed"
      BY <1>5, <3>1
    <3> QED
      BY <2>2, <3>2, OneWorkflow
  <2> QED
    BY <2>1, <2>2
<1> HIDE DEF retry
<1>12. ContractRows' = [ContractRows EXCEPT ![x] = Contract!Freed(x, status)]
  <2> DEFINE table == [ContractRows EXCEPT ![x] = Contract!Freed(x, status)]
  <2>1. DOMAIN table = Activities /\ table = [b \in DOMAIN table |-> table[b]]
    BY DEF ContractRows
  <2>2. \A b \in Activities : table[b] = IF b = x THEN Contract!Freed(x, status) ELSE ContractRows[b]
    BY DEF ContractRows
  <2> HIDE DEF table, status
  <2>3. \A b \in Activities : table[b] = Seen(activities'[b])
    BY <1>3, <1>8, <1>9, <2>2, FreedMapped, Mapped
  <2> QED
    BY <2>1, <2>3, MappedNext DEF table
<1>13. ContractPlan[x].workflow = WorkflowOf(x)
  BY <1>3, Mapped
<1>14. Contract!Fail(c, retry)
  BY <1>1, <1>3, <1>10, <1>11, <1>12, <1>13, MappedNext DEF Contract!Fail
<1>15. retry \in BOOLEAN
  BY DEF retry
<1> QED
  BY <1>1, <1>14, <1>15, StepsOfContract

\* The commit of Cancel is the contract's Cancel.
LEMMA CommitCancels ==
  ASSUME StoreInv, HistoryInv, StatusInv, ContractInv, NEW p \in Sessions, Commit(p), tx[p].op = "Cancel"
  PROVE  ContractStep
<1>1. /\ tx[p].pc = "commit" /\ tx[p].todo = {} /\ DOMAIN tx[p].rows \subseteq Activities
      /\ claims' = claims /\ DOMAIN workflows = Workflows
  BY AtCommit
<1>2. PICK w \in Workflows : DOMAIN tx[p].wfs = {w} /\ tx[p].wfs[w] = "cancelled"
  BY SessionStatus DEF Cancelling
<1>3. workflows[w] = "running" /\ workflows' = [workflows EXCEPT ![w] = "cancelled"]
  BY <1>2, SessionStatus, OneWorkflow DEF StatusWritten
<1> DEFINE pending == {a \in Contract!OfWorkflow(w) : ContractRows[a].status \in {"ready", "retry_pending"}}
<1>4. \A a \in DOMAIN tx[p].rows :
        /\ Pending(activities[a]) /\ tx[p].rows[a].status = "cancelled"
        /\ tx[p].rows[a].token = activities[a].token /\ tx[p].rows[a].owner = activities[a].owner
  BY SessionTx DEF RowsMoved, Moves, LeaseOps
<1>5. DOMAIN tx[p].rows \subseteq Of(w)
  BY <1>1, <1>2, SessionLog DEF Holdings, Of
<1>6. \A a \in Of(w) : Pending(activities[a]) => a \in DOMAIN tx[p].rows
  BY <1>1, <1>2, SessionContract DEF Covered
<1>7. pending = DOMAIN tx[p].rows
  <2>1. pending = {a \in Of(w) : Pending(activities[a])}
    BY Mapped DEF Pending, Of
  <2> QED
    BY <1>4, <1>5, <1>6, <2>1
<1> HIDE DEF pending
<1>8. ContractRows' = Contract!With(ContractRows, pending, "cancelled")
  <2> DEFINE table == Contract!With(ContractRows, pending, "cancelled")
  <2>1. DOMAIN table = Activities /\ table = [b \in DOMAIN table |-> table[b]]
    BY Mapped DEF Contract!With
  <2>2. \A b \in Activities : table[b] = IF b \in pending THEN [ContractRows[b] EXCEPT !.status = "cancelled"]
                                         ELSE ContractRows[b]
    BY Mapped DEF Contract!With
  <2> HIDE DEF table
  <2>3. ASSUME NEW b \in Activities
        PROVE  table[b] = Seen(activities'[b])
    <3>1. CASE b \in pending
      <4>1. Seen(activities'[b]) = [status |-> "cancelled", token |-> activities[b].token,
                                    owner |-> activities[b].owner]
        BY <1>4, <1>7, <3>1, CommittedRow DEF Seen
      <4> QED
        BY <2>2, <3>1, <4>1, StatusMapped
    <3>2. CASE b \notin pending
      <4>1. activities'[b] = activities[b]
        BY <1>7, <3>2, CommittedRow
      <4> QED
        BY <2>2, <3>2, <4>1, Mapped
    <3> QED
      BY <3>1, <3>2
  <2> QED
    BY <2>1, <2>3, MappedNext DEF table
<1>9. Contract!Cancel(w)
  BY <1>1, <1>3, <1>8, MappedNext DEF Contract!Cancel, pending
<1> QED
  BY <1>1, <1>9, StepsOfContract

\* The commit of a scheduler pass is the contract's pass.
LEMMA CommitSchedules ==
  ASSUME StoreInv, HistoryInv, StatusInv, ContractInv, NEW p \in Sessions, Commit(p),
         tx[p].op = "RunSchedulerPass"
  PROVE  ContractStep
<1> DEFINE held == DOMAIN tx[p].rows
           lapsed == {a \in held : activities[a].status = "running"}
           released == {a \in held : activities[a].status = "retry_pending"}
           exhausted == {a \in lapsed : ~Contract!HasBudget(a)}
           Swept(a) == Contract!Freed(a, IF a \in exhausted THEN "failed" ELSE "ready")
           swept == [a \in Contract!Activities |-> IF a \in lapsed THEN Swept(a) ELSE ContractRows[a]]
<1>1. /\ tx[p].pc = "commit" /\ tx[p].hit = {} /\ held \subseteq Activities
      /\ claims' = claims /\ DOMAIN workflows = Workflows
      /\ DOMAIN tx[p].wfs \subseteq Workflows
      /\ workflows' = [w \in Workflows |-> IF w \in DOMAIN tx[p].wfs THEN tx[p].wfs[w] ELSE workflows[w]]
  BY AtCommit
<1>2. \A a \in held : a \in lapsed \/ a \in released
  BY SessionTx DEF RowsMoved, Moves, LeaseOps
<1>3. \A a \in lapsed : /\ a \in Activities /\ tx[p].rows[a].token = activities[a].token
                        /\ tx[p].rows[a].owner = NoOwner
                        /\ tx[p].rows[a].status = IF activities[a].attempt < Plan[a].maxAttempts
                                                  THEN "ready" ELSE "failed"
  BY <1>1, SessionTx DEF RowsMoved, Moves, LeaseOps, Pending
<1>4. \A a \in released : /\ a \in Activities /\ a \notin lapsed /\ tx[p].rows[a].status = "ready"
                          /\ tx[p].rows[a].token = activities[a].token
                          /\ tx[p].rows[a].owner = activities[a].owner
  BY <1>1, SessionTx DEF RowsMoved, Moves, LeaseOps, Pending
<1>5. \A a \in lapsed : a \in exhausted <=> tx[p].rows[a].status = "failed"
  BY <1>3, BudgetIsSame
<1>6. exhausted = {a \in held : tx[p].rows[a].status = "failed"}
  BY <1>2, <1>4, <1>5
<1>7. lapsed \subseteq {a \in Contract!Activities : ContractRows[a].status = "running"}
  BY <1>1, Mapped
<1>8. released \subseteq Contract!Releasable(ContractRows)
  <2>1. \A d \in Activities : RowOf(tx[p], d).status = "completed" => ContractRows[d].status = "completed"
    <3>1. \A d \in held : tx[p].rows[d].status # "completed"
      BY <1>2, <1>3, <1>4
    <3> QED
      BY <3>1, Mapped DEF RowOf
  <2>2. ASSUME NEW a \in released
        PROVE  a \in Contract!Releasable(ContractRows)
    BY <1>1, <2>1, <2>2, Mapped, DueIsReleasable
  <2> QED
    BY <2>2
<1> HIDE DEF exhausted
<1>9. ContractRows' = Contract!With(swept, released, "ready")
  <2> DEFINE table == Contract!With(swept, released, "ready")
  <2>1. DOMAIN table = Activities /\ table = [b \in DOMAIN table |-> table[b]]
    BY Mapped DEF Contract!With
  <2>2. \A b \in Activities : swept[b] = IF b \in lapsed THEN Swept(b) ELSE ContractRows[b]
    BY Mapped
  <2> HIDE DEF swept
  <2>3. \A b \in Activities : table[b] = IF b \in released THEN [swept[b] EXCEPT !.status = "ready"]
                                         ELSE swept[b]
    BY Mapped DEF Contract!With
  <2> HIDE DEF table
  <2>4. ASSUME NEW b \in Activities
        PROVE  table[b] = Seen(activities'[b])
    <3>1. ASSUME b \in lapsed
          PROVE  table[b] = Seen(activities'[b])
      <4> DEFINE status == IF b \in exhausted THEN "failed" ELSE "ready"
      <4>1. activities'[b] = tx[p].rows[b] /\ tx[p].rows[b].status = status
        BY <1>3, <1>5, <3>1, CommittedRow
      <4>2. Seen(activities'[b]) = [status |-> status, token |-> activities[b].token, owner |-> NoOwner]
        BY <1>3, <3>1, <4>1 DEF Seen
      <4>3. table[b] = Contract!Freed(b, status)
        BY <1>4, <2>2, <2>3, <3>1
      <4> HIDE DEF status
      <4> QED
        BY <4>2, <4>3, FreedMapped
    <3>2. ASSUME b \in released
          PROVE  table[b] = Seen(activities'[b])
      <4>1. Seen(activities'[b]) = [status |-> "ready", token |-> activities[b].token,
                                    owner |-> activities[b].owner]
        BY <1>4, <3>2, CommittedRow DEF Seen
      <4>2. table[b] = [ContractRows[b] EXCEPT !.status = "ready"]
        BY <1>4, <2>2, <2>3, <3>2
      <4> QED
        BY <4>1, <4>2, StatusMapped
    <3>3. ASSUME b \notin lapsed, b \notin released
          PROVE  table[b] = Seen(activities'[b])
      <4>1. activities'[b] = activities[b]
        BY <1>2, <3>3, CommittedRow
      <4>2. table[b] = ContractRows[b]
        BY <2>2, <2>3, <3>3
      <4> QED
        BY <4>1, <4>2, Mapped
    <3> QED
      BY <3>1, <3>2, <3>3
  <2> QED
    BY <2>1, <2>4, MappedNext DEF table
<1>10. workflows' = [w \in DOMAIN workflows |->
                       IF exhausted \cap Contract!OfWorkflow(w) # {} THEN "failed" ELSE workflows[w]]
  <2>1. \A w \in DOMAIN tx[p].wfs : tx[p].wfs[w] = "failed" /\ exhausted \cap Of(w) # {}
    BY <1>6, SessionStatus DEF StatusWritten
  <2>2. \A w \in Workflows : exhausted \cap Of(w) # {} => w \in DOMAIN tx[p].wfs
    BY <1>1, <1>6, SessionStatus DEF StatusFollows, Of
  <2> QED
    BY <1>1, <2>1, <2>2, Mapped
<1>11. Contract!RunSchedulerPass(lapsed, released)
  <2> HIDE DEF lapsed, released
  <2> QED
    BY <1>1, <1>7, <1>8, <1>9, <1>10, MappedNext DEF Contract!RunSchedulerPass, exhausted
<1>12. lapsed \in SUBSET Activities /\ released \in SUBSET Activities
  BY <1>1
<1> HIDE DEF lapsed, released
<1> QED
  BY <1>11, <1>12, StepsOfContract

\* Every commit is a step of the contract or leaves it alone.
LEMMA CommitIsStep ==
  ASSUME StoreInv, HistoryInv, StatusInv, ContractInv, NEW p \in Sessions, Commit(p)
  PROVE  ContractStep
<1>1. tx[p].op \in {"Heartbeat", "Complete", "Fail", "Claim", "Cancel", "RunSchedulerPass"}
  BY AtCommit DEF LeaseOps
<1>2. CASE tx[p].op \in LeaseOps /\ ~Reports(tx[p])
  BY <1>2, CommitsQuietly
<1>3. CASE tx[p].op = "Heartbeat"
  BY <1>2, <1>3, HeartbeatsQuiet DEF LeaseOps
<1> QED
  BY <1>1, <1>2, <1>3, CommitClaims, CommitCompletes, CommitFails, CommitCancels, CommitSchedules DEF LeaseOps

\* Every step of the store is a step of the contract or leaves it alone.
LEMMA StepIsStep ==
  ASSUME StoreInv, HistoryInv, StatusInv, ContractInv, [Next]_vars
  PROVE  ContractStep
<1>1. CASE UNCHANGED <<activities, workflows, events, claims>>
  <2>1. UNCHANGED <<workflows, claims, ContractRows>>
    BY <1>1 DEF ContractRows
  <2> QED
    BY <2>1, StepsOfContract
<1> QED
  BY <1>1, CommitIsStep, OnlyCommitsWrite

\* The PostgreSQL store implements the contract its callers rely on, for any
\* sessions, workers and plan: what the statements of a transaction do takes
\* effect at its commit as one Claim, Complete, Fail, Cancel or scheduler pass
\* of Lifecycle, judged on the tables as they are then, or changes nothing the
\* contract speaks of.  Only the close of a workflow may be missed.
THEOREM StoreKeepsContract == Spec => ImplementsLifecycle
<1>1. Init => Contract!LifecycleInit
  BY ContractStarts
<1>2. StoreInv /\ HistoryInv /\ StatusInv /\ ContractInv /\ [Next]_vars => ContractStep
  BY StepIsStep
<1> QED
  BY <1>1, <1>2, ContractAlways, PTL DEF Spec, ImplementsLifecycle, Contract!LifecycleSpec, ContractStep

=============================================================================
