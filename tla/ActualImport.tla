---------------------------- MODULE ActualImport ----------------------------
(***************************************************************************)
(* Imports of an Actual export into the ledger of one user                 *)
(* (scripts/migrate_actual.py, app/finance/actual_history.py), while the   *)
(* user goes on working through the API and another operator may import.   *)
(*                                                                         *)
(* An import is one database transaction of many statements under READ     *)
(* COMMITTED.  db is what is committed; own[i] is what import i has added  *)
(* and deleted so far, so that it sees (db \ deleted) \cup added.  A row   *)
(* that an open import has deleted or locked makes others wait.  Any step  *)
(* may fail, be chosen as the victim of a deadlock, or be killed: nothing  *)
(* of the import remains then.  A dry run changes nothing and is left out, *)
(* as are category groups, closed accounts and reports.                    *)
(***************************************************************************)
EXTENDS ActualExport

CONSTANTS Importers,
          Accounts, Categories,   \* those of the export
          Cash,                   \* the user's own account
          Exports,                \* the sets of rows an export may have
          Rate,                   \* PLN for a unit of the foreign currency
          Starts,                 \* what earlier releases may have left in the ledger
          MaxRuns,                \* imports begun
          MaxEdits                \* requests of the user and changes in Actual

VARIABLES source,        \* the rows of the export now
          db,          \* txn, ent, map, done: the committed tables
          own,         \* per import: rows added and deleted, not committed
          imp,         \* per import: where it is and what it remembers
          importLock,  \* the advisory lock actual-import:<user>
          runs, edits

ivars == <<source, db, own, imp, importLock, runs, edits>>

\* An account or a category; n tells apart those made for one source entity.
Entity(kind, of, n) == [kind |-> kind, of |-> of, n |-> n]
CashAccount == Entity("account", Cash, 0)

Tables == {"txn", "ent", "map", "done"}
Empty == [f \in Tables |-> {}]
Nothing == [add |-> Empty, del |-> Empty]
Idle == [stage |-> "idle", mode |-> "plain", strict |-> FALSE, rows |-> {}, rate |-> 0,
         run |-> 0, todo |-> {}, fx |-> {}, errors |-> FALSE, saved |-> {},
         victims |-> {}, doomed |-> {}, pin |-> {}, held |-> {}]

\* A posting: of an entity, or of none once its category is gone.
Posting(row, ent, amount, base, dir, foreign) ==
  [row |-> row, ent |-> ent, amount |-> amount, base |-> base, dir |-> dir, foreign |-> foreign]
Txn(key, op, by, marked, type, legs) ==
  [key |-> key, op |-> op, by |-> by, marked |-> marked, type |-> type, legs |-> legs]

\* The legs of a transaction when these categories are deleted (SET NULL).
Ents(t) == {p.ent : p \in t.legs} \ {None}
Without(t, ents) ==
  IF Ents(t) \cap ents = {} THEN t
  ELSE Txn(t.key, t.op, t.by, t.marked, t.type,
           {IF p.ent \in ents THEN [p EXCEPT !.ent = None] ELSE p : p \in t.legs})

\* What import i sees.
See(i) ==
  LET del == own[i].del
      kept == [[f \in Tables |-> db[f] \ del[f]] EXCEPT
                 !.txn = {Without(t, del.ent) : t \in @}]
  IN [f \in Tables |-> kept[f] \cup own[i].add[f]]

OfKind(ps, kind) == {p \in ps : p.ent # None /\ p.ent.kind = kind}
Signed(p) == IF p.dir = "debit" THEN p.base ELSE -p.base
Imported(tables) == {t \in tables.txn : t.by = "actual"}
Marked(tables) == {t \in Imported(tables) : t.marked}
MappedTo(tables, kind, id) == {m.ent : m \in {x \in tables.map : x.kind = kind /\ x.id = id}}
DoneAs(tables, op) == {d.key : d \in {x \in tables.done : x.op = op}}
OpIds(rows) == {op.id : op \in Operations(rows)}
LegRole(l) == IF l.cat = None THEN "account" ELSE "category"
LegOf(l) == IF l.cat = None THEN l.acct ELSE l.cat
SourceIds == ({"account"} \X Accounts) \cup ({"category"} \X Categories)

\* The pinned history that an import has validated, and locked.
Pinned(j) == IF imp[j].stage \in {"resolve", "write", "commit"} THEN imp[j].pin ELSE {}

\* Locked that knows nothing of the locks on pinned history.
LockedByDeletes(keys, ents, others) ==
  \E j \in others : \/ \E t \in own[j].del.txn : t.key \in keys
                    \/ own[j].del.ent \cap ents # {}

\* Whom import i would have to wait for: an open import that has deleted or
\* locked one of these rows.
Locked(keys, ents, others) ==
  \E j \in others : \/ \E t \in own[j].del.txn \cup Pinned(j) : t.key \in keys
                    \/ (own[j].del.ent \cup imp[j].held) \cap ents # {}

\* An open import has taken the category from a posting of t.
Bereft(t) == \E j \in Importers : Ents(t) \cap own[j].del.ent # {}
-----------------------------------------------------------------------------
Init ==
  /\ source \in Exports
  /\ db \in {[Empty EXCEPT !.ent = {CashAccount}]} \cup Starts
  /\ own = [i \in Importers |-> Nothing]
  /\ imp = [i \in Importers |-> Idle]
  /\ importLock = None
  /\ runs = 0 /\ edits = 0

\* An import that an operator has started.
Begun(mode, strict, rate, pin) ==
  [Idle EXCEPT !.stage = IF mode = "plain" THEN "lock"
                         ELSE IF mode = "replace" THEN "dump" ELSE "validate",
               !.mode = mode, !.strict = strict, !.rows = source, !.rate = rate,
               !.run = runs + 1, !.todo = Operations(source), !.pin = pin]

\* An operator starts an import. Replacement and pinned history are strict;
\* the pin is the transaction as it was when the manifest was approved.
Begin(i) ==
  /\ imp[i].stage = "idle" /\ runs < MaxRuns
  /\ runs' = runs + 1
  /\ \E mode \in {"plain", "replace", "pinned"}, strict \in BOOLEAN, rate \in {0, Rate},
        pin \in {{}} \cup {{t} : t \in Imported(db)} :
       /\ mode # "plain" => strict
       /\ rate = 0 => \E r \in source : r.acct \in Foreign
       /\ mode = "pinned" <=> pin # {}
       /\ imp' = [imp EXCEPT ![i] = Begun(mode, strict, rate, pin)]
  /\ UNCHANGED <<source, db, own, importLock, edits>>

\* create_verified_backup: the dump a replacement has to have first.
Dump(i) ==
  /\ imp[i].stage = "dump"
  /\ imp' = [imp EXCEPT ![i].stage = "check", ![i].saved = {t.key : t \in db.txn}]
  /\ UNCHANGED <<source, db, own, importLock, runs, edits>>

\* An opening balance an early release booked on both sides of one account.
OpeningBalance(t) ==
  /\ ~t.marked /\ Cardinality(t.legs) = 2 /\ Cardinality(Ents(t)) = 1
  /\ \A p \in t.legs : p.ent # None /\ p.ent.kind = "account"
  /\ Cardinality({p.dir : p \in t.legs}) = 2 /\ Cardinality({p.base : p \in t.legs}) = 1

\* FromExport that is content with any marker.
FromAnyExport(t, rows) == t.marked

\* Where the import came from, according to the marker in the description.
FromExport(t, rows) == t.marked /\ t.op \in OpIds(rows)

\* replace_legacy_actual_data, its look at the ledger: every imported
\* transaction must be from this export, and nothing of the user's own may
\* refer to what will go. The code reads in several statements, one after the
\* other; here they are one.
ReplaceCheck(i) ==
  /\ imp[i].stage = "check"
  /\ LET old == Imported(db)
         doomed == UNION {Ents(t) : t \in old}
     IN /\ \A t \in old : FromExport(t, imp[i].rows) \/ OpeningBalance(t)
        /\ \A t \in db.txn \ old : Ents(t) \cap doomed = {}
        /\ imp' = [imp EXCEPT ![i].stage = "delete", ![i].doomed = doomed,
                              ![i].victims = {t.key : t \in old}]
  /\ UNCHANGED <<source, db, own, importLock, runs, edits>>

\* ... and its deletions. Postings left on a deleted account forbid it; a
\* deleted category is taken out of the postings left on it.
ReplaceDelete(i) ==
  /\ imp[i].stage = "delete"
  /\ ~Locked(imp[i].victims, imp[i].doomed, Importers \ {i})
  /\ \A j \in Importers \ {i} : /\ \A t \in own[j].add.txn : Ents(t) \cap imp[i].doomed = {}
                                /\ imp[j].held = {}
  /\ LET doomed == imp[i].doomed
         gone == {t \in db.txn : t.key \in imp[i].victims}
         bereft == {t \in db.txn \ gone : Ents(t) \cap doomed # {}}
     IN /\ \A t \in bereft : \A p \in OfKind(t.legs, "account") : p.ent \notin doomed
        /\ own' = [own EXCEPT ![i].del = [txn |-> gone, ent |-> doomed \cap db.ent,
                                          map |-> db.map, done |-> db.done]]
  /\ imp' = [imp EXCEPT ![i].stage = "lock"]
  /\ UNCHANGED <<source, db, importLock, runs, edits>>
-----------------------------------------------------------------------------
\* validate_preserved_history: the pin is not in the export and is, under
\* locks on all it refers to, still what was approved.
Validate(i) ==
  /\ imp[i].stage = "validate" /\ importLock = None
  /\ \A j \in Importers \ {i} : own[j].del = Empty
  /\ \A t \in imp[i].pin :
       /\ t.op \notin {r.id : r \in imp[i].rows}
       /\ DoneAs(db, t.op) = {t.key}
       /\ t \in db.txn /\ t.marked
       /\ MapThenSumSet(Signed, t.legs) = 0
       /\ \A p \in t.legs : p.ent \in db.ent /\ \E m \in db.map : m.ent = p.ent
  /\ \A m, n \in db.map : m.ent = n.ent => m = n
  /\ importLock' = i
  /\ imp' = [imp EXCEPT ![i].stage = "resolve", ![i].held = {m.ent : m \in db.map}]
  /\ UNCHANGED <<source, db, own, runs, edits>>

\* Lock without the advisory lock.
LockNothing(i) ==
  /\ imp[i].stage = "lock"
  /\ imp' = [imp EXCEPT ![i].stage = "resolve"]
  /\ UNCHANGED <<source, db, own, importLock, runs, edits>>

\* The advisory lock is taken at the start of resolve_ids.
Lock(i) ==
  /\ imp[i].stage = "lock" /\ importLock = None
  /\ importLock' = i
  /\ imp' = [imp EXCEPT ![i].stage = "resolve"]
  /\ UNCHANGED <<source, db, own, runs, edits>>

\* The entities of a transaction that may be what a source leg was booked on.
Candidates(t, l, dir) ==
  {p.ent : p \in {q \in OfKind(t.legs, LegRole(l)) :
     /\ q.amount = l.amount /\ q.dir = dir /\ q.foreign = (l.acct \in Foreign)}}

\* A marked transaction whose provenance is recorded, and in order.
Proven(seen, t, ops) ==
  /\ DoneAs(seen, t.op) = {t.key}
  /\ IF \E op \in ops : op.id = t.op
       THEN \A op \in {o \in ops : o.id = t.op} : \A l \in op.legs :
              /\ Cardinality(Candidates(t, l, Opposite(l.dir))) = 1
              /\ MappedTo(seen, LegRole(l), LegOf(l)) = Candidates(t, l, Opposite(l.dir))
       ELSE \A e \in Ents(t) : \E m \in seen.map : m.ent = e

\* A marked transaction without a record, which the export still has.
Unrecorded(seen, t, ops) == DoneAs(seen, t.op) = {} /\ \E op \in ops : op.id = t.op

\* _backfill_legacy_mappings: entities that the marked transactions of an
\* early release prove, which was booked in the direction of the source.
Inferred(seen, ops, id) ==
  IF MappedTo(seen, id[1], id[2]) # {} THEN MappedTo(seen, id[1], id[2])
  ELSE UNION { UNION { Candidates(t, l, l.dir) :
                 l \in UNION {{x \in op.legs : <<LegRole(x), LegOf(x)>> = id} :
                              op \in {o \in ops : o.id = t.op}} } :
               t \in Marked(seen) }

Backfilled(seen, ops) ==
  IF \A t \in Marked(seen) : Proven(seen, t, ops) THEN {}
  ELSE {[kind |-> id[1], id |-> id[2], ent |-> CHOOSE e \in Inferred(seen, ops, id) : TRUE] :
        id \in {x \in SourceIds : MappedTo(seen, x[1], x[2]) = {}}}

\* resolve_ids: mappings that lead nowhere or cannot be proven refuse the
\* import, and what is not mapped yet is created.
Resolve(i) ==
  /\ imp[i].stage = "resolve"
  /\ LET seen == See(i)
         ops == Operations(imp[i].rows)
         back == Backfilled(seen, ops)
         mapped == seen.map \cup back
         new == {x \in SourceIds : ~\E m \in mapped : m.kind = x[1] /\ m.id = x[2]}
         Made(x) == Entity(x[1], x[2], imp[i].run)
     IN /\ \A m \in seen.map : m.ent \in seen.ent
        /\ \A t \in Marked(seen) : Proven(seen, t, ops) \/ Unrecorded(seen, t, ops)
        /\ (\E t \in Marked(seen) : ~Proven(seen, t, ops)) =>
             \A x \in SourceIds : Cardinality(Inferred(seen, ops, x)) = 1
        /\ own' = [own EXCEPT
             ![i].add.ent = @ \cup {Made(x) : x \in new},
             ![i].add.map = @ \cup back
                              \cup {[kind |-> x[1], id |-> x[2], ent |-> Made(x)] : x \in new}]
  /\ imp' = [imp EXCEPT ![i].stage = "write"]
  /\ UNCHANGED <<source, db, importLock, runs, edits>>

\* build_pa_postings: directions are reversed; what does not balance in PLN
\* gets a posting of the exchange differences, if their category exists.
Postings(seen, op, rate) ==
  {Posting(l.row, CHOOSE e \in MappedTo(seen, LegRole(l), LegOf(l)) : TRUE, l.amount,
           InPln(l.acct, l.amount, rate), Opposite(l.dir), l.acct \in Foreign) : l \in op.legs}
Difference(ps) == MapThenSumSet(Signed, ps)
FxKind(n) == IF n > 0 THEN {"gain"} ELSE IF n < 0 THEN {"loss"} ELSE {}
FxCategory(kind, run) == Entity("category", kind, run)
FxPosting(n, run) == Posting(0, FxCategory(CHOOSE k \in FxKind(n) : TRUE, run), Size(n), Size(n),
                             IF n > 0 THEN "credit" ELSE "debit", FALSE)

\* The exchange category is made for a transfer only (required_fx_difference_kind).
FxNeeded(op, plain) == IF op.type = "transfer" THEN FxKind(Difference(plain)) ELSE {}

\* What create_transaction demands of the postings of an import.
Bookable(seen, type, ps) ==
  /\ \A p \in ps : p.amount > 0 /\ p.base > 0 /\ p.ent \in seen.ent
  /\ type \in {"income", "expense"} =>
       LET accts == OfKind(ps, "account")
       IN /\ Cardinality(accts) = 1
          /\ \A p \in accts : p.dir = (IF type = "income" THEN "credit" ELSE "debit")
          /\ \A p \in OfKind(ps, "category"), a \in accts : p.dir # a.dir

\* An operation of the export is skipped when it was imported before ...
WriteSkips(i, op) ==
  LET seen == See(i)
  IN /\ DoneAs(seen, op.id) # {}
     /\ DoneAs(seen, op.id) \subseteq {t.key : t \in seen.txn}
     /\ imp' = [imp EXCEPT ![i].todo = @ \ {op}]
     /\ UNCHANGED own

\* ... recorded when the one transaction with its marker has no record ...
WriteRecords(i, op) ==
  LET seen == See(i)
      marked == {t \in Marked(seen) : t.op = op.id}
  IN /\ DoneAs(seen, op.id) = {} /\ Cardinality(marked) = 1
     /\ imp' = [imp EXCEPT ![i].todo = @ \ {op}]
     /\ own' = [own EXCEPT ![i].add.done = @ \cup {[op |-> op.id, key |-> t.key] : t \in marked}]

\* ... else booked, or reported when it cannot be. create_transaction shares the
\* accounts until the commit: a deletion waits for what is booked (ReplaceDelete);
\* changes of a currency, which it keeps out as well, are those of AccountBook.
WriteBooks(i, op) ==
  LET me == imp[i]
      seen == See(i)
      missing == me.rate = 0 /\ \E l \in op.legs : l.acct \in Foreign
      plain == Postings(seen, op, me.rate)
      need == IF missing THEN {} ELSE FxNeeded(op, plain)
      fx == me.fx \cup need
      diff == Difference(plain)
      ps == IF diff = 0 THEN plain ELSE plain \cup {FxPosting(diff, me.run)}
      made == {FxCategory(k, me.run) : k \in need \ me.fx}
      ok == /\ ~missing
            /\ op.type # "transfer" => \E l \in op.legs : l.cat # None
            /\ FxKind(diff) \subseteq fx
            /\ Bookable([seen EXCEPT !.ent = @ \cup made], op.type, ps)
      key == <<op.id, me.run>>
  IN /\ DoneAs(seen, op.id) = {} /\ {t \in Marked(seen) : t.op = op.id} = {}
     /\ ok => ~Locked({}, {p.ent : p \in ps}, Importers \ {i})
     /\ imp' = [imp EXCEPT ![i].todo = @ \ {op}, ![i].fx = fx, ![i].errors = @ \/ ~ok]
     /\ own' = [own EXCEPT
          ![i].add.ent = @ \cup made,
          ![i].add.txn = IF ok THEN @ \cup {Txn(key, op.id, "actual", TRUE, op.type, ps)} ELSE @,
          ![i].add.done = IF ok THEN @ \cup {[op |-> op.id, key |-> key]} ELSE @]

\* The operations of the export, one after the other.
Write(i) ==
  /\ imp[i].stage = "write"
  /\ \E op \in imp[i].todo :
       /\ \A other \in imp[i].todo \ {op} : Before(op, other)
       /\ WriteSkips(i, op) \/ WriteRecords(i, op) \/ WriteBooks(i, op)
  /\ UNCHANGED <<source, db, importLock, runs, edits>>
-----------------------------------------------------------------------------
\* The balances of the ledger for one source account or category.
LedgerBalance(tables, e) ==
  MapThenSumSet(
    LAMBDA t : MapThenSumSet(
      LAMBDA p : IF p.ent # e THEN 0 ELSE IF p.dir = "credit" THEN p.amount ELSE -p.amount,
      t.legs),
    tables.txn)
LedgerTotal(tables, e) ==
  MapThenSumSet(LAMBDA t : MapThenSumSet(LAMBDA p : IF p.ent = e THEN Signed(p) ELSE 0, t.legs),
                tables.txn)

\* Both ledgers agree on every account and category, pinned history added to
\* the side of Actual.
Agree(tables, rows, rate, pin) ==
  LET kept == [txn |-> pin]
  IN \A m \in tables.map :
       IF m.kind = "account"
         THEN LedgerBalance(tables, m.ent) = RowBalance(rows, m.id) + LedgerBalance(kept, m.ent)
         ELSE LedgerTotal(tables, m.ent) = CategoryTotal(rows, m.id, rate) + LedgerTotal(kept, m.ent)

\* Reconcile that trusts the balances alone.
ReconcileBalances(i) ==
  /\ imp[i].stage = "write" /\ imp[i].todo = {}
  /\ \A m, n \in See(i).map : m.ent = n.ent => m = n
  /\ imp[i].strict => Agree(See(i), imp[i].rows, imp[i].rate, imp[i].pin)
  /\ imp' = [imp EXCEPT ![i].stage = "commit"]
  /\ UNCHANGED <<source, db, own, importLock, runs, edits>>

\* The reconciliation before the commit: two source entities on one of the
\* ledger stop any import, a difference or an error a strict one.
Reconcile(i) ==
  /\ imp[i].stage = "write" /\ imp[i].todo = {}
  /\ LET seen == See(i)
     IN /\ \A m, n \in seen.map : m.ent = n.ent => m = n
        /\ imp[i].strict => /\ ~imp[i].errors
                            /\ Agree(seen, imp[i].rows, imp[i].rate, imp[i].pin)
  /\ imp' = [imp EXCEPT ![i].stage = "commit"]
  /\ UNCHANGED <<source, db, own, importLock, runs, edits>>

End(i) ==
  /\ own' = [own EXCEPT ![i] = Nothing]
  /\ imp' = [imp EXCEPT ![i] = Idle]
  /\ importLock' = IF importLock = i THEN None ELSE importLock

Commit(i) ==
  /\ imp[i].stage = "commit"
  /\ db' = See(i)
  /\ End(i)
  /\ UNCHANGED <<source, runs, edits>>

Fail(i) ==
  /\ imp[i].stage # "idle"
  /\ End(i)
  /\ UNCHANGED <<source, db, runs, edits>>
-----------------------------------------------------------------------------
\* Meanwhile the user spends 1 PLN of the own account, or of an imported one,
\* on a category ...
UserPosts(a, c) ==
  /\ edits < MaxEdits /\ edits' = edits + 1
  /\ {a, c} \subseteq db.ent /\ a.kind = "account" /\ c.kind = "category"
  /\ a.of \notin Foreign
  /\ ~Locked({}, {a, c}, Importers)
  /\ db' = [db EXCEPT !.txn = @ \cup
       {Txn(<<0, edits'>>, 0, "manual", FALSE, "expense",
            {Posting(1, a, 1, 1, "debit", FALSE), Posting(2, c, 1, 1, "credit", FALSE)})}]
  /\ UNCHANGED <<source, own, imp, importLock, runs>>

\* ... deletes a transaction, or rewrites its description and the marker in it ...
UserDeletes(t) ==
  /\ edits < MaxEdits /\ edits' = edits + 1
  /\ ~Locked({t.key}, {}, Importers) /\ ~Bereft(t)
  /\ db' = [db EXCEPT !.txn = @ \ {t}]
  /\ UNCHANGED <<source, own, imp, importLock, runs>>

UserRewrites(t) ==
  /\ edits < MaxEdits /\ edits' = edits + 1
  /\ t.marked /\ ~Locked({t.key}, {}, Importers)
  /\ db' = [db EXCEPT !.txn = (@ \ {t}) \cup
                             {Txn(t.key, t.op, t.by, FALSE, t.type, t.legs)}]
  /\ UNCHANGED <<source, own, imp, importLock, runs>>

\* ... deletes a category nothing is booked on ...
UserDeletesCategory(c) ==
  /\ edits < MaxEdits /\ edits' = edits + 1
  /\ c.kind = "category" /\ ~Locked({}, {c}, Importers)
  /\ \A t \in db.txn \cup UNION {own[i].add.txn : i \in Importers} : c \notin Ents(t)
  /\ db' = [db EXCEPT !.ent = @ \ {c}]
  /\ UNCHANGED <<source, own, imp, importLock, runs>>

\* ... or changes the budget in Actual and exports it again.
EditSource ==
  /\ edits < MaxEdits /\ edits' = edits + 1
  /\ source' \in Exports
  /\ UNCHANGED <<db, own, imp, importLock, runs>>

User == \/ \E a, c \in db.ent : UserPosts(a, c)
        \/ \E t \in db.txn : UserDeletes(t) \/ UserRewrites(t)
        \/ \E c \in db.ent : UserDeletesCategory(c)
        \/ EditSource

Import(i) == Begin(i) \/ Dump(i) \/ ReplaceCheck(i) \/ ReplaceDelete(i) \/ Validate(i) \/ Lock(i)
             \/ Resolve(i) \/ Write(i) \/ Reconcile(i) \/ Commit(i) \/ Fail(i)

Next == User \/ \E i \in Importers : Import(i)
Spec == Init /\ [][Next]_ivars
-----------------------------------------------------------------------------
\* What the parser makes of a consistent export loses nothing: the operations
\* give every account the balance its rows give it, cover every row that has
\* an amount, and each has an identifier of its own.
NothingLostInParsing ==
  WellFormed(source) =>
    LET ops == Operations(source)
    IN /\ \A a \in Accounts : OpBalance(source, a) = RowBalance(source, a)
       /\ {r.id : r \in {q \in source : q.amount # 0}} \subseteq
            UNION {{l.row : l \in op.legs} : op \in ops}
       /\ Cardinality(OpIds(source)) = Cardinality(ops)

\* What is imported is apart: an operation of Actual is in the ledger at most once,
\* whoever imports and however often, unless the user has rewritten the marker of an
\* import; and no two accounts or categories of Actual are recorded as one of the
\* ledger, whatever the recovery of old provenance has inferred.
ImportedOnce ==
  /\ \A t, u \in Imported(db) : t.op = u.op /\ t.marked /\ u.marked => t = u
  /\ \A m, n \in db.map : m.ent = n.ent => m = n

\* A strict import that commits has a record of every operation of its export,
\* written by it or found: an operation it could not book stops it.
StrictIsWhole ==
  [][\A i \in Importers : Commit(i) /\ imp[i].strict =>
       \A op \in Operations(imp[i].rows) : DoneAs(db', op.id) # {}]_ivars

\* Pinned history is after the import what it was when it was approved, with
\* all it refers to, whatever the user did while the import ran.
PinnedKept ==
  [][\A i \in Importers : Commit(i) =>
       \A t \in imp[i].pin : t \in db'.txn /\ Ents(t) \subseteq db'.ent]_ivars

\* What a replacement takes out of the ledger is in the dump made before it,
\* or is brought back by it from the export.
ReplacedIsSaved ==
  [][\A i \in Importers : Commit(i) /\ imp[i].mode = "replace" =>
       \A t \in db.txn : \/ t.key \in {u.key : u \in db'.txn} \cup imp[i].saved
                         \/ \E u \in Imported(db') : u.op = t.op]_ivars

\* A replacement never alters what the user booked by hand
\* (docs/superpowers/specs/2026-08-14-actual-corrective-replacement-design.md).
ManualKept ==
  [][\A i \in Importers : Commit(i) => \A t \in db.txn \ Imported(db) : t \in db'.txn]_ivars
=============================================================================
