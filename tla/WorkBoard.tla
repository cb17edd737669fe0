------------------------------ MODULE WorkBoard ------------------------------
(***************************************************************************)
(* Projects, tasks and time blocks of one user, changed by requests of     *)
(* several sessions (work/service.py, work/models.py, work/router.py; the  *)
(* advisor's create_task and create_time_block call the same functions).   *)
(*                                                                         *)
(* A request reads rows without a lock, and writes later what it has       *)
(* decided: only the columns that differ from what it read.  The writes of *)
(* one request and its commit are one step, for nobody sees them before    *)
(* the commit and the locks of the rows keep other writers waiting.        *)
(* Names, dates and priorities are left out.                               *)
(***************************************************************************)
EXTENDS FiniteSets

CONSTANTS
  Requests, Projects, Tasks, Blocks,
  Statuses,    \* ck_task_status
  None         \* no project, no task, no row

VARIABLES
  projects,    \* the projects there are
  tasks,       \* of a task its row: [project, status, completed], or None
  blocks,      \* of a time block its row: [task, project], or None
  unused,      \* the rows that are still to be created
  moved,       \* the tasks that have changed their project
  mixed,       \* the rows on which an update was written that had read something else
  op           \* what a request has read and will write

wvars == <<projects, tasks, blocks, unused, moved, mixed, op>>

Idle == [at |-> "idle"]

Init ==
  /\ projects = {}
  /\ tasks = [t \in Tasks |-> None] /\ blocks = [b \in Blocks |-> None]
  /\ unused = Projects \cup Tasks \cup Blocks
  /\ moved = {} /\ mixed = {}
  /\ op = [r \in Requests |-> Idle]

Start(r, o) ==
  /\ op[r] = Idle
  /\ op' = [op EXCEPT ![r] = o]
  /\ UNCHANGED <<projects, tasks, blocks, unused, moved, mixed>>

End(r) == op' = [op EXCEPT ![r] = Idle]

\* A request is refused, or fails: for a row that is gone (StaleDataError), a
\* reference to one (its foreign key), or a lost connection.
Fail(r) ==
  /\ op[r] # Idle
  /\ End(r)
  /\ UNCHANGED <<projects, tasks, blocks, unused, moved, mixed>>

\* An UPDATE names the columns that differ from what was read.
Written(was, new, row) ==
  [c \in DOMAIN row |-> IF new[c] # was[c] THEN new[c] ELSE row[c]]

-----------------------------------------------------------------------------
(***************************************************************************)
(* Projects and tasks.                                                     *)
(***************************************************************************)
CreateProject(p) ==
  /\ p \in unused /\ unused' = unused \ {p}
  /\ projects' = projects \cup {p}
  /\ UNCHANGED <<tasks, blocks, moved, mixed, op>>

ProjectExists(p) == p \in projects \cup {None}

\* create_task, validate_project_reference.
CreateTask(t, p, s) ==
  /\ t \in unused /\ unused' = unused \ {t}
  /\ ProjectExists(p)
  /\ tasks' = [tasks EXCEPT ![t] = [project |-> p, status |-> s, completed |-> s = "done"]]
  /\ UNCHANGED <<projects, blocks, moved, mixed, op>>

WithStatus(row, s) ==
  [row EXCEPT !.status = s, !.completed = IF s = "done" THEN @ \/ row.status # "done" ELSE FALSE]

\* update_task: what a PATCH of project and status, or of either, makes of a row.
Patches(row) ==
  {[new EXCEPT !.project = p] : p \in projects \cup {None, row.project},
                                new \in {row} \cup {WithStatus(row, s) : s \in Statuses}}

ReadTask(r, t) == tasks[t] # None /\ Start(r, [at |-> "task", id |-> t, was |-> tasks[t]])

Progress(row) == <<row.status, row.completed>>

SaveTask(r) ==
  /\ op[r].at = "task"
  /\ LET t == op[r].id was == op[r].was row == tasks[t]
     IN  /\ row # None
         /\ \E new \in Patches(was) :
              /\ new.project # was.project => ProjectExists(new.project)
              /\ tasks' = [tasks EXCEPT ![t] = Written(was, new, row)]
         /\ moved' = IF tasks'[t].project # row.project THEN moved \cup {t} ELSE moved
         /\ mixed' = IF Progress(row) # Progress(was) THEN mixed \cup {t} ELSE mixed
  /\ End(r)
  /\ UNCHANGED <<projects, blocks, unused>>

-----------------------------------------------------------------------------
(***************************************************************************)
(* Time blocks.                                                            *)
(***************************************************************************)
AnyLinks(b) == TRUE              \* mutant: the two links of a block are not compared
LinksValid(b) ==
  /\ ProjectExists(b.project)
  /\ b.task # None => tasks[b.task] # None
  /\ b.task # None /\ b.project # None => tasks[b.task].project = b.project

Links == [task : Tasks \cup {None}, project : Projects \cup {None}]

\* create_time_block and update_time_block: the row is read, what it will be is
\* validated, and written.  A new one has been read as None.
Edits(r, b) == op[r].at \in {"validate", "block"} /\ op[r].id = b

ReadBlock(r, b) ==
  /\ blocks[b] # None \/ (b \in unused /\ \A q \in Requests : ~Edits(q, b))
  /\ Start(r, [at |-> "validate", id |-> b, was |-> blocks[b]])

ValidateBlock(r) ==
  /\ op[r].at = "validate"
  /\ \E new \in Links :
       /\ LinksValid(new)
       /\ op' = [op EXCEPT ![r] = [at |-> "block", id |-> op[r].id, was |-> op[r].was, new |-> new]]
  /\ UNCHANGED <<projects, tasks, blocks, unused, moved, mixed>>

\* The foreign keys of the columns that are written.
ReferencesHold(b) ==
  /\ ProjectExists(b.project)
  /\ b.task # None => tasks[b.task] # None

SaveBlock(r) ==
  /\ op[r].at = "block"
  /\ LET o == op[r] b == o.id row == blocks[b]
         new == IF o.was = None THEN o.new ELSE Written(o.was, o.new, row)
     IN  /\ o.was # None => row # None
         /\ ReferencesHold(new)
         /\ blocks' = [blocks EXCEPT ![b] = new]
         /\ unused' = unused \ {b}
         /\ mixed' = IF row # o.was THEN mixed \cup {b} ELSE mixed
  /\ End(r)
  /\ UNCHANGED <<projects, tasks, moved>>

DeleteBlock(b) ==
  /\ blocks[b] # None
  /\ blocks' = [blocks EXCEPT ![b] = None]
  /\ UNCHANGED <<projects, tasks, unused, moved, mixed, op>>

-----------------------------------------------------------------------------
(***************************************************************************)
(* Deletions.  The session loads the rows that depend on the deleted one,  *)
(* and deletes or unlinks each of them by its key; rows that were linked   *)
(* later are unlinked by the foreign keys (ON DELETE SET NULL).            *)
(***************************************************************************)
TasksOf(p) == {t \in Tasks : tasks[t] # None /\ tasks[t].project = p}
BlocksOf(column, ids) == {b \in Blocks : blocks[b] # None /\ blocks[b][column] \in ids}

\* What becomes of the rows when the project ps and the tasks ts are deleted and
\* the session unlinks pb and tb from them.
Unlinked(row, b, ps, ts, pb, tb) ==
  [task    |-> IF b \in tb \/ row.task \in ts THEN None ELSE row.task,
   project |-> IF b \in pb \/ row.project \in ps THEN None ELSE row.project]

Removed(ps, ts, pb, tb) ==
  /\ \A b \in pb \cup tb : blocks[b] # None
  /\ projects' = projects \ ps
  /\ tasks' = [t \in Tasks |->
                 IF t \in ts \/ tasks[t] = None THEN None
                 ELSE IF tasks[t].project \in ps THEN [tasks[t] EXCEPT !.project = None]
                 ELSE tasks[t]]
  /\ blocks' = [b \in Blocks |-> IF blocks[b] = None THEN None
                                 ELSE Unlinked(blocks[b], b, ps, ts, pb, tb)]

LoadTask(r, t) ==
  /\ tasks[t] # None
  /\ Start(r, [at |-> "remove", projects |-> {}, tasks |-> {t},
               projectBlocks |-> {}, taskBlocks |-> BlocksOf("task", {t})])

LoadProject(r, p) ==
  /\ p \in projects
  /\ Start(r, [at |-> "remove", projects |-> {p}, tasks |-> TasksOf(p),
               projectBlocks |-> BlocksOf("project", {p}),
               taskBlocks |-> BlocksOf("task", TasksOf(p))])

\* delete_task and delete_project.
Remove(r) ==
  /\ op[r].at = "remove"
  /\ Removed(op[r].projects, op[r].tasks, op[r].projectBlocks, op[r].taskBlocks)
  /\ End(r)
  /\ UNCHANGED <<unused, moved, mixed>>

-----------------------------------------------------------------------------
Next ==
  \/ \E p \in Projects : CreateProject(p)
  \/ \E t \in Tasks, p \in Projects \cup {None}, s \in Statuses : CreateTask(t, p, s)
  \/ \E r \in Requests :
       \/ \E t \in Tasks : ReadTask(r, t) \/ LoadTask(r, t)
       \/ \E b \in Blocks : ReadBlock(r, b)
       \/ \E p \in Projects : LoadProject(r, p)
       \/ SaveTask(r) \/ ValidateBlock(r) \/ SaveBlock(r) \/ Remove(r) \/ Fail(r)
  \/ \E b \in Blocks : DeleteBlock(b)

Spec == Init /\ [][Next]_wvars

-----------------------------------------------------------------------------
(***************************************************************************)
(* Properties.                                                             *)
(***************************************************************************)

\* A task has its time of completion exactly while it is done, unless it is one
\* on which two updates overlapped (create_task, update_task).
CompletionKept ==
  \A t \in Tasks \ mixed : tasks[t] # None => (tasks[t].completed <=> tasks[t].status = "done")

\* The task of a block belongs to the project of the block, however tasks and
\* projects come and go, unless the task was moved or two updates of the block
\* overlapped (_validate_time_block_links).
LinksAgree ==
  \A b \in Blocks \ mixed :
    LET row == blocks[b]
    IN  row # None /\ row.task # None /\ row.project # None /\ row.task \notin moved =>
          tasks[row.task] # None /\ tasks[row.task].project = row.project
=============================================================================
