------------------------------ MODULE JobReads ------------------------------
(***************************************************************************)
(* The jobs of one user as the server reads them for the dashboard: the    *)
(* complete list, fetched in keyset pages with no transaction around them, *)
(* and the counts of the storage summary.  The order created_at DESC, id   *)
(* DESC is the order of the numbers of Jobs, greatest first; created_at is *)
(* the start of a transaction that may commit late, so a new job may turn  *)
(* up anywhere in the order.                                               *)
(***************************************************************************)
EXTENDS Integers, Sequences, FiniteSets, SequencesExt

CONSTANTS
    MaxJob,         \* jobs that may ever exist
    PageSize,       \* rows PostgREST returns at most for one page
    RetainedLimit,  \* ABSOLUTE_RETAINED_JOB_LIMIT
    MaxVersion      \* bound: updates of one job

ASSUME ReadsAssumption ==
    /\ {MaxJob, PageSize, RetainedLimit} \subseteq Nat \ {0}
    /\ MaxVersion \in Nat

VARIABLE row    \* row[j]: state and content of job j in table jobs

Jobs == 1 .. MaxJob
States == {"unborn", "active", "locked", "gone"}
Rows == [state : States, version : 0 .. MaxVersion]
ShownJob == [job : Jobs, version : 0 .. MaxVersion]

JobsIn(state) == {j \in Jobs : row[j].state = state}

\* get_job_storage_counts and buildStorageSummary: the counts of the summary.
Counts == [active : 0 .. MaxJob, locked : 0 .. MaxJob]
NoCounts == [active |-> -1, locked |-> -1]
CountsNow == [active |-> Cardinality(JobsIn("active")),
              locked |-> Cardinality(JobsIn("locked"))]

-----------------------------------------------------------------------------
\* Mutations, each one statement or one RPC of the database.

CanCreate == Cardinality(JobsIn("active") \cup JobsIn("locked")) < RetainedLimit

CreateRow(j) ==
    /\ row[j].state = "unborn"
    /\ CanCreate
    /\ row' = [row EXCEPT ![j].state = "active"]

UpdateRow(j) ==
    /\ row[j].state = "active"
    /\ row' = [row EXCEPT ![j].version = @ + 1]

DeleteRow(j) ==
    /\ row[j].state = "active"
    /\ row' = [row EXCEPT ![j].state = "gone"]

\* The storage transitions run by some request of the user or by the webhook.
LockRow(j) ==
    /\ row[j].state = "active"
    /\ row' = [row EXCEPT ![j].state = "locked"]

RestoreRow(j) ==
    /\ row[j].state = "locked"
    /\ row' = [row EXCEPT ![j].state = "active"]

DeleteLockedRows ==
    row' = [j \in Jobs |->
              IF row[j].state = "locked" THEN [row[j] EXCEPT !.state = "gone"]
                                         ELSE row[j]]

-----------------------------------------------------------------------------
\* The complete list.  A read in progress holds the cursor of the last row
\* and the rows found so far; steady and ever are history: the jobs active
\* since it began, and those active at some moment of it.

NoCursor == MaxJob + 1

NoRead(status) == [after |-> NoCursor, found |-> <<>>, counts |-> NoCounts,
                   status |-> status, steady |-> {}, ever |-> {}]
NewRead == [NoRead("reading") EXCEPT !.steady = JobsIn("active"), !.ever = JobsIn("active")]

Reads == [after : 1 .. NoCursor, found : Seq(ShownJob), counts : Counts \cup {NoCounts},
          status : {"idle", "reading", "complete", "failed", "over"},
          steady : SUBSET Jobs, ever : SUBSET Jobs]

\* buildJobReadCursorFilter: strictly older than the cursor.  The list is that
\* of a user who is not Premium: resolveListPolicy filters on active rows only
\* for these; a Premium user's list has the rows a restore has yet to reach too.
OlderThan(cursor) == {j \in JobsIn("active") : j < cursor}

\* The n-th smallest of a finite set of numbers.
Nth(S, n) == CHOOSE x \in S : Cardinality({y \in S : y <= x}) = n

\* One page: the first rows of what is left, newest first.
PageAfter(cursor) ==
    LET left == OlderThan(cursor)
        size == Cardinality(left)
        entry(j) == [job |-> j, version |-> row[j].version]
    IN  [i \in 1 .. IF size < PageSize THEN size ELSE PageSize |->
            entry(Nth(left, size + 1 - i))]

(* Mutant: a page short of the requested size ends the read. *)
AfterPageStopsShort(read) ==
    [read EXCEPT !.status = "complete", !.found = PageAfter(read.after)]

\* One round of fetchCompleteJobsList: an empty page proves completion, more
\* rows than may be retained fail the read.
AfterPage(read) ==
    LET page == PageAfter(read.after)
        found == read.found \o page
    IN  IF page = <<>> THEN [read EXCEPT !.status = "complete"]
        ELSE IF Len(found) > RetainedLimit THEN [read EXCEPT !.status = "failed"]
        ELSE [read EXCEPT !.found = found, !.after = Last(page).job]

\* The history of a read after a change of the rows (evaluated on row').
Witnessing(read) ==
    [read EXCEPT !.steady = @ \cap JobsIn("active")', !.ever = @ \cup JobsIn("active")']

\* What a finished read has found: every job that was active throughout,
\* nothing that was never active, no job twice.
IsCompleteRead(read) ==
    LET ids == {read.found[i].job : i \in DOMAIN read.found}
    IN  /\ read.steady \subseteq ids
        /\ ids \subseteq read.ever
        /\ Cardinality(ids) = Len(read.found)
=============================================================================
