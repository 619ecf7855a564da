----------------------------- MODULE Dashboard -----------------------------
(***************************************************************************)
(* The dashboard page: its cached job list and storage summary, the list   *)
(* and status reads that fill them and the add, update, delete and archive *)
(* mutations that change them locally (useJobsQuery, useJobs, useAddJob,   *)
(* useUpdateJob, useDeleteJob, LockedArchivePanel), against the server's   *)
(* reads of JobReads.  Every request is in flight for any length of time,  *)
(* before the server has run it and after.                                 *)
(***************************************************************************)
EXTENDS JobReads

CONSTANTS
    MaxFetches,     \* bound: full-list fetches (the mount, then refetch)
    MaxRefreshes,   \* bound: storage-status refreshes
    MaxMutations,   \* bound: mutations of this page
    MaxDisturbances \* bound: requests that fail or whose reply is lost, and
                    \* changes made by other tabs or by storage transitions

ASSUME PageAssumption ==
    /\ {MaxFetches, MaxRefreshes} \subseteq Nat \ {0}
    /\ {MaxMutations, MaxDisturbances} \subseteq Nat

VARIABLES
    list,        \* jobs
    summary,     \* storageSummary; NoCounts is null
    loading,     \* the spinner that hides the table
    fetch,       \* fetch[i]: the i-th fetchJobs; its server read, or idle or over
    current,     \* jobsRequestRef: the fetch whose reply counts, 0 when bumped past it
    refresh,     \* refresh[i]: the i-th refreshStorageSummary
    fresh,       \* storageSummaryRequestRef, likewise
    mutation,    \* mutation[k]: the one mutation of kind k the latches admit
    sequence,    \* mutationSequenceRef
    settled,     \* history: settled[j], what successful mutations told this page
    touched,     \* history: jobs changed elsewhere
    trouble,     \* history: "overlap" of requests, "failure" of one
    budget       \* what is left of the bounds

server == <<row, settled>>
page == <<list, summary, loading>>
vars == <<row, list, summary, loading, fetch, current, refresh, fresh, mutation,
          sequence, settled, touched, trouble, budget>>

Kinds == {"add", "update", "delete", "archive"}
Fetches == 1 .. MaxFetches
Refreshes == 1 .. MaxRefreshes
Asking(phase) == [phase |-> phase, counts |-> NoCounts]
NotSent == [phase |-> "idle", job |-> 0, seq |-> 0, counts |-> NoCounts]

Mutations == [phase : {"idle", "sent", "done", "failed"}, job : 0 .. MaxJob,
              seq : 0 .. MaxMutations, counts : Counts \cup {NoCounts}]

TypeOK ==
    /\ row \in [Jobs -> Rows]
    /\ list \in Seq(ShownJob)
    /\ summary \in Counts \cup {NoCounts}
    /\ loading \in BOOLEAN
    /\ fetch \in [Fetches -> Reads]
    /\ current \in 0 .. MaxFetches
    /\ refresh \in [Refreshes -> [phase : {"idle", "sent", "answered", "failed", "over"},
                               counts : Counts \cup {NoCounts}]]
    /\ fresh \in 0 .. MaxRefreshes
    /\ mutation \in [Kinds -> Mutations]
    /\ sequence \in 0 .. MaxMutations
    /\ settled \in [Jobs -> [is : {"unknown", "present", "deleted"}, version : 0 .. MaxVersion]]
    /\ touched \subseteq Jobs
    /\ trouble \subseteq {"overlap", "failure"}
    /\ budget \in [mutations : 0 .. MaxMutations, disturbances : 0 .. MaxDisturbances]

Listed == {list[i].job : i \in DOMAIN list}
InFlight(i) == fetch[i].status \notin {"idle", "over"}
Refreshing(i) == refresh[i].phase \notin {"idle", "over"}
Mutating == {k \in Kinds : mutation[k].phase # "idle"}
Fetching == {i \in Fetches : InFlight(i)}

Init ==
    /\ row \in [Jobs -> [state : {"unborn", "active", "locked"}, version : {0}]]
    /\ Cardinality(JobsIn("active") \cup JobsIn("locked")) <= RetainedLimit
    /\ list = <<>> /\ summary = NoCounts /\ loading = TRUE
    /\ fetch = [i \in Fetches |-> NoRead("idle")] /\ current = 0
    /\ refresh = [i \in Refreshes |-> Asking("idle")] /\ fresh = 0
    /\ mutation = [k \in Kinds |-> NotSent] /\ sequence = 0
    /\ settled = [j \in Jobs |-> [is |-> "unknown", version |-> 0]]
    /\ touched = {} /\ trouble = {}
    /\ budget = [mutations |-> MaxMutations, disturbances |-> MaxDisturbances]

\* Reads in progress witness every change of the rows.
Witnessed == [i \in Fetches |-> IF InFlight(i) THEN Witnessing(fetch[i]) ELSE fetch[i]]

-----------------------------------------------------------------------------
\* The full list.

\* fetchJobs up to its await: on mount, and as refetch.
BeginFetch(i) ==
    /\ fetch[i].status = "idle" /\ \A h \in 1 .. i - 1 : fetch[h].status # "idle"
    /\ fetch' = [fetch EXCEPT ![i] = NewRead]
    /\ current' = i
    /\ loading' = TRUE
    /\ trouble' = trouble \cup (IF Mutating = {} THEN {} ELSE {"overlap"})
    /\ UNCHANGED <<row, list, summary, refresh, fresh, mutation, sequence, settled,
                   touched, budget>>

\* GET /api: the counts and the pages are read at once, in any order.
ServeCounts(i) ==
    /\ InFlight(i) /\ fetch[i].counts = NoCounts
    /\ fetch' = [fetch EXCEPT ![i].counts = CountsNow]
    /\ UNCHANGED <<row, page, current, refresh, fresh, mutation, sequence, settled,
                   touched, trouble, budget>>

ServePage(i) ==
    /\ InFlight(i) /\ fetch[i].status = "reading"
    /\ fetch' = [fetch EXCEPT ![i] = AfterPage(@)]
    /\ UNCHANGED <<row, page, current, refresh, fresh, mutation, sequence, settled,
                   touched, trouble, budget>>

FetchFails(i) ==
    /\ InFlight(i) /\ fetch[i].status # "failed"
    /\ budget.disturbances > 0
    /\ budget' = [budget EXCEPT !.disturbances = @ - 1]
    /\ fetch' = [fetch EXCEPT ![i].status = "failed"]
    /\ UNCHANGED <<row, page, current, refresh, fresh, mutation, sequence, settled,
                   touched, trouble>>

IsCurrentFetch(i) == i = current

\* The rest of fetchJobs: a reply that is not the current one changes nothing.
ReceiveList(i) ==
    /\ InFlight(i)
    /\ \/ fetch[i].status = "failed"
       \/ fetch[i].status = "complete" /\ fetch[i].counts # NoCounts
    /\ fetch' = [fetch EXCEPT ![i] = NoRead("over")]
    /\ \/ /\ ~IsCurrentFetch(i)
          /\ UNCHANGED <<page, trouble>>
       \/ /\ IsCurrentFetch(i) /\ fetch[i].status = "failed"
          /\ summary' = NoCounts /\ loading' = FALSE
          /\ trouble' = trouble \cup {"failure"}
          /\ UNCHANGED list
       \/ /\ IsCurrentFetch(i) /\ fetch[i].status = "complete"
          /\ list' = fetch[i].found /\ summary' = fetch[i].counts
          /\ loading' = FALSE
          /\ UNCHANGED trouble
    /\ UNCHANGED <<row, current, refresh, fresh, mutation, sequence, settled, touched, budget>>

-----------------------------------------------------------------------------
\* The storage status.

NextRefresh == CHOOSE i \in Refreshes :
                   refresh[i].phase = "idle" /\ \A h \in 1 .. i - 1 : refresh[h].phase # "idle"

(* Mutant: the request number is bumped once too often. *)
StartsRefreshBumpedTwice ==
    /\ refresh[MaxRefreshes].phase = "idle"
    /\ refresh' = [refresh EXCEPT ![NextRefresh] = Asking("sent")]
    /\ fresh' = NextRefresh + 1
    /\ UNCHANGED summary

\* refreshStorageSummary up to its await.
StartsRefresh ==
    /\ refresh[MaxRefreshes].phase = "idle"
    /\ refresh' = [refresh EXCEPT ![NextRefresh] = Asking("sent")]
    /\ fresh' = NextRefresh
    /\ UNCHANGED summary

ServeStatus(i) ==
    /\ refresh[i].phase = "sent"
    /\ refresh' = [refresh EXCEPT ![i] = [phase |-> "answered", counts |-> CountsNow]]
    /\ UNCHANGED <<row, page, fetch, current, fresh, mutation, sequence, settled,
                   touched, trouble, budget>>

RefreshFails(i) ==
    /\ Refreshing(i) /\ refresh[i].phase # "failed"
    /\ budget.disturbances > 0
    /\ budget' = [budget EXCEPT !.disturbances = @ - 1]
    /\ refresh' = [refresh EXCEPT ![i] = Asking("failed")]
    /\ UNCHANGED <<row, page, fetch, current, fresh, mutation, sequence, settled,
                   touched, trouble>>

\* The rest of refreshStorageSummary.
ReceiveStatus(i) ==
    /\ Refreshing(i) /\ refresh[i].phase # "sent"
    /\ refresh' = [refresh EXCEPT ![i] = Asking("over")]
    /\ \/ i # fresh /\ UNCHANGED <<summary, trouble>>
       \/ /\ i = fresh /\ refresh[i].phase = "failed"
          /\ trouble' = trouble \cup {"failure"} /\ UNCHANGED summary
       \/ i = fresh /\ refresh[i].phase # "failed" /\ summary' = refresh[i].counts /\ UNCHANGED trouble
    /\ UNCHANGED <<row, list, loading, fetch, current, fresh, mutation, sequence, settled,
                   touched, budget>>

(* Mutant: older refreshes may still answer after the summary of a mutation. *)
AppliesSummaryOnly(counts) ==
    summary' = counts /\ UNCHANGED <<fresh, refresh>>

\* applyStorageSummary: the summary of a mutation, and no older refresh after it.
AppliesSummary(counts) ==
    /\ summary' = counts
    /\ fresh' = 0
    /\ UNCHANGED refresh

-----------------------------------------------------------------------------
\* Mutations: the page sends one of each kind at a time.

(* Mutant: the spinner goes, the reply of the fetch still counts. *)
KeepsFetches == loading' = FALSE /\ UNCHANGED current

\* invalidateJobsFetches: no reply of a fetch begun so far counts any more.
InvalidatesFetches == current' = 0 /\ loading' = FALSE

\* The latches and beginStorageMutation; the archive panel has no sequence.
Sends(kind, j) ==
    /\ mutation[kind].phase = "idle"
    /\ budget.mutations > 0
    /\ budget' = [budget EXCEPT !.mutations = @ - 1]
    /\ sequence' = IF kind \in {"add", "delete"} THEN sequence + 1 ELSE sequence
    /\ mutation' = [mutation EXCEPT ![kind] =
                        [phase |-> "sent", job |-> j, seq |-> sequence', counts |-> NoCounts]]
    /\ trouble' = trouble \cup (IF Mutating = {} /\ Fetching = {} THEN {} ELSE {"overlap"})
    /\ UNCHANGED <<row, page, fetch, current, refresh, fresh, settled, touched>>

\* The Add form needs no list, edits and deletes act on a listed job, and the
\* archive panel shows itself when the summary counts locked jobs.
BeginAdd == Sends("add", 0)
BeginUpdate(j) == j \in Listed /\ Sends("update", j)
BeginDelete(j) == j \in Listed /\ Sends("delete", j)
BeginArchive == summary # NoCounts /\ summary.locked > 0 /\ Sends("archive", 0)

Answered(kind, phase, j, counts) ==
    /\ mutation' = [mutation EXCEPT ![kind].phase = phase, ![kind].job = j,
                                    ![kind].counts = counts]
    /\ fetch' = Witnessed
    /\ UNCHANGED <<page, current, refresh, fresh, sequence, settled, touched, trouble, budget>>

\* POST /api: the summary is built from the counts the RPC took in its own
\* transaction; PUT and DELETE /api/[id] and the bulk delete carry none.
ServeAdd(j) ==
    /\ mutation["add"].phase = "sent"
    /\ CreateRow(j)
    /\ Answered("add", "done", j, CountsNow')

ServeUpdate(j) ==
    /\ mutation["update"].phase = "sent" /\ mutation["update"].job = j
    /\ row[j].version < MaxVersion
    /\ UpdateRow(j)
    /\ Answered("update", "done", j, NoCounts)

ServeDelete(j) ==
    /\ mutation["delete"].phase = "sent" /\ mutation["delete"].job = j
    /\ DeleteRow(j)
    /\ Answered("delete", "done", j, NoCounts)

ServeArchive ==
    /\ mutation["archive"].phase = "sent"
    /\ DeleteLockedRows
    /\ Answered("archive", "done", 0, NoCounts)

\* Refused: no room, or the job is not there or not open any more.
Refuse(kind) ==
    /\ mutation[kind].phase = "sent"
    /\ \/ kind = "add" /\ ~CanCreate
       \/ kind \in {"update", "delete"} /\ row[mutation[kind].job].state # "active"
    /\ mutation' = [mutation EXCEPT ![kind].phase = "failed"]
    /\ UNCHANGED <<row, page, fetch, current, refresh, fresh, sequence, settled,
                   touched, trouble, budget>>

\* The request or its reply is lost: the page cannot tell which.
MutationFails(kind) ==
    /\ mutation[kind].phase \in {"sent", "done"}
    /\ budget.disturbances > 0
    /\ budget' = [budget EXCEPT !.disturbances = @ - 1]
    /\ mutation' = [mutation EXCEPT ![kind].phase = "failed"]
    /\ trouble' = trouble \cup {"failure"}
    /\ UNCHANGED <<row, page, fetch, current, refresh, fresh, sequence, settled, touched>>

ReceiveFailure(kind) ==
    /\ mutation[kind].phase = "failed"
    /\ mutation' = [mutation EXCEPT ![kind] = NotSent]
    /\ UNCHANGED <<row, page, fetch, current, refresh, fresh, sequence, settled,
                   touched, trouble, budget>>

\* syncStorageSummaryAfterMutation.
SyncsSummary(counts, seq) ==
    IF counts # NoCounts /\ seq = sequence THEN AppliesSummary(counts) ELSE StartsRefresh

Succeeds(kind, is, version) ==
    /\ mutation[kind].phase = "done"
    /\ mutation' = [mutation EXCEPT ![kind] = NotSent]
    /\ settled' = IF mutation[kind].job = 0 THEN settled
                  ELSE [settled EXCEPT ![mutation[kind].job] = [is |-> is, version |-> version]]
    /\ UNCHANGED <<row, fetch, sequence, touched, trouble, budget>>

\* handleAddJobSuccess.
ReceiveAdd ==
    LET m == mutation["add"] IN
    /\ Succeeds("add", "present", 0)
    /\ InvalidatesFetches
    /\ list' = <<[job |-> m.job, version |-> 0]>> \o list
    /\ SyncsSummary(m.counts, m.seq)

\* handleUpdateJobSuccess: the fields sent, merged into the listed job.
ReceiveUpdate ==
    LET j == mutation["update"].job IN
    /\ Succeeds("update", "present", row[j].version)
    /\ InvalidatesFetches
    /\ list' = [i \in DOMAIN list |-> IF list[i].job = j
                                      THEN [job |-> j, version |-> row[j].version]
                                      ELSE list[i]]
    /\ UNCHANGED <<summary, refresh, fresh>>

\* The entries of other jobs, in their order.
Without(entries, j) ==
    LET kept == {i \in DOMAIN entries : entries[i].job # j}
    IN  [n \in 1 .. Cardinality(kept) |-> entries[Nth(kept, n)]]

\* handleDeleteJobSuccess.
ReceiveDelete ==
    LET m == mutation["delete"] IN
    /\ Succeeds("delete", "deleted", 0)
    /\ InvalidatesFetches
    /\ list' = Without(list, m.job)
    /\ SyncsSummary(m.counts, m.seq)

\* confirmDeleteLockedArchive, then onArchiveDeleted.
ReceiveArchive ==
    /\ Succeeds("archive", "deleted", 0)
    /\ StartsRefresh
    /\ UNCHANGED <<list, loading, current>>

-----------------------------------------------------------------------------
\* Another tab of the user, or a storage transition.
Elsewhere(j) ==
    /\ budget.disturbances > 0
    /\ budget' = [budget EXCEPT !.disturbances = @ - 1]
    /\ CreateRow(j) \/ DeleteRow(j) \/ LockRow(j) \/ RestoreRow(j)
    /\ fetch' = Witnessed
    /\ touched' = touched \cup {j}
    /\ UNCHANGED <<page, current, refresh, fresh, mutation, sequence, settled, trouble>>

Next ==
    \/ \E i \in Fetches : \/ BeginFetch(i) \/ ServeCounts(i) \/ ServePage(i)
                          \/ FetchFails(i) \/ ReceiveList(i)
    \/ \E i \in Refreshes : ServeStatus(i) \/ RefreshFails(i) \/ ReceiveStatus(i)
    \/ BeginAdd \/ BeginArchive \/ ServeArchive
    \/ \E j \in Jobs : \/ BeginUpdate(j) \/ BeginDelete(j)
                       \/ ServeAdd(j) \/ ServeUpdate(j) \/ ServeDelete(j) \/ Elsewhere(j)
    \/ \E kind \in Kinds : Refuse(kind) \/ MutationFails(kind) \/ ReceiveFailure(kind)
    \/ ReceiveAdd \/ ReceiveUpdate \/ ReceiveDelete \/ ReceiveArchive

Spec == Init /\ [][Next]_vars
-----------------------------------------------------------------------------
Quiet == /\ Mutating = {} /\ Fetching = {} /\ ~\E i \in Refreshes : Refreshing(i)

\* A finished read of the list has every job that was active all along, only
\* jobs that were active at some moment, and none twice, whatever is created,
\* deleted, locked or restored between its pages (fetchCompleteJobsList and
\* the cursor of jobReadCursor.js).
ListReadIsComplete ==
    \A i \in Fetches : InFlight(i) /\ fetch[i].status = "complete" => IsCompleteRead(fetch[i])

\* A list reply that is applied knows every mutation this page was told of: no
\* deleted job comes back, no added one goes, no updated one shows an older
\* content (invalidateJobsFetches and the request number of fetchJobs).
AppliedListIsFresh ==
    [][\A i \in Fetches :
         InFlight(i) /\ fetch'[i].status = "over" /\ list' # list =>
            \A j \in Jobs \ touched :
               /\ settled[j].is = "deleted" => j \notin Listed'
               /\ settled[j].is = "present" /\ row[j].state = "active" =>
                     \E h \in DOMAIN list' : list'[h].job = j
                                             /\ list'[h].version >= settled[j].version]_vars

\* When nothing is in flight the page shows what the server has: the active
\* jobs with their content, each once, the counts, and no spinner.
Mirrors ==
    /\ ~loading
    /\ summary = CountsNow
    /\ {list[i] : i \in DOMAIN list} = {[job |-> j, version |-> row[j].version] : j \in JobsIn("active")}
    /\ Len(list) = Cardinality(JobsIn("active"))

\* A page whose mutations ran one at a time, none beside a list fetch and with
\* no failure, ends up showing what the server has; summaries and refreshes may
\* still overtake each other (refreshStorageSummary and applyStorageSummary).
SettlesWhenSequential ==
    Quiet /\ fetch[1].status # "idle" /\ trouble = {} /\ touched = {} => Mirrors

\* useJobsQuery.js: fetchJobs "Loads the complete job list once on mount".  It
\* does not hold: a mutation that succeeds while the list is still on its way
\* discards the reply, and nothing asks again.
MountLoadsTheList ==
    Quiet /\ fetch[1].status # "idle" /\ "failure" \notin trouble /\ touched = {} =>
        JobsIn("active") \subseteq Listed
=============================================================================
