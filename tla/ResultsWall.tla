------------------------------ MODULE ResultsWall ------------------------------
(***************************************************************************)
(* How a benchmark result posted as an issue becomes a row of the results  *)
(* wall (scripts/process_conformance_submission.py, run by the workflow    *)
(* conformance-intake).  One job runs at a time, each for the issue as it  *)
(* was posted; its row goes into one file, by a pull request that merges   *)
(* itself when its checks pass, some time after the job is over.           *)
(*                                                                         *)
(* A row is an issue, the run it links and the account that posted it.     *)
(* What the run's reports say is abstracted to whether they make a row.    *)
(***************************************************************************)
EXTENDS Naturals, FiniteSets

CONSTANTS
  Issues, Runs,
  Author,        \* the account of each issue
  MaxRows,       \* MAX_ROWS_PER_SUBMITTER
  MaxPosts       \* bound of the runs: issues opened and edited

ASSUME WallAssumption == MaxRows \in Nat \ {0} /\ MaxPosts \in Nat

Row(i, run) == [issue |-> i, run |-> run, by |-> Author[i]]
Nothing == [issue |-> "none", run |-> "none", by |-> "none"]
Idle == [at |-> "idle", row |-> Nothing, tree |-> {}, base |-> {}]

VARIABLES
  posted,     \* how often an issue was opened or edited
  pending,    \* the post whose job waits for the one that runs
  job,        \* what it is at, its row, the rows of its checkout and those it pulled
  main,       \* the rows on the default branch
  branches,   \* the issues that have a branch
  pulls,      \* open pull requests: issue, the rows before and after, whether they merge themselves
  told,       \* the rows whose submitters were told that they are published
  closed      \* the rows of pull requests a maintainer closed

wvars == <<posted, pending, job, main, branches, pulls, told, closed>>

WInit ==
  /\ posted = 0 /\ pending = Nothing /\ job = Idle
  /\ main = {} /\ branches = {} /\ pulls = {} /\ told = {} /\ closed = {}

WRest == UNCHANGED <<posted, pending, main, branches, pulls, told, closed>>
JobEnds == job' = Idle
JobIsAt(at) == job' = [job EXCEPT !.at = at]

-----------------------------------------------------------------------------
(* GitHub *)

(* A later post takes the place of the one that waits. *)
PostsIssue(i, run) ==
  /\ posted < MaxPosts /\ posted' = posted + 1
  /\ pending' = Row(i, run)
  /\ UNCHANGED <<job, main, branches, pulls, told, closed>>

JobStarts ==
  /\ job = Idle /\ pending # Nothing
  /\ job' = [Idle EXCEPT !.at = "reading", !.row = pending]
  /\ pending' = Nothing
  /\ UNCHANGED <<posted, main, branches, pulls, told, closed>>

(* A runner is lost, or the job is cancelled. *)
JobDies == job # Idle /\ JobEnds /\ WRest

(* The checks pass, and nothing changed the file since. *)
PullMerges(p) ==
  /\ p.auto /\ p.before = main
  /\ main' = p.after /\ pulls' = pulls \ {p} /\ branches' = branches \ {p.issue}
  /\ UNCHANGED <<posted, pending, job, told, closed>>

(* Its checks fail: it stays open, until a maintainer closes it. *)
MaintainerCloses(p) ==
  /\ pulls' = pulls \ {p} /\ branches' \in {branches, branches \ {p.issue}}
  /\ closed' = closed \cup (p.after \ p.before)
  /\ UNCHANGED <<posted, pending, job, main, told>>

(* A branch without a pull request is not deleted by anyone else. *)
MaintainerTidies(i) ==
  /\ i \in branches /\ \A p \in pulls : p.issue # i
  /\ ~(job.at = "pushed" /\ job.row.issue = i)
  /\ branches' = branches \ {i}
  /\ UNCHANGED <<posted, pending, job, main, pulls, told, closed>>

-----------------------------------------------------------------------------
(* process: the fields, the run, its reports *)

(* The link is taken from the form, or from the text. *)
ReadsFields ==
  /\ job.at = "reading"
  /\ \/ JobIsAt("linked")
     \/ JobIsAt("read")          \* no link to a run: nothing is fetched
  /\ WRest

(* The run is what it should be, or there is nowhere to read reports from. *)
ReadsRun ==
  /\ job.at = "linked"
  /\ job' \in {[job EXCEPT !.at = "found"], [job EXCEPT !.at = "read"]}
  /\ WRest

(* The artifact with the reports is found and small enough, or it is not: *)
(* what is missing is left to the fields.                                  *)
CollectsReports == job.at = "found" /\ JobIsAt("collected") /\ WRest

(* A field is missing, or the row would be a draft: the submitter is asked *)
(* for what is missing.                                                    *)
NoRow == job.at \in {"read", "collected"} /\ JobEnds /\ WRest

(* The measurements are those of the reports. *)
MakesRow == job.at = "collected" /\ JobIsAt("waiting") /\ WRest

-----------------------------------------------------------------------------
(* The row *)

(* Mutant: jobs run one at a time as it is. *)
EarlierRowsLanded == TRUE

(* wait_for_earlier_rows, this issue's own included. *)
RowsLanded == pulls = {}

(* And then main is pulled. *)
CatchesUp ==
  /\ job.at = "waiting" /\ RowsLanded
  /\ job' = [job EXCEPT !.at = "checking", !.tree = main, !.base = main]
  /\ WRest

(* Too long, or GitHub cannot be asked: "edit this issue in a few minutes". *)
WaitsTooLong == job.at = "waiting" /\ JobEnds /\ WRest

(* _same_row *)
SameRow(r, row) ==
  \/ r.issue = row.issue
  \/ r.run = row.run /\ r.by = row.by

Replacing(row, rows) == {r \in rows : SameRow(r, row)}

ClaimedByOther(row, rows) ==
  \E r \in rows : r.run = row.run /\ r.by # row.by /\ r.issue # row.issue

(* Mutant: a link may be used by anyone. *)
RefusesAtCapOnly(row, rows) ==
  Replacing(row, rows) = {} /\ Cardinality({r \in rows : r.by = row.by}) >= MaxRows

Refused(row, rows) ==
  \/ ClaimedByOther(row, rows)
  \/ Replacing(row, rows) = {} /\ Cardinality({r \in rows : r.by = row.by}) >= MaxRows

IsRefused == job.at = "checking" /\ Refused(job.row, job.tree) /\ JobEnds /\ WRest

(* Archived first; what the row replaces goes. *)
AppendRow ==
  /\ job.at = "checking" /\ ~Refused(job.row, job.tree)
  /\ job' = [job EXCEPT !.at = "appended",
                        !.tree = (@ \ Replacing(job.row, @)) \cup {job.row}]
  /\ WRest

ArchiveFails == job.at = "checking" /\ JobEnds /\ WRest

(* The content scan or the site build refuses it. *)
BuildFails == job.at = "appended" /\ JobEnds /\ WRest

-----------------------------------------------------------------------------
(* publish *)

(* The archive is never twice the same: there is always something staged.  *)
(* A branch that is there already rejects the push.                        *)
Pushes ==
  /\ job.at = "appended"
  /\ IF job.row.issue \in branches \/ main # job.base
     THEN JobEnds /\ UNCHANGED branches
     ELSE JobIsAt("pushed") /\ branches' = branches \cup {job.row.issue}
  /\ UNCHANGED <<posted, pending, main, pulls, told, closed>>

Pull(auto) ==
  [issue |-> job.row.issue, before |-> job.base, after |-> job.tree, auto |-> auto]

OpensPull ==
  /\ job.at = "pushed"
  /\ pulls' = pulls \cup {Pull(FALSE)}
  /\ JobIsAt("opened")
  /\ UNCHANGED <<posted, pending, main, branches, told, closed>>

MergesItself ==
  /\ job.at = "opened" /\ Pull(FALSE) \in pulls
  /\ pulls' = (pulls \ {Pull(FALSE)}) \cup {Pull(TRUE)}
  /\ JobIsAt("published")
  /\ UNCHANGED <<posted, pending, main, branches, told, closed>>

(* Either step fails: the branch is taken down, and the pull request with  *)
(* it, if that works.                                                      *)
PublishFails ==
  /\ job.at \in {"pushed", "opened"}
  /\ \/ branches' = branches \ {job.row.issue} /\ pulls' = pulls \ {Pull(FALSE)}
     \/ UNCHANGED <<branches, pulls>>
  /\ JobEnds
  /\ UNCHANGED <<posted, pending, main, told, closed>>

(* "Published", and the issue is closed: the pull request is still open. *)
TellsPublished ==
  /\ job.at = "published"
  /\ told' = told \cup {job.row}
  /\ JobEnds
  /\ UNCHANGED <<posted, pending, main, branches, pulls, closed>>

WNext ==
  \/ \E i \in Issues, run \in Runs : PostsIssue(i, run)
  \/ JobStarts \/ JobDies \/ ReadsFields \/ ReadsRun
  \/ CollectsReports \/ NoRow \/ MakesRow \/ CatchesUp \/ WaitsTooLong
  \/ IsRefused \/ AppendRow \/ ArchiveFails \/ BuildFails
  \/ Pushes \/ OpensPull \/ MergesItself \/ PublishFails \/ TellsPublished
  \/ \E p \in pulls : PullMerges(p) \/ MaintainerCloses(p)
  \/ \E i \in Issues : MaintainerTidies(i)

WSpec == WInit /\ [][WNext]_wvars

-----------------------------------------------------------------------------
(* One row for an issue and for a run, no account over the cap. *)
RowsAreTheirs ==
  /\ \A r, s \in main : r # s => r.issue # s.issue /\ r.run # s.run
  /\ \A i \in Issues : Cardinality({r \in main : r.by = Author[i]}) <= MaxRows

(* A row its submitter was told is published is on the wall, or comes by a *)
(* pull request that can merge, unless its own account replaced it or a    *)
(* maintainer closed the pull request.                                     *)
PublishedLands ==
  \A r \in told :
    \/ r \in main \cup closed
    \/ \E s \in main : s.by = r.by
    \/ \E p \in pulls : r \in p.after /\ p.auto /\ p.before = main

(* However submissions and edits follow on each other, jobs die, pull      *)
(* requests are late or closed and branches are left behind, no account    *)
(* takes another's row, and what was called published is not lost to the   *)
(* next one (process_conformance_submission.py:797-831, 957-984, 1176-1245)*)
WallIsSound == RowsAreTheirs /\ PublishedLands
=============================================================================
