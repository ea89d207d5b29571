--------------------------- MODULE Contribution ---------------------------
(***************************************************************************)
(* Contribution: specifications in memory, in the local and the public directory, *)
(* and their way to GitHub: a contribution pushes a branch and creates a pull      *)
(* request, which timers poll until it is merged or closed.  GitHub, the user and   *)
(* restarts come in between.                                                   *)
(***************************************************************************)
EXTENDS Naturals, Sequences, FiniteSets

CONSTANTS
  Specs,          \* names of specifications
  Requests,       \* requests to contribute
  For,            \* For[r]: the specification
  Thresholds,     \* pollIntervals in ticks
  EscalateAfter,  \* checks before the next interval
  MaxPulls,       \* bound: pull requests
  MaxRestarts     \* bound: restarts of the process

ContributionAssumption ==
  /\ For \in [Requests -> Specs]
  /\ Thresholds \in Seq(Nat) /\ Thresholds # <<>>
  /\ EscalateAfter \in Nat

VARIABLES
  local,          \* the file in the local directory: status and pull request
  public,         \* specifications in the clone of the public repository
  upstream,       \* specifications in the public repository
  memory,         \* ConfigSpecification.specifications
  pulls,          \* pull requests at GitHub
  branches,       \* branches in the fork
  deletions,      \* deleteSpecBranch under way, awaited by nobody
  contributions,  \* ghContributions: pull request polled, ticks, interval, checks
  closing,        \* closeContribution under way; one at a time (inCloseContribution)
  request,        \* requests to contribute: stage and pull request
  restarts,
  kept,           \* history: specifications the user has and did not delete
  moved           \* history: those renamed, since the start, while they were contributed

disk == <<local, public>>
github == <<upstream, pulls, branches>>
vars == <<local, public, upstream, memory, pulls, branches, deletions, contributions,
          closing, request, restarts, kept, moved>>

Entry(status, pull) == [status |-> status, pull |-> pull]
Absent == Entry("absent", 0)
Unpolled == [pull |-> 0, count |-> 0, index |-> 1, checks |-> 0]
NotClosing == [spec |-> CHOOSE s \in Specs : TRUE, pull |-> 0, stage |-> "none"]

(***************************************************************************)
(* Files.                                                                   *)
(***************************************************************************)

OwnStatus(s, pub) == Entry(IF s \in pub THEN "cloned" ELSE "added", 0)

(* readYaml: what is local, then what is only public.                         *)
Loaded(files, pub) ==
  [s \in Specs |->
     IF files[s].status = "contributed" THEN files[s]
     ELSE IF files[s] # Absent THEN OwnStatus(s, pub)
     ELSE IF s \in pub THEN Entry("published", 0) ELSE Absent]

(* fetchPublicFiles: a pull that fails is logged; the files are read anyway.     *)
Fetch(files) ==
  \E pub \in {public, upstream} : public' = pub /\ memory' = Loaded(files, pub)

(* writeSpecificationFromFileSpec: a contribution stays one.                    *)
(* Mutant: a contribution that is saved loses its state.                        *)
SavedAnew(s) == OwnStatus(s, public)

Saved(s) == IF memory[s].status = "contributed" THEN memory[s] ELSE OwnStatus(s, public)

Save(s) ==
  /\ local' = [local EXCEPT ![s] = Saved(s)]
  /\ memory' = [memory EXCEPT ![s] = Saved(s)]
  /\ kept' = kept \cup {s}
  /\ UNCHANGED <<public, github, deletions, contributions, closing, request, restarts, moved>>

(* The status that forbids it is the one of the page, which was opened when the      *)
(* specification was new and may be outdated.  The old name stays in memory until     *)
(* the files are read again.                                                  *)
Rename(s, t) ==
  /\ s # t
  /\ local' = [local EXCEPT ![s] = Absent, ![t] = Saved(t)]
  /\ memory' = [memory EXCEPT ![t] = Saved(t)]
  /\ kept' = (kept \ {s}) \cup {t}
  /\ moved' = IF memory[s].status = "contributed" THEN moved \cup {s} ELSE moved
  /\ UNCHANGED <<public, github, deletions, contributions, closing, request, restarts>>

(* deleteSpecification: "in" compares with the indices of its array, so it takes    *)
(* published specifications and refuses new ones.                              *)
Delete(s) ==
  /\ memory[s].status \in {"published", "cloned", "added"}
  /\ local' = [local EXCEPT ![s] = Absent]
  /\ memory' = Loaded(local', public)
  /\ kept' = kept \ {s}
  /\ UNCHANGED <<public, github, deletions, contributions, closing, request, restarts, moved>>

(* changeContributionStatus.                                                 *)
Marked(s, status, pull) ==
  CASE status = "contributed" -> Entry("contributed", pull)
    [] status = "published" -> Absent
    [] OTHER -> OwnStatus(s, public)

(***************************************************************************)
(* Contributing.                                                            *)
(***************************************************************************)

Polled(s) == contributions[s].pull # 0

StartsPolling(s, pull) ==
  IF Polled(s) THEN contributions
  ELSE [contributions EXCEPT ![s] = [Unpolled EXCEPT !.pull = pull]]

At(r, stage) == request[r].stage = stage
Goes(r, stage) == request' = [request EXCEPT ![r].stage = stage]

(* POST specification/contribute.  Nobody answers for one that is published.     *)
Contribute(r) ==
  LET s == For[r] IN
  /\ At(r, "new")
  /\ \/ memory[s].status \in {"added", "cloned"} /\ Goes(r, "init") /\ UNCHANGED contributions
     \/ /\ memory[s].status = "contributed"
        /\ Goes(r, "refused")
        /\ contributions' = StartsPolling(s, memory[s].pull)
     \/ memory[s].status \in {"published", "absent"} /\ Goes(r, "hanging") /\ UNCHANGED contributions
  /\ UNCHANGED <<disk, github, memory, deletions, closing, restarts, kept, moved>>

(* init; the fork is synchronised or created.                                  *)
GithubInit(r) ==
  /\ At(r, "init")
  /\ Fetch(local)
  /\ Goes(r, "repo") \/ Goes(r, "failed")
  /\ UNCHANGED <<local, github, deletions, contributions, closing, restarts, kept, moved>>

(* waitForOwnModbus2MqttRepo: a fork that is not there at the first look is not     *)
(* looked for again, since isRunning stays set.  commitFiles asks for the branch.   *)
RepoChecked(r) ==
  /\ At(r, "repo")
  /\ \/ Goes(r, "hanging")
     \/ Goes(r, "failed")
     \/ For[r] \notin branches /\ Goes(r, "commit")
  /\ UNCHANGED <<disk, github, memory, deletions, contributions, closing, restarts, kept, moved>>

Push(r) ==
  /\ At(r, "commit")
  /\ \/ /\ For[r] \notin branches
        /\ local[For[r]] # Absent
        /\ branches' = branches \cup {For[r]}
        /\ Goes(r, "pull")
     \/ Goes(r, "failed") /\ UNCHANGED branches
  /\ UNCHANGED <<disk, upstream, pulls, memory, deletions, contributions, closing, restarts, kept, moved>>

CreatePullRequest(r) ==
  /\ At(r, "pull")
  /\ \/ /\ For[r] \in branches
        /\ Len(pulls) < MaxPulls
        /\ pulls' = Append(pulls, [spec |-> For[r], state |-> "open"])
        /\ request' = [request EXCEPT ![r] = [stage |-> "created", pull |-> Len(pulls) + 1]]
     \/ Goes(r, "failed") /\ UNCHANGED pulls
  /\ UNCHANGED <<disk, upstream, branches, memory, deletions, contributions, closing, restarts, kept, moved>>

(* changeContributionStatus and startPolling; nobody answers a request whose        *)
(* specification is polled already.                                            *)
Contributed(r) ==
  LET s == For[r] IN
  /\ At(r, "created")
  /\ IF memory[s] = Absent
     THEN Goes(r, "failed") /\ UNCHANGED <<local, memory, contributions>>
     ELSE LET now == IF memory[s].status = "contributed" THEN memory[s]
                     ELSE Marked(s, "contributed", request[r].pull)
          IN  /\ memory' = [memory EXCEPT ![s] = now]
              /\ local' = [local EXCEPT ![s] = IF memory[s] = now THEN @ ELSE now]
              /\ contributions' = StartsPolling(s, now.pull)
              /\ Goes(r, IF Polled(s) THEN "hanging" ELSE "polling")
  /\ UNCHANGED <<public, github, deletions, closing, restarts, kept, moved>>

(* Without its branch a pull request is closed.                                *)
ClosedWith(s) ==
  [p \in DOMAIN pulls |-> IF pulls[p].spec = s /\ pulls[p].state = "open"
                          THEN [pulls[p] EXCEPT !.state = "closed"] ELSE pulls[p]]

(* The catch of contribute deletes the branch, whosever it is.                   *)
CleanUp(r) ==
  /\ At(r, "failed")
  /\ Goes(r, "refused")
  /\ \/ branches' = branches \ {For[r]} /\ pulls' = ClosedWith(For[r])
     \/ UNCHANGED <<branches, pulls>>
  /\ UNCHANGED <<disk, upstream, memory, deletions, contributions, closing, restarts, kept, moved>>

(***************************************************************************)
(* Polling.                                                                 *)
(***************************************************************************)

(* pollTasks, at the start and every half hour.                                *)
PollTask(s) ==
  /\ memory[s].status = "contributed"
  /\ ~Polled(s)
  /\ contributions' = StartsPolling(s, memory[s].pull)
  /\ UNCHANGED <<disk, github, memory, deletions, closing, request, restarts, kept, moved>>

Escalated(c) ==
  IF c.checks >= EscalateAfter /\ c.index < Len(Thresholds)
  THEN [c EXCEPT !.index = @ + 1, !.checks = 0]
  ELSE [c EXCEPT !.checks = IF @ < EscalateAfter THEN @ + 1 ELSE @]

(* Mutant: the count goes on behind the check it made due.                      *)
TickOnce(s) ==
  LET c == contributions[s]
      due == c.count = 0
  IN  /\ Polled(s)
      /\ contributions' = [contributions EXCEPT ![s].count = IF @ < 3 THEN @ + 1 ELSE @]
      /\ closing' = IF due /\ closing.stage = "none"
                    THEN [spec |-> s, pull |-> c.pull, stage |-> "init"] ELSE closing
      /\ UNCHANGED <<disk, github, memory, deletions, request, restarts, kept, moved>>

(* A timer of poll.  A check that is due while another one is under way is          *)
(* left out.                                                                 *)
Tick(s) ==
  LET c == contributions[s]
      due == c.count = 0 \/ c.count > Thresholds[c.index]
  IN  /\ Polled(s)
      /\ contributions' = [contributions EXCEPT
           ![s] = IF due THEN [Escalated(c) EXCEPT !.count = 1] ELSE [c EXCEPT !.count = @ + 1]]
      /\ closing' = IF due /\ closing.stage = "none"
                    THEN [spec |-> s, pull |-> c.pull, stage |-> "init"] ELSE closing
      /\ UNCHANGED <<disk, github, memory, deletions, request, restarts, kept, moved>>

CloseInit ==
  /\ closing.stage = "init"
  /\ Fetch(local)
  /\ closing' = [closing EXCEPT !.stage = "ask"]
  /\ UNCHANGED <<local, github, deletions, contributions, request, restarts, kept, moved>>

CloseFails ==
  /\ closing.stage # "none"
  /\ closing' = NotClosing
  /\ UNCHANGED <<disk, github, memory, deletions, contributions, request, restarts, kept, moved>>

(* The answer to getPullRequest, and what follows without a pause.  A status that is   *)
(* there already is not written; a branch goes unless the specification is contributed. *)
CloseAnswered ==
  LET s == closing.spec
      state == pulls[closing.pull].state
      status == CASE state = "open" -> memory[s].status
                  [] state = "merged" -> "published"
                  [] state = "closed" -> "added"
      files == IF memory[s].status = status THEN local
               ELSE [local EXCEPT ![s] = Marked(s, status, 0)]
  IN  /\ closing.stage = "ask"
      /\ closing' = NotClosing
      /\ IF memory[s] = Absent
         THEN UNCHANGED <<local, public, memory, deletions, contributions, request>>
         ELSE /\ local' = files
              /\ Fetch(files)
              /\ deletions' = IF status = "contributed" THEN deletions ELSE deletions \cup {s}
              /\ IF state = "open" THEN UNCHANGED <<contributions, request>>
                 ELSE /\ contributions' = [contributions EXCEPT ![s] = Unpolled]
                      /\ request' = [r \in Requests |->
                           IF For[r] = s /\ At(r, "polling")
                           THEN [request[r] EXCEPT !.stage = "answered"] ELSE request[r]]
      /\ UNCHANGED <<github, restarts, kept, moved>>

BranchDeleted(s) ==
  /\ s \in deletions
  /\ deletions' = deletions \ {s}
  /\ branches' = branches \ {s}
  /\ pulls' = ClosedWith(s)
  /\ UNCHANGED <<disk, upstream, memory, contributions, closing, request, restarts, kept, moved>>

(***************************************************************************)
(* GitHub and restarts.                                                     *)
(***************************************************************************)

Reviewed(p) ==
  /\ pulls[p].state = "open"
  /\ \/ /\ pulls' = [pulls EXCEPT ![p].state = "merged"]
        /\ upstream' = upstream \cup {pulls[p].spec}
     \/ pulls' = [pulls EXCEPT ![p].state = "closed"] /\ UNCHANGED upstream
  /\ UNCHANGED <<disk, memory, branches, deletions, contributions, closing, request, restarts, kept, moved>>

Restart ==
  /\ restarts < MaxRestarts
  /\ restarts' = restarts + 1
  /\ Fetch(local)
  /\ deletions' = {}
  /\ contributions' = [s \in Specs |-> Unpolled]
  /\ closing' = NotClosing
  /\ request' = [r \in Requests |-> IF At(r, "new") THEN request[r]
                                    ELSE [request[r] EXCEPT !.stage = "gone"]]
  /\ moved' = {}
  /\ UNCHANGED <<local, github, kept>>

Init ==
  /\ local = [s \in Specs |-> Entry("added", 0)]
  /\ public = {} /\ upstream = {}
  /\ memory = Loaded(local, public)
  /\ pulls = <<>>
  /\ branches = {} /\ deletions = {}
  /\ contributions = [s \in Specs |-> Unpolled]
  /\ closing = NotClosing
  /\ request = [r \in Requests |-> [stage |-> "new", pull |-> 0]]
  /\ restarts = 0
  /\ kept = Specs /\ moved = {}

Next ==
  \/ \E s \in Specs : Save(s) \/ Delete(s) \/ \E t \in Specs : Rename(s, t)
  \/ \E r \in Requests :
       \/ Contribute(r) \/ GithubInit(r) \/ RepoChecked(r) \/ Push(r)
       \/ CreatePullRequest(r) \/ Contributed(r) \/ CleanUp(r)
  \/ \E s \in Specs : PollTask(s) \/ Tick(s) \/ BranchDeleted(s)
  \/ CloseInit \/ CloseFails \/ CloseAnswered
  \/ \E p \in DOMAIN pulls : Reviewed(p)
  \/ Restart

Spec == Init /\ [][Next]_vars

(* Timers fire, and GitHub answers again and again.                             *)
Fairness ==
  /\ \A s \in Specs : WF_vars(PollTask(s)) /\ WF_vars(Tick(s))
  /\ SF_vars(CloseInit) /\ SF_vars(CloseAnswered)

FairSpec == Spec /\ Fairness

(***************************************************************************)
(* Properties.                                                              *)
(***************************************************************************)

(* Memory and files agree on which specifications are contributed and by which     *)
(* pull request, and what is polled is that pull request, whatever is saved,        *)
(* renamed, deleted, fetched or contributed again in between (changeContribution-     *)
(* Status, writeSpecificationFromFileSpec, readYaml, startPolling); except where an    *)
(* outdated page has renamed the contributed specification itself.                 *)
ContributionsKept ==
  \A s \in Specs \ moved :
    /\ "contributed" \in {memory[s].status, local[s].status} => memory[s] = local[s]
    /\ Polled(s) => memory[s] = Entry("contributed", contributions[s].pull)

(* A specification the user has not deleted or renamed is in its file or in the public         *)
(* repository (changeContributionStatus deletes the file once it is merged).       *)
NoSpecificationLost == \A s \in kept : local[s] # Absent \/ s \in upstream

(* A pull request that is merged or closed is noticed (contributionPoller.ts: poll),     *)
(* unless that of another specification is open, whose checks are under              *)
(* way again and again when one of this is due, or another one that is polled has been   *)
(* renamed and is not found (contributionPoller.ts: inCloseContribution).             *)
PullRequestsNoticed ==
  \A s \in Specs, p \in 1 .. MaxPulls :
    (memory[s] = Entry("contributed", p) /\ pulls[p].state # "open") ~>
      \/ memory[s] # Entry("contributed", p)
      \/ \E t \in Specs \ {s} :
           Polled(t) /\ (pulls[contributions[t].pull].state = "open" \/ memory[t] = Absent)
=============================================================================
