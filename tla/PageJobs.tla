------------------------------ MODULE PageJobs ------------------------------
(***************************************************************************)
(* The jobs of the server as the pages of the browser follow them: the     *)
(* sessions that create lessons, kept over a reload in sessionStorage, and *)
(* the tickets of useWorkbenchJob (a review, a recording, a chat turn),    *)
(* kept in the component alone. Both submit a request, poll its job every  *)
(* second and offer a retry after an error. The server may restart and     *)
(* then knows no job; a poll or the answer to a submission may be lost.    *)
(***************************************************************************)
EXTENDS Naturals, FiniteSets

CONSTANTS
    PjSessions,     \* sessions of NewLessonJobsProvider
    PjTickets,      \* components that use useWorkbenchJob
    PjMaxJobs,      \* jobs the server takes
    PjMaxFaults,    \* polls and answers lost
    PjMaxRestarts,  \* of the server
    PjMaxReloads    \* of the page

ASSUME PageJobsAssumption ==
    /\ PjSessions \intersect PjTickets = {}
    /\ {PjMaxJobs, PjMaxFaults, PjMaxRestarts, PjMaxReloads} \subseteq Nat

PjTrackers == PjSessions \union PjTickets
PjJobs == 1 .. PjMaxJobs
NoJob == 0

VARIABLES
    pjJob,      \* the server's jobs: whose they are and how they stand
    pjTracker,  \* what a session or ticket knows and shows
    pjPost,     \* submissions under way: "no", "sent", or the job they got
    pjPoll,     \* polls under way, by tracker: the job asked for
    pjStored,   \* sessionStorage: the jobs of the sessions
    pjUnknown,  \* history: jobs whose id the page never got
    pjGivenUp,  \* history: jobs the author left with an error of the page
    pjCount

pjVars == <<pjJob, pjTracker, pjPost, pjPoll, pjStored, pjUnknown, pjGivenUp, pjCount>>

Absent == [st |-> "absent", job |-> NoJob, editing |-> FALSE]
Editing == [st |-> "idle", job |-> NoJob, editing |-> TRUE]
Following(job) == [st |-> "pending", job |-> job, editing |-> FALSE]
Failed(job) == [st |-> "error", job |-> job, editing |-> FALSE]
Succeeded == [st |-> "success", job |-> NoJob, editing |-> FALSE]

PjInit ==
    /\ pjJob = [j \in PjJobs |-> [of |-> "nobody", st |-> "none"]]
    /\ pjTracker = [t \in PjTrackers |-> Absent]
    /\ pjPost = [t \in PjTrackers |-> NoJob]
    /\ pjPoll = [t \in PjTrackers |-> NoJob]
    /\ pjStored = {}
    /\ pjUnknown = {} /\ pjGivenUp = {}
    /\ pjCount = [faults |-> PjMaxFaults, restarts |-> PjMaxRestarts, reloads |-> PjMaxReloads]

SpendsOne(what) == pjCount[what] > 0 /\ pjCount' = [pjCount EXCEPT ![what] = @ - 1]
History == <<pjUnknown, pjGivenUp>>
Sent == PjMaxJobs + 1           \* a submission the server has not seen
NotTaken == PjMaxJobs + 2        \* one it refused

\* a session restored shows an error no more, and its job is polled again
StoredPending(trackers) == {t \in PjSessions : trackers[t].job # NoJob /\ trackers[t].st = "pending"}
StoredOf(trackers) == {t \in PjSessions : trackers[t].job # NoJob}
NowShows(t, next) ==
    /\ pjTracker' = [pjTracker EXCEPT ![t] = next]
    /\ pjStored' = {[of |-> s, job |-> pjTracker'[s].job] : s \in StoredOf(pjTracker')}

-----------------------------------------------------------------------------
(* The author.                                                             *)

Add(s) ==
    /\ s \in PjSessions /\ pjTracker[s] = Absent
    /\ NowShows(s, Editing)
    /\ UNCHANGED <<pjJob, pjPost, pjPoll, History, pjCount>>

\* start, or the first half of mutationFn
Submits(t) ==
    /\ NowShows(t, Following(NoJob))
    /\ pjPost' = [pjPost EXCEPT ![t] = Sent]

LeftBy(t) == IF pjTracker[t].job = NoJob THEN {} ELSE {pjTracker[t].job}

\* the form of the session; its "Create lesson" after "Edit inputs", too
SubmitForm(s) ==
    /\ s \in PjSessions /\ pjTracker[s].editing
    /\ Submits(s)
    /\ UNCHANGED <<pjJob, pjPoll, History, pjCount>>

\* mutate with a new body: the buttons wait for the last job
RunTicket(t) ==
    /\ t \in PjTickets /\ pjTracker[t].st \in {"absent", "success", "error"}
    /\ Submits(t)
    /\ pjGivenUp' = pjGivenUp \union LeftBy(t)
    /\ UNCHANGED <<pjJob, pjPoll, pjUnknown, pjCount>>

RetriesAlways(t) == pjTracker[t].st \in {"error", "pending"}
Retries(t) == pjTracker[t].st = "error" /\ ~pjTracker[t].editing

\* retry: a job that is known is polled again, not submitted again
RetryJob(t) ==
    /\ Retries(t)
    /\ IF pjTracker[t].job # NoJob
       THEN NowShows(t, Following(pjTracker[t].job)) /\ UNCHANGED pjPost
       ELSE Submits(t)
    /\ UNCHANGED <<pjJob, pjPoll, History, pjCount>>

EditInputs(s) ==
    /\ s \in PjSessions /\ pjTracker[s].st = "error" /\ ~pjTracker[s].editing
    /\ NowShows(s, [pjTracker[s] EXCEPT !.editing = TRUE])
    /\ pjGivenUp' = pjGivenUp \union LeftBy(s)
    /\ UNCHANGED <<pjJob, pjPost, pjPoll, pjUnknown, pjCount>>

\* dismiss; close does it to a session that is being edited or is done
Dismiss(s) ==
    /\ s \in PjSessions
    /\ pjTracker[s].editing \/ pjTracker[s].st \in {"error", "success"}
    /\ NowShows(s, Absent)
    /\ pjGivenUp' = pjGivenUp \union LeftBy(s)
    /\ UNCHANGED <<pjJob, pjPost, pjPoll, pjUnknown, pjCount>>

\* cancel of a ticket whose job is known
CancelTicket(t) ==
    /\ t \in PjTickets /\ pjTracker[t].st = "pending" /\ pjTracker[t].job # NoJob
    /\ pjJob[pjTracker[t].job].st = "running"
    /\ pjJob' = [pjJob EXCEPT ![pjTracker[t].job].st = "cancelled"]
    /\ UNCHANGED <<pjTracker, pjPost, pjPoll, pjStored, History, pjCount>>

-----------------------------------------------------------------------------
(* The server.                                                             *)

Fresh == {j \in PjJobs : pjJob[j].st = "none"}

\* it takes the request, or refuses it (a slug in use, a full queue)
Accept(t) ==
    /\ pjPost[t] = Sent
    /\ \/ /\ Fresh # {}
          /\ LET j == CHOOSE k \in Fresh : \A l \in Fresh : k <= l IN
             /\ pjJob' = [pjJob EXCEPT ![j] = [of |-> t, st |-> "running"]]
             /\ pjPost' = [pjPost EXCEPT ![t] = j]
       \/ /\ pjPost' = [pjPost EXCEPT ![t] = NotTaken]
          /\ UNCHANGED pjJob
    /\ UNCHANGED <<pjTracker, pjPoll, pjStored, History, pjCount>>

Finish(j) ==
    /\ pjJob[j].st = "running"
    /\ \E st \in {"done", "failed"} : pjJob' = [pjJob EXCEPT ![j].st = st]
    /\ UNCHANGED <<pjTracker, pjPost, pjPoll, pjStored, History, pjCount>>

ServerRestart ==
    /\ SpendsOne("restarts")
    /\ pjJob' = [j \in PjJobs |-> IF pjJob[j].st = "none" THEN pjJob[j]
                                  ELSE [pjJob[j] EXCEPT !.st = "gone"]]
    /\ UNCHANGED <<pjTracker, pjPost, pjPoll, pjStored, History>>

-----------------------------------------------------------------------------
(* Answers.                                                                *)

Submitted(t) ==
    /\ pjPost[t] \in PjJobs \union {NotTaken}
    /\ NowShows(t, IF pjPost[t] = NotTaken THEN Failed(NoJob) ELSE Following(pjPost[t]))
    /\ pjPost' = [pjPost EXCEPT ![t] = NoJob]
    /\ UNCHANGED <<pjJob, pjPoll, History, pjCount>>

\* The answer, or the request, is lost.
SubmitLost(t) ==
    /\ pjPost[t] # NoJob
    /\ SpendsOne("faults")
    /\ NowShows(t, Failed(NoJob))
    /\ pjUnknown' = pjUnknown \union ({pjPost[t]} \intersect PjJobs)
    /\ pjPost' = [pjPost EXCEPT ![t] = NoJob]
    /\ UNCHANGED <<pjJob, pjPoll, pjGivenUp>>

\* the effect that follows pending sessions, or the loop of mutationFn
StartPoll(t) ==
    /\ pjTracker[t].st = "pending" /\ pjTracker[t].job # NoJob /\ pjPoll[t] = NoJob
    /\ pjPoll' = [pjPoll EXCEPT ![t] = pjTracker[t].job]
    /\ UNCHANGED <<pjJob, pjTracker, pjPost, pjStored, History, pjCount>>

\* A session whose job was cancelled goes; one that is done tells its findings.
SessionAfter(s, st) ==
    CASE st = "running"   -> pjTracker[s]
      [] st = "cancelled" -> Absent
      [] st = "done"      -> Succeeded
      [] OTHER            -> Failed(NoJob)     \* failed, or 404

\* A ticket that ended well or was cancelled is put away.
TicketAfter(t, st) ==
    CASE st = "running"             -> pjTracker[t]
      [] st \in {"cancelled", "done"} -> Succeeded
      [] OTHER                      -> Failed(NoJob)

Outcome(t, st) ==
    IF t \in PjSessions THEN SessionAfter(t, st) ELSE TicketAfter(t, st)

Polled(t) ==
    /\ pjPoll[t] # NoJob
    /\ NowShows(t, Outcome(t, pjJob[pjPoll[t]].st))
    /\ pjPoll' = [pjPoll EXCEPT ![t] = NoJob]
    /\ UNCHANGED <<pjJob, pjPost, History, pjCount>>

KeepsNoJob(t) == NoJob
Keeps(t) == pjTracker[t].job

\* A poll without an answer says nothing of the job: its id is kept.
PollLost(t) ==
    /\ pjPoll[t] # NoJob
    /\ SpendsOne("faults")
    /\ NowShows(t, Failed(Keeps(t)))
    /\ pjPoll' = [pjPoll EXCEPT ![t] = NoJob]
    /\ UNCHANGED <<pjJob, pjPost, History>>

\* restoreSessions
ReloadPage ==
    /\ SpendsOne("reloads")
    /\ pjTracker' = [t \in PjTrackers |->
                       IF \E e \in pjStored : e.of = t
                       THEN Following((CHOOSE e \in pjStored : e.of = t).job) ELSE Absent]
    /\ pjPost' = [t \in PjTrackers |-> NoJob]
    /\ pjPoll' = [t \in PjTrackers |-> NoJob]
    /\ pjUnknown' = pjUnknown \union ({pjPost[t] : t \in PjTrackers} \intersect PjJobs)
                     \union UNION {LeftBy(t) : t \in PjTickets}
    /\ UNCHANGED <<pjJob, pjStored, pjGivenUp>>

PjNext ==
    \/ \E t \in PjTrackers :
         \/ Add(t) \/ SubmitForm(t) \/ RunTicket(t) \/ RetryJob(t) \/ EditInputs(t) \/ Dismiss(t) \/ CancelTicket(t)
         \/ Accept(t) \/ Submitted(t) \/ SubmitLost(t) \/ StartPoll(t) \/ Polled(t) \/ PollLost(t)
    \/ \E j \in PjJobs : Finish(j)
    \/ ServerRestart \/ ReloadPage

PjSpec == PjInit /\ [][PjNext]_pjVars

-----------------------------------------------------------------------------
PjTypeOK ==
    /\ \A t \in PjTrackers :
         /\ pjTracker[t].st \in {"absent", "idle", "pending", "error", "success"}
         /\ pjTracker[t].job \in PjJobs \union {NoJob}
         /\ pjPost[t] # NoJob => pjTracker[t] = Following(NoJob)
    /\ \A e \in pjStored : e.job \in PjJobs

\* A job that runs is followed by the page that started it, which will tell
\* how it ended, unless its id was never heard or the author gave it up.
RunningIsFollowed ==
    \A j \in PjJobs \ (pjUnknown \union pjGivenUp) :
      pjJob[j].st = "running" => \E t \in PjTrackers : j \in {pjTracker[t].job, pjPost[t]}

\* What the page says of an end is the end of the job it started last.
ToldAsItEnded ==
    [][\A t \in PjTrackers :
         pjTracker[t].st = "pending" /\ pjTracker'[t].st = "success" =>
           pjTracker[t].job # NoJob /\ pjJob[pjTracker[t].job].st \in {"done", "cancelled"}]_pjVars

\* No retry submits a request whose job still runs.
NotSubmittedTwice ==
    [][\A t \in PjTrackers :
         RetryJob(t) /\ pjPost'[t] = Sent =>
           \A j \in PjJobs \ (pjUnknown \union pjGivenUp) : pjJob[j].of = t => pjJob[j].st # "running"]_pjVars

\* The page follows the jobs it started, tells their end as it was, and does
\* not have the same work done twice.
PagesFollowJobs == [](PjTypeOK /\ RunningIsFollowed) /\ ToldAsItEnded /\ NotSubmittedTwice
=============================================================================
