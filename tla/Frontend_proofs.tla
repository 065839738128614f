-------------------------- MODULE Frontend_proofs --------------------------
(***************************************************************************)
(* The pages of the browser and the jobs they follow, for any sessions and *)
(* tickets, lost answers, restarts of the server and reloads of the page.  *)
(***************************************************************************)
EXTENDS PageJobs, WellFoundedInduction, TLAPS

\* What a session or a ticket may show.
Trackers ==
  [st : {"absent", "idle", "pending", "error", "success"}, job : PjJobs \cup {NoJob}, editing : BOOLEAN]

\* A job of the server.
ServerJobs ==
  [of : PjTrackers \cup {"nobody"}, st : {"none", "running", "done", "failed", "cancelled", "gone"}]

\* A submission under way.
Posts == PjJobs \cup {NoJob, Sent, NotTaken}

\* What the sessions keep over a reload.
StoredIn(trackers) == {[of |-> s, job |-> trackers[s].job] : s \in StoredOf(trackers)}

\* The types; sessionStorage holds what the sessions show.
PagesFit ==
  /\ pjJob \in [PjJobs -> ServerJobs] /\ pjTracker \in [PjTrackers -> Trackers]
  /\ pjPost \in [PjTrackers -> Posts] /\ pjPoll \in [PjTrackers -> PjJobs \cup {NoJob}]
  /\ pjStored = StoredIn(pjTracker)

\* What is under way is for the tracker as it is.
UnderWay(t) ==
  /\ pjPost[t] # NoJob => pjTracker[t] = Following(NoJob)
  /\ pjPoll[t] # NoJob => pjTracker[t] = Following(pjPoll[t])
  /\ pjTracker[t].editing => pjTracker[t].st # "pending" /\ pjTracker[t].job \in pjGivenUp \cup {NoJob}

\* A job that runs is followed by the very tracker it was started for.
OwnFollowed(j) ==
  pjJob[j].st = "running" =>
    /\ pjJob[j].of \in PjTrackers
    /\ j \in {pjTracker[pjJob[j].of].job, pjPost[pjJob[j].of]}

\* The invariant.
PagesInv ==
  /\ PagesFit
  /\ \A t \in PjTrackers : UnderWay(t)
  /\ \A j \in PjJobs \ (pjUnknown \cup pjGivenUp) : OwnFollowed(j)

\* A tracker shows another job than it did; none that runs gets lost.
StaysFollowed(t, job, post) ==
  /\ pjUnknown \subseteq pjUnknown' /\ pjGivenUp \subseteq pjGivenUp' /\ UNCHANGED pjJob
  /\ \A j \in PjJobs \ (pjUnknown' \cup pjGivenUp') :
       j \in {pjTracker[t].job, pjPost[t]} /\ pjJob[j].st = "running" => j \in {job, post}

\* A set of numbers that is not empty has a least one.
LEMMA LeastNatural ==
  ASSUME NEW S \in SUBSET Nat, S # {}
  PROVE  \E k \in S : \A l \in S : k <= l
<1>1. PICK k \in S : \A l \in S : <<l, k>> \notin OpToRel(<, Nat)
  BY NatLessThanWellFounded, WFMin
<1>2. \A l \in S : ~(l < k)
  BY <1>1 DEF OpToRel
<1> QED
  BY <1>2

\* What a tracker shows.
LEMMA FieldsOf ==
  /\ \A j : Following(j).st = "pending" /\ Following(j).job = j /\ Following(j).editing = FALSE
  /\ \A j : Failed(j).st = "error" /\ Failed(j).job = j /\ Failed(j).editing = FALSE
  /\ Absent.st = "absent" /\ Absent.job = NoJob /\ Absent.editing = FALSE
  BY DEF Following, Failed, Absent

\* The marks of a submission are no jobs.
LEMMA JobNumbers ==
  /\ NoJob \notin PjJobs /\ Sent \notin PjJobs /\ NotTaken \notin PjJobs
  /\ Sent # NoJob /\ NotTaken # NoJob /\ Sent # NotTaken
  BY PageJobsAssumption DEF NoJob, PjJobs, Sent, NotTaken

\* What is shown is of its type.
LEMMA TrackersMade ==
  /\ Absent \in Trackers /\ Editing \in Trackers /\ Succeeded \in Trackers
  /\ \A job \in PjJobs \cup {NoJob} : Following(job) \in Trackers /\ Failed(job) \in Trackers
  BY DEF Absent, Editing, Succeeded, Following, Failed, Trackers

\* It holds of an empty page.
LEMMA PagesStart == PjInit => PagesInv
<1> SUFFICES ASSUME PjInit PROVE PagesInv
  OBVIOUS
<1>1. pjJob \in [PjJobs -> ServerJobs] /\ pjTracker \in [PjTrackers -> Trackers]
  BY TrackersMade DEF PjInit, ServerJobs
<1>2. pjPost \in [PjTrackers -> Posts] /\ pjPoll \in [PjTrackers -> PjJobs \cup {NoJob}]
  BY DEF PjInit, Posts
<1>3. pjStored = StoredIn(pjTracker)
  BY DEF PjInit, StoredIn, StoredOf, PjTrackers, Absent
<1>4. \A t \in PjTrackers : UnderWay(t)
  BY DEF PjInit, UnderWay, Absent
<1>5. \A j \in PjJobs : OwnFollowed(j)
  BY DEF PjInit, OwnFollowed
<1> QED
  BY <1>1, <1>2, <1>3, <1>4, <1>5 DEF PagesInv, PagesFit

\* One tracker changes, with what is under way for it.
LEMMA OneTrackerMoves ==
  ASSUME PagesInv, NEW t \in PjTrackers, NEW next \in Trackers, NowShows(t, next),
         NEW post \in Posts, pjPost' = [pjPost EXCEPT ![t] = post],
         NEW poll \in PjJobs \cup {NoJob}, pjPoll' = [pjPoll EXCEPT ![t] = poll],
         post # NoJob => next = Following(NoJob), poll # NoJob => next = Following(poll),
         next.editing => next.st # "pending" /\ next.job \in pjGivenUp' \cup {NoJob}, StaysFollowed(t, next.job, post)
  PROVE  PagesInv'
<1> USE DEF StaysFollowed
<1>1. /\ pjTracker' = [pjTracker EXCEPT ![t] = next] /\ pjStored' = StoredIn(pjTracker')
  BY DEF NowShows, StoredIn
<1>2. /\ pjTracker'[t] = next /\ pjPost'[t] = post /\ pjPoll'[t] = poll
      /\ \A u \in PjTrackers : u # t => pjTracker'[u] = pjTracker[u] /\ pjPost'[u] = pjPost[u] /\ pjPoll'[u] = pjPoll[u]
  BY <1>1 DEF PagesInv, PagesFit
<1>3. PagesFit'
  <2>1. /\ pjJob' \in [PjJobs -> ServerJobs] /\ pjTracker' \in [PjTrackers -> Trackers]
        /\ pjPost' \in [PjTrackers -> Posts] /\ pjPoll' \in [PjTrackers -> PjJobs \cup {NoJob}]
    BY <1>1 DEF PagesInv, PagesFit
  <2>2. (pjStored = StoredIn(pjTracker))'
    BY <1>1 DEF StoredIn, StoredOf
  <2> QED
    BY <2>1, <2>2 DEF PagesFit, ServerJobs, Trackers, Posts
<1>4. ASSUME NEW u \in PjTrackers PROVE UnderWay(u)'
  <2>1. CASE u = t
    BY <1>2, <2>1 DEF UnderWay
  <2>2. CASE u # t
    <3>1. /\ UnderWay(u) /\ pjTracker'[u] = pjTracker[u] /\ pjPost'[u] = pjPost[u]
          /\ pjPoll'[u] = pjPoll[u]
      BY <1>2, <2>2 DEF PagesInv
    <3> QED
      BY <3>1 DEF UnderWay, StaysFollowed
  <2> QED
    BY <2>1, <2>2
<1>5. ASSUME NEW j \in PjJobs \ (pjUnknown' \cup pjGivenUp') PROVE OwnFollowed(j)'
  <2> SUFFICES ASSUME pjJob[j].st = "running"
               PROVE  /\ pjJob[j].of \in PjTrackers
                      /\ j \in {pjTracker'[pjJob[j].of].job, pjPost'[pjJob[j].of]}
    BY DEF OwnFollowed
  <2>1. pjJob[j].of \in PjTrackers /\ j \in {pjTracker[pjJob[j].of].job, pjPost[pjJob[j].of]}
    BY DEF PagesInv, OwnFollowed
  <2>2. CASE pjJob[j].of = t
    BY <1>2, <2>1, <2>2
  <2>3. CASE pjJob[j].of # t
    BY <1>2, <2>1, <2>3
  <2> QED
    BY <2>1, <2>2, <2>3
<1> QED
  BY <1>3, <1>4, <1>5 DEF PagesInv

\* A tracker alone changes what it shows; nothing is under way for it.
LEMMA OnlyShows ==
  ASSUME PagesInv, NEW t \in PjTrackers, NEW next \in Trackers, NowShows(t, next),
         UNCHANGED <<pjPost, pjPoll, pjJob>>,
         pjTracker[t].st # "pending",
         next.editing => next.st # "pending" /\ next.job \in pjGivenUp' \cup {NoJob},
         pjUnknown' = pjUnknown, pjGivenUp \subseteq pjGivenUp',
         next.job = pjTracker[t].job \/ pjTracker[t].job \in pjGivenUp' \cup {NoJob}
  PROVE  PagesInv'
<1>0. pjPost[t] = NoJob /\ pjPoll[t] = NoJob
  BY FieldsOf DEF PagesInv, PagesFit, UnderWay
<1>1. /\ pjPost' = [pjPost EXCEPT ![t] = NoJob] /\ pjPoll' = [pjPoll EXCEPT ![t] = NoJob]
      /\ pjPost[t] = NoJob /\ NoJob \in Posts
  BY <1>0 DEF PagesInv, PagesFit, Posts
<1>2. StaysFollowed(t, next.job, NoJob)
  BY <1>1, JobNumbers DEF StaysFollowed
<1> QED
  BY <1>1, <1>2, OneTrackerMoves

\* Add: a new session.
LEMMA AddKeeps == ASSUME PagesInv, NEW t \in PjTrackers, Add(t) PROVE PagesInv'
  BY OnlyShows, TrackersMade DEF Add, History, Absent, Editing

\* EditInputs: the author gives the session's job up.
LEMMA EditInputsKeeps == ASSUME PagesInv, NEW t \in PjTrackers, EditInputs(t) PROVE PagesInv'
<1> DEFINE next == [pjTracker[t] EXCEPT !.editing = TRUE]
<1>1. /\ NowShows(t, next) /\ pjTracker[t].st = "error" /\ pjGivenUp' = pjGivenUp \union LeftBy(t)
      /\ UNCHANGED <<pjJob, pjPost, pjPoll, pjUnknown>>
  BY DEF EditInputs
<1>2. next \in Trackers /\ next.job = pjTracker[t].job /\ next.st = pjTracker[t].st
  BY DEF PagesInv, PagesFit, Trackers
<1> HIDE DEF next
<1> QED
  BY <1>1, <1>2, OnlyShows DEF LeftBy

\* Dismiss: the session goes.
LEMMA DismissKeeps == ASSUME PagesInv, NEW t \in PjTrackers, Dismiss(t) PROVE PagesInv'
<1>1. /\ NowShows(t, Absent) /\ pjGivenUp' = pjGivenUp \union LeftBy(t)
      /\ UNCHANGED <<pjJob, pjPost, pjPoll, pjUnknown>>
      /\ pjTracker[t].editing \/ pjTracker[t].st \in {"error", "success"}
  BY DEF Dismiss
<1>2. /\ Absent \in Trackers /\ ~Absent.editing /\ pjTracker[t].job \in pjGivenUp' \cup {NoJob}
      /\ \A j \in PjJobs \cup {NoJob} : ~Following(j).editing /\ Following(j).st = "pending"
  BY <1>1, TrackersMade DEF Absent, LeftBy, Following
<1>3. pjPost[t] = NoJob /\ pjPoll[t] = NoJob
  BY <1>1, <1>2 DEF PagesInv, PagesFit, UnderWay
<1>4. /\ pjPost' = [pjPost EXCEPT ![t] = NoJob] /\ pjPoll' = [pjPoll EXCEPT ![t] = NoJob]
      /\ NoJob \in Posts
  BY <1>1, <1>3 DEF PagesInv, PagesFit, Posts
<1>5. StaysFollowed(t, Absent.job, NoJob)
  BY <1>1, <1>2, <1>3, JobNumbers DEF StaysFollowed
<1> QED
  BY <1>1, <1>2, <1>4, <1>5, OneTrackerMoves

\* A submission goes out; the job of the tracker, if any, was given up.
LEMMA SubmitsFits ==
  ASSUME PagesInv, NEW t \in PjTrackers, Submits(t), pjPost[t] = NoJob, pjPoll[t] = NoJob,
         UNCHANGED <<pjJob, pjPoll, pjUnknown>>, pjGivenUp \subseteq pjGivenUp',
         pjTracker[t].job \in pjGivenUp' \cup {NoJob}
  PROVE  PagesInv'
<1>1. /\ NowShows(t, Following(NoJob)) /\ pjPost' = [pjPost EXCEPT ![t] = Sent]
      /\ pjPoll' = [pjPoll EXCEPT ![t] = NoJob] /\ Sent \in Posts
  BY DEF Submits, PagesInv, PagesFit, Posts
<1>2. Following(NoJob) \in Trackers /\ ~Following(NoJob).editing
  BY TrackersMade DEF Following
<1>3. StaysFollowed(t, Following(NoJob).job, Sent)
  BY JobNumbers DEF StaysFollowed
<1> QED
  BY <1>1, <1>2, <1>3, OneTrackerMoves

\* Nothing is under way for a tracker that does not wait.
LEMMA NothingUnderWay ==
  ASSUME PagesInv, NEW t \in PjTrackers, pjTracker[t].st # "pending" \/ pjTracker[t].editing
  PROVE  pjPost[t] = NoJob /\ pjPoll[t] = NoJob
<1>1. ~(pjTracker[t] = Following(NoJob)) /\ ~(pjTracker[t] = Following(pjPoll[t]))
  BY FieldsOf
<1> QED
  BY <1>1 DEF PagesInv, UnderWay

\* SubmitForm: the form is sent.
LEMMA SubmitFormKeeps == ASSUME PagesInv, NEW t \in PjTrackers, SubmitForm(t) PROVE PagesInv'
<1>1. /\ Submits(t) /\ pjTracker[t].editing /\ UNCHANGED <<pjJob, pjPoll, pjUnknown, pjGivenUp>>
  BY DEF SubmitForm, History
<1>2. pjTracker[t].job \in pjGivenUp \cup {NoJob}
  BY <1>1 DEF PagesInv, UnderWay
<1> QED
  BY <1>1, <1>2, NothingUnderWay, SubmitsFits

\* RunTicket: the button is pressed again.
LEMMA RunTicketKeeps == ASSUME PagesInv, NEW t \in PjTrackers, RunTicket(t) PROVE PagesInv'
<1>1. /\ Submits(t) /\ pjTracker[t].st # "pending" /\ UNCHANGED <<pjJob, pjPoll, pjUnknown>>
      /\ pjGivenUp' = pjGivenUp \union LeftBy(t)
  BY DEF RunTicket
<1>2. pjTracker[t].job \in pjGivenUp' \cup {NoJob}
  BY <1>1 DEF LeftBy
<1> QED
  BY <1>1, <1>2, NothingUnderWay, SubmitsFits

\* RetryJob: a known job is polled, else the request is sent again.
LEMMA RetryJobKeeps == ASSUME PagesInv, NEW t \in PjTrackers, RetryJob(t) PROVE PagesInv'
<1>1. pjTracker[t].st = "error" /\ UNCHANGED <<pjJob, pjPoll, pjUnknown, pjGivenUp>>
  BY DEF RetryJob, Retries, History
<1>2. CASE pjTracker[t].job = NoJob
  BY <1>1, <1>2, NothingUnderWay, SubmitsFits DEF RetryJob
<1>3. CASE pjTracker[t].job # NoJob
  <2>1. /\ NowShows(t, Following(pjTracker[t].job)) /\ UNCHANGED pjPost
        /\ pjTracker[t].job \in PjJobs
    BY <1>3 DEF RetryJob, PagesInv, PagesFit, Trackers
  <2>2. /\ Following(pjTracker[t].job) \in Trackers /\ ~Following(pjTracker[t].job).editing
        /\ Following(pjTracker[t].job).job = pjTracker[t].job
    BY <2>1, TrackersMade DEF Following
  <2> QED
    BY <1>1, <2>1, <2>2, OnlyShows
<1> QED
  BY <1>2, <1>3

\* The server's jobs change, and no tracker does.
LEMMA ServerMoves ==
  ASSUME PagesInv, UNCHANGED <<pjTracker, pjPost, pjPoll, pjStored, pjUnknown, pjGivenUp>>,
         pjJob' \in [PjJobs -> ServerJobs],
         \A j \in PjJobs : pjJob'[j].st = "running" => pjJob[j] = pjJob'[j]
  PROVE  PagesInv'
<1>1. PagesFit'
  BY DEF PagesInv, PagesFit, StoredIn, StoredOf
<1>2. \A t \in PjTrackers : UnderWay(t)'
  BY DEF PagesInv, UnderWay
<1>3. \A j \in PjJobs \ (pjUnknown \cup pjGivenUp) : OwnFollowed(j)'
  BY DEF PagesInv, OwnFollowed
<1> QED
  BY <1>1, <1>2, <1>3 DEF PagesInv

\* CancelTicket: the server cancels the job.
LEMMA CancelTicketKeeps == ASSUME PagesInv, NEW t \in PjTrackers, CancelTicket(t) PROVE PagesInv'
<1> DEFINE j == pjTracker[t].job
<1>1. /\ j # NoJob /\ pjJob' = [pjJob EXCEPT ![j].st = "cancelled"]
      /\ UNCHANGED <<pjTracker, pjPost, pjPoll, pjStored, pjUnknown, pjGivenUp>>
  BY DEF CancelTicket, History
<1>2. j \in PjJobs /\ pjJob \in [PjJobs -> ServerJobs]
  BY <1>1 DEF PagesInv, PagesFit, Trackers
<1>3. /\ [pjJob[j] EXCEPT !.st = "cancelled"] \in ServerJobs
      /\ [pjJob[j] EXCEPT !.st = "cancelled"].st = "cancelled"
  BY <1>2 DEF ServerJobs
<1> HIDE DEF j
<1> QED
  BY <1>1, <1>2, <1>3, ServerMoves

\* Finish: a job ends.
LEMMA FinishKeeps == ASSUME PagesInv, NEW j \in PjJobs, Finish(j) PROVE PagesInv'
<1>1. PICK st \in {"done", "failed"} : pjJob' = [pjJob EXCEPT ![j].st = st]
  BY DEF Finish
<1>2. UNCHANGED <<pjTracker, pjPost, pjPoll, pjStored, pjUnknown, pjGivenUp>>
  BY DEF Finish, History
<1>3. pjJob \in [PjJobs -> ServerJobs]
  BY DEF PagesInv, PagesFit
<1>4. [pjJob[j] EXCEPT !.st = st] \in ServerJobs /\ [pjJob[j] EXCEPT !.st = st].st = st
  BY <1>3 DEF ServerJobs
<1> QED
  BY <1>1, <1>2, <1>3, <1>4, ServerMoves

\* ServerRestart: it knows no job any more.
LEMMA ServerRestartKeeps == ASSUME PagesInv, ServerRestart PROVE PagesInv'
<1>1. /\ pjJob' = [j \in PjJobs |-> IF pjJob[j].st = "none" THEN pjJob[j] ELSE [pjJob[j] EXCEPT !.st = "gone"]]
      /\ UNCHANGED <<pjTracker, pjPost, pjPoll, pjStored, pjUnknown, pjGivenUp>>
  BY DEF ServerRestart, History
<1>2. ASSUME NEW j \in PjJobs
      PROVE  [pjJob[j] EXCEPT !.st = "gone"] \in ServerJobs /\ [pjJob[j] EXCEPT !.st = "gone"].st = "gone"
  BY DEF PagesInv, PagesFit, ServerJobs
<1>3. pjJob' \in [PjJobs -> ServerJobs]
  BY <1>1, <1>2 DEF PagesInv, PagesFit
<1>4. \A j \in PjJobs : pjJob'[j].st = "running" => pjJob[j] = pjJob'[j]
  BY <1>1, <1>2
<1> QED
  BY <1>1, <1>3, <1>4, ServerMoves

\* Accept: the request becomes the next job, or is refused.
LEMMA AcceptKeeps == ASSUME PagesInv, NEW t \in PjTrackers, Accept(t) PROVE PagesInv'
<1>1. /\ pjPost[t] = Sent /\ UNCHANGED <<pjTracker, pjPoll, pjStored, pjUnknown, pjGivenUp>>
      /\ pjTracker[t] = Following(NoJob)
  BY JobNumbers DEF Accept, History, PagesInv, UnderWay
<1>2. ASSUME NEW post \in Posts \ {NoJob}, pjPost' = [pjPost EXCEPT ![t] = post]
      PROVE  /\ pjPost' \in [PjTrackers -> Posts] /\ \A u \in PjTrackers : UnderWay(u)'
  <2>1. /\ pjPost' \in [PjTrackers -> Posts] /\ pjPost'[t] = post
        /\ \A u \in PjTrackers : u # t => pjPost'[u] = pjPost[u]
    BY <1>2 DEF PagesInv, PagesFit
  <2>2. \A u \in PjTrackers : UnderWay(u)'
    BY <1>1, <2>1 DEF PagesInv, UnderWay
  <2> QED
    BY <2>1, <2>2
<1>3. CASE pjPost' = [pjPost EXCEPT ![t] = NotTaken] /\ UNCHANGED pjJob
  <2>1. NotTaken \in Posts \ {NoJob}
    BY JobNumbers DEF Posts
  <2>2. pjPost' \in [PjTrackers -> Posts] /\ \A u \in PjTrackers : UnderWay(u)'
    BY <1>2, <1>3, <2>1
  <2>3. PagesFit'
    BY <1>1, <1>3, <2>2 DEF PagesInv, PagesFit, StoredIn, StoredOf
  <2>4. \A j \in PjJobs \ (pjUnknown \cup pjGivenUp) : OwnFollowed(j)'
    <3>1. \A j \in PjJobs : \A u \in PjTrackers : pjPost[u] = j => pjPost'[u] = j
      BY <1>1, <1>3, JobNumbers DEF PagesInv, PagesFit
    <3> QED
      BY <1>1, <1>3, <3>1 DEF PagesInv, OwnFollowed
  <2> QED
    BY <1>1, <2>2, <2>3, <2>4 DEF PagesInv
<1>4. ASSUME NEW j \in Fresh, pjJob' = [pjJob EXCEPT ![j] = [of |-> t, st |-> "running"]],
             pjPost' = [pjPost EXCEPT ![t] = j]
      PROVE  PagesInv'
  <2>1. j \in PjJobs /\ j \in Posts \ {NoJob}
    BY JobNumbers DEF Fresh, Posts
  <2>2. pjPost' \in [PjTrackers -> Posts] /\ \A u \in PjTrackers : UnderWay(u)'
    BY <1>2, <1>4, <2>1
  <2>3. pjJob' \in [PjJobs -> ServerJobs]
    BY <1>4, <2>1 DEF PagesInv, PagesFit, ServerJobs
  <2>4. PagesFit'
    BY <1>1, <1>4, <2>2, <2>3 DEF PagesInv, PagesFit, StoredIn, StoredOf
  <2>5. ASSUME NEW k \in PjJobs \ (pjUnknown \cup pjGivenUp) PROVE OwnFollowed(k)'
    <3>1. CASE k = j
      BY <1>4, <2>1, <3>1 DEF OwnFollowed, PagesInv, PagesFit
    <3>2. CASE k # j
      <4>1. pjJob'[k] = pjJob[k] /\ OwnFollowed(k)
        BY <1>4, <3>2 DEF PagesInv, PagesFit
      <4>2. \A u \in PjTrackers : pjPost[u] = k => pjPost'[u] = k
        BY <1>1, <1>4, JobNumbers DEF PagesInv, PagesFit
      <4> QED
        BY <1>1, <4>1, <4>2 DEF OwnFollowed
    <3> QED
      BY <3>1, <3>2
  <2> QED
    BY <1>1, <2>2, <2>4, <2>5 DEF PagesInv
<1>5. CASE Fresh # {} /\ LET j == CHOOSE k \in Fresh : \A l \in Fresh : k <= l
                         IN  /\ pjJob' = [pjJob EXCEPT ![j] = [of |-> t, st |-> "running"]]
                             /\ pjPost' = [pjPost EXCEPT ![t] = j]
  <2>1. \E k \in Fresh : \A l \in Fresh : k <= l
    <3>1. Fresh \subseteq Nat
      BY DEF Fresh, PjJobs
    <3> QED
      BY <1>5, <3>1, LeastNatural
  <2>2. (CHOOSE k \in Fresh : \A l \in Fresh : k <= l) \in Fresh
    BY <2>1
  <2> QED
    BY <1>4, <1>5, <2>2
<1> QED
  BY <1>3, <1>5 DEF Accept

\* Submitted: the page hears its id, or the refusal.
LEMMA SubmittedKeeps == ASSUME PagesInv, NEW t \in PjTrackers, Submitted(t) PROVE PagesInv'
<1> DEFINE next == IF pjPost[t] = NotTaken THEN Failed(NoJob) ELSE Following(pjPost[t])
<1>1. /\ NowShows(t, next) /\ pjPost' = [pjPost EXCEPT ![t] = NoJob]
      /\ pjPost[t] \in PjJobs \cup {NotTaken}
      /\ UNCHANGED <<pjJob, pjPoll, pjUnknown, pjGivenUp>>
  BY DEF Submitted, History
<1>2. pjTracker[t] = Following(NoJob)
  BY <1>1, JobNumbers DEF PagesInv, UnderWay
<1>3. pjPoll[t] = NoJob
  <2>1. pjTracker[t].job = NoJob /\ Following(pjPoll[t]).job = pjPoll[t]
    BY <1>2, FieldsOf
  <2> QED
    BY <2>1 DEF PagesInv, UnderWay
<1>4. pjPoll' = [pjPoll EXCEPT ![t] = NoJob] /\ NoJob \in Posts /\ pjTracker[t].job = NoJob
  BY <1>1, <1>2, <1>3 DEF PagesInv, PagesFit, Posts, Following
<1>5. next \in Trackers /\ ~next.editing /\ (pjPost[t] \in PjJobs => next.job = pjPost[t])
  BY <1>1, TrackersMade, JobNumbers DEF Following, Failed
<1> HIDE DEF next
<1>6. StaysFollowed(t, next.job, NoJob)
  BY <1>1, <1>4, <1>5, JobNumbers DEF StaysFollowed
<1> QED
  BY <1>1, <1>4, <1>5, <1>6, OneTrackerMoves

\* SubmitLost: the page never hears it.
LEMMA SubmitLostKeeps == ASSUME PagesInv, NEW t \in PjTrackers, SubmitLost(t) PROVE PagesInv'
<1>1. /\ NowShows(t, Failed(NoJob)) /\ pjPost' = [pjPost EXCEPT ![t] = NoJob] /\ pjPost[t] # NoJob
      /\ pjUnknown' = pjUnknown \union ({pjPost[t]} \intersect PjJobs)
      /\ UNCHANGED <<pjJob, pjPoll, pjGivenUp>>
  BY DEF SubmitLost
<1>2. pjTracker[t] = Following(NoJob)
  BY <1>1 DEF PagesInv, UnderWay
<1>3. pjPoll[t] = NoJob
  <2>1. pjTracker[t].job = NoJob /\ Following(pjPoll[t]).job = pjPoll[t]
    BY <1>2, FieldsOf
  <2> QED
    BY <2>1 DEF PagesInv, UnderWay
<1>4. pjPoll' = [pjPoll EXCEPT ![t] = NoJob] /\ NoJob \in Posts /\ pjTracker[t].job = NoJob
  BY <1>1, <1>2, <1>3 DEF PagesInv, PagesFit, Posts, Following
<1>5. Failed(NoJob) \in Trackers /\ ~Failed(NoJob).editing
  BY TrackersMade DEF Failed
<1>6. StaysFollowed(t, Failed(NoJob).job, NoJob)
  BY <1>1, <1>4, <1>5, JobNumbers DEF StaysFollowed
<1> QED
  BY <1>1, <1>4, <1>5, <1>6, OneTrackerMoves

\* StartPoll: a pending job is polled.
LEMMA StartPollKeeps == ASSUME PagesInv, NEW t \in PjTrackers, StartPoll(t) PROVE PagesInv'
<1>1. /\ pjTracker[t].st = "pending" /\ pjTracker[t].job # NoJob
      /\ pjPoll' = [pjPoll EXCEPT ![t] = pjTracker[t].job]
      /\ UNCHANGED <<pjJob, pjTracker, pjPost, pjStored, pjUnknown, pjGivenUp>>
  BY DEF StartPoll, History
<1>2. pjTracker[t] \in Trackers
  BY DEF PagesInv, PagesFit
<1>3. pjPoll' \in [PjTrackers -> PjJobs \cup {NoJob}]
  BY <1>1, <1>2 DEF PagesInv, PagesFit, Trackers
<1>4. PagesFit'
  BY <1>1, <1>3 DEF PagesInv, PagesFit, StoredIn, StoredOf
<1>5. pjTracker[t] = Following(pjTracker[t].job) \/ pjTracker[t].editing
  BY <1>1, <1>2 DEF Trackers, Following
<1>6. \A u \in PjTrackers : UnderWay(u)'
  <2>1. ASSUME NEW u \in PjTrackers PROVE UnderWay(u)'
    <3>1. CASE u = t
      <4>1. UnderWay(t) /\ pjPoll'[t] = pjTracker[t].job
        BY <1>1 DEF PagesInv, PagesFit
      <4>2. pjTracker[t] = Following(pjTracker[t].job)
        BY <4>1, <1>1, <1>5 DEF UnderWay
      <4>3. pjPost[t] # NoJob => pjTracker[t] = Following(NoJob)
        BY <4>1 DEF UnderWay
      <4>4. pjTracker[t].editing => pjTracker[t].st # "pending" /\ pjTracker[t].job \in pjGivenUp \cup {NoJob}
        BY <4>1 DEF UnderWay
      <4> QED
        BY <1>1, <3>1, <4>1, <4>2, <4>3, <4>4 DEF UnderWay
    <3>2. CASE u # t
      <4>1. UnderWay(u) /\ pjPoll'[u] = pjPoll[u]
        BY <1>1, <3>2 DEF PagesInv, PagesFit
      <4> QED
        BY <1>1, <4>1 DEF UnderWay
    <3> QED
      BY <3>1, <3>2
  <2> QED
    BY <2>1
<1>7. \A j \in PjJobs \ (pjUnknown \cup pjGivenUp) : OwnFollowed(j)'
  BY <1>1 DEF PagesInv, OwnFollowed
<1> QED
  BY <1>1, <1>4, <1>6, <1>7 DEF PagesInv

\* A poll under way is of the job that its tracker follows.
LEMMA PollIs ==
  ASSUME PagesInv, NEW t \in PjTrackers, pjPoll[t] # NoJob
  PROVE  /\ pjTracker[t] = Following(pjPoll[t]) /\ pjPoll[t] \in PjJobs /\ pjPost[t] = NoJob
         /\ pjTracker[t].job = pjPoll[t] /\ pjTracker[t].st = "pending"
  BY DEF PagesInv, PagesFit, UnderWay, Following

\* What an answer makes of a tracker.
LEMMA OutcomeTyped ==
  ASSUME PagesInv, NEW t \in PjTrackers, NEW st
  PROVE  /\ Outcome(t, st) \in Trackers
         /\ st = "running" => Outcome(t, st) = pjTracker[t]
         /\ st # "running" => ~Outcome(t, st).editing
         /\ Outcome(t, st).st = "success" => st = "running" \/ st \in {"done", "cancelled"}
<1>1. pjTracker[t] \in Trackers
  BY DEF PagesInv, PagesFit
<1>2. CASE st = "running"
  BY <1>1, <1>2 DEF Outcome, SessionAfter, TicketAfter
<1>3. CASE st = "cancelled"
  BY <1>3, TrackersMade DEF Outcome, SessionAfter, TicketAfter, Absent, Succeeded
<1>4. CASE st = "done"
  BY <1>4, TrackersMade DEF Outcome, SessionAfter, TicketAfter, Absent, Succeeded
<1>5. CASE st \notin {"running", "cancelled", "done"}
  BY <1>5, TrackersMade DEF Outcome, SessionAfter, TicketAfter, Failed
<1> QED
  BY <1>2, <1>3, <1>4, <1>5

\* Polled: the tracker follows on, or shows the end.
LEMMA PolledKeeps == ASSUME PagesInv, NEW t \in PjTrackers, Polled(t) PROVE PagesInv'
<1> DEFINE j == pjPoll[t]
<1> DEFINE next == Outcome(t, pjJob[j].st)
<1>1. /\ NowShows(t, next) /\ pjPoll' = [pjPoll EXCEPT ![t] = NoJob] /\ j # NoJob
      /\ UNCHANGED <<pjJob, pjPost, pjUnknown, pjGivenUp>>
  BY DEF Polled, History
<1>2. /\ pjTracker[t] = Following(j) /\ pjPost[t] = NoJob /\ pjTracker[t].job = j
      /\ ~pjTracker[t].editing
  BY <1>1, PollIs DEF Following
<1>3. next \in Trackers /\ (pjJob[j].st = "running" => next = pjTracker[t]) /\ ~next.editing
  BY <1>2, OutcomeTyped
<1>4. pjPost' = [pjPost EXCEPT ![t] = NoJob] /\ NoJob \in Posts
  BY <1>1, <1>2 DEF PagesInv, PagesFit, Posts
<1> HIDE DEF next, j
<1>5. StaysFollowed(t, next.job, NoJob)
  BY <1>1, <1>2, <1>3, JobNumbers DEF StaysFollowed
<1> QED
  BY <1>1, <1>2, <1>3, <1>4, <1>5, OneTrackerMoves

\* PollLost: the job is kept for the retry.
LEMMA PollLostKeeps == ASSUME PagesInv, NEW t \in PjTrackers, PollLost(t) PROVE PagesInv'
<1> DEFINE j == pjPoll[t]
<1>1. /\ NowShows(t, Failed(pjTracker[t].job)) /\ pjPoll' = [pjPoll EXCEPT ![t] = NoJob]
      /\ j # NoJob
      /\ UNCHANGED <<pjJob, pjPost, pjUnknown, pjGivenUp>>
  BY DEF PollLost, History, Keeps
<1>2. /\ pjTracker[t] = Following(j) /\ pjPost[t] = NoJob /\ pjTracker[t].job = j /\ j \in PjJobs
  BY <1>1, PollIs
<1>3. Failed(j) \in Trackers /\ Failed(j).job = j /\ ~Failed(j).editing
  BY <1>2, TrackersMade DEF Failed
<1>4. pjPost' = [pjPost EXCEPT ![t] = NoJob] /\ NoJob \in Posts
  BY <1>1, <1>2 DEF PagesInv, PagesFit, Posts
<1> HIDE DEF j
<1>5. StaysFollowed(t, Failed(j).job, NoJob)
  BY <1>1, <1>2, <1>3, JobNumbers DEF StaysFollowed
<1> QED
  BY <1>1, <1>2, <1>3, <1>4, <1>5, OneTrackerMoves

\* ReloadPage: the sessions come back with their jobs, the tickets do not.
LEMMA ReloadKeeps == ASSUME PagesInv, ReloadPage PROVE PagesInv'
<1>1. /\ pjTracker' = [t \in PjTrackers |->
                         IF \E e \in pjStored : e.of = t
                         THEN Following((CHOOSE e \in pjStored : e.of = t).job) ELSE Absent]
      /\ pjPost' = [t \in PjTrackers |-> NoJob] /\ pjPoll' = [t \in PjTrackers |-> NoJob]
      /\ pjUnknown' = pjUnknown \union ({pjPost[t] : t \in PjTrackers} \intersect PjJobs)
                        \union UNION {LeftBy(t) : t \in PjTickets}
      /\ UNCHANGED <<pjJob, pjStored, pjGivenUp>>
  BY DEF ReloadPage
<1>2. pjStored = {[of |-> s, job |-> pjTracker[s].job] : s \in StoredOf(pjTracker)}
  BY DEF PagesInv, PagesFit, StoredIn
<1>3. ASSUME NEW s \in PjSessions, pjTracker[s].job # NoJob
      PROVE  pjTracker'[s] = Following(pjTracker[s].job) /\ pjTracker[s].job \in PjJobs
  <2>1. s \in StoredOf(pjTracker)
    BY <1>3 DEF StoredOf
  <2> DEFINE it == [of |-> s, job |-> pjTracker[s].job]
  <2>2. it \in pjStored /\ it.of = s
    BY <2>1, <1>2
  <2>3. \A e \in pjStored : e.of = s => e.job = pjTracker[s].job
    BY <1>2
  <2> HIDE DEF it
  <2>4. (CHOOSE e \in pjStored : e.of = s).job = pjTracker[s].job
    BY <2>2, <2>3
  <2>5. s \in PjTrackers /\ pjTracker[s] \in Trackers
    BY DEF PjTrackers, PagesInv, PagesFit
  <2> QED
    BY <1>1, <1>3, <2>2, <2>4, <2>5 DEF Trackers
<1>4. ASSUME NEW s \in PjTrackers, s \notin StoredOf(pjTracker) PROVE pjTracker'[s] = Absent
  BY <1>1, <1>2, <1>4
<1>5. \A s \in PjTrackers : s \in StoredOf(pjTracker) \/ pjTracker'[s] = Absent
  BY <1>4
<1>6. \A s \in StoredOf(pjTracker) : pjTracker'[s] = Following(pjTracker[s].job) /\ pjTracker[s].job \in PjJobs
  BY <1>3 DEF StoredOf
<1>7. pjTracker' \in [PjTrackers -> Trackers]
  <2>1. \A s \in PjTrackers : pjTracker'[s] \in Trackers
    BY <1>5, <1>6, TrackersMade
  <2> QED
    BY <1>1, <2>1
<1>8. \A s \in PjSessions : pjTracker'[s].job = pjTracker[s].job
  <2>1. ASSUME NEW s \in PjSessions PROVE pjTracker'[s].job = pjTracker[s].job
    <3>1. CASE s \in StoredOf(pjTracker)
      BY <1>6, <3>1, FieldsOf
    <3>2. CASE s \notin StoredOf(pjTracker)
      BY <1>5, <3>2 DEF StoredOf, Absent, PjTrackers
    <3> QED
      BY <3>1, <3>2
  <2> QED
    BY <2>1
<1>9. (pjStored = StoredIn(pjTracker))'
  <2>1. StoredOf(pjTracker') = StoredOf(pjTracker)
    BY <1>8 DEF StoredOf
  <2>2. \A s \in StoredOf(pjTracker) : pjTracker'[s].job = pjTracker[s].job
    BY <1>8 DEF StoredOf
  <2>3. StoredIn(pjTracker') = StoredIn(pjTracker)
    BY <2>1, <2>2 DEF StoredIn
  <2> QED
    BY <1>1, <2>3 DEF PagesInv, PagesFit
<1>10. PagesFit'
  BY <1>1, <1>7, <1>9 DEF PagesInv, PagesFit, Posts
<1>11. ASSUME NEW t \in PjTrackers PROVE UnderWay(t)'
  <2>1. pjPost'[t] = NoJob /\ pjPoll'[t] = NoJob
    BY <1>1
  <2>2. ~pjTracker'[t].editing
    BY <1>5, <1>6, FieldsOf
  <2> QED
    BY <2>1, <2>2 DEF UnderWay
<1>12. ASSUME NEW j \in PjJobs \ (pjUnknown' \cup pjGivenUp') PROVE OwnFollowed(j)'
  <2> SUFFICES ASSUME pjJob[j].st = "running"
               PROVE  pjJob[j].of \in PjTrackers /\ j = pjTracker'[pjJob[j].of].job
    BY <1>1 DEF OwnFollowed
  <2> DEFINE t == pjJob[j].of
  <2>1. t \in PjTrackers /\ j \in {pjTracker[t].job, pjPost[t]}
    BY <1>1 DEF PagesInv, OwnFollowed
  <2> HIDE DEF t
  <2>2. j # pjPost[t]
    BY <1>1, <2>1
  <2>3. pjTracker[t].job = j /\ t \notin PjTickets
    BY <1>1, <2>1, <2>2, JobNumbers DEF LeftBy
  <2> QED
    BY <1>8, <2>1, <2>3 DEF PjTrackers, t
<1> QED
  BY <1>1, <1>10, <1>11, <1>12 DEF PagesInv

\* Every step keeps it.
LEMMA PagesStep == PagesInv /\ [PjNext]_pjVars => PagesInv'
<1> SUFFICES ASSUME PagesInv, [PjNext]_pjVars PROVE PagesInv'
  OBVIOUS
<1>1. ASSUME NEW t \in PjTrackers,
             \/ Add(t) \/ SubmitForm(t) \/ RunTicket(t) \/ RetryJob(t) \/ EditInputs(t) \/ Dismiss(t) \/ CancelTicket(t)
             \/ Accept(t) \/ Submitted(t) \/ SubmitLost(t) \/ StartPoll(t) \/ Polled(t) \/ PollLost(t)
      PROVE  PagesInv'
  BY <1>1, AddKeeps, SubmitFormKeeps, RunTicketKeeps, RetryJobKeeps, EditInputsKeeps,
       DismissKeeps, CancelTicketKeeps,
     AcceptKeeps, SubmittedKeeps, SubmitLostKeeps, StartPollKeeps, PolledKeeps, PollLostKeeps
<1>2. CASE UNCHANGED pjVars
  BY <1>2, ServerMoves DEF pjVars, PagesInv, PagesFit
<1> QED
  BY <1>1, <1>2, FinishKeeps, ServerRestartKeeps, ReloadKeeps DEF PjNext

\* The invariant of the pages and the server's jobs.
THEOREM PagesInvariant == PjSpec => []PagesInv
  BY PagesStart, PagesStep, PTL DEF PjSpec

\* The invariant is more than the state properties.
LEMMA PagesTyped == PagesInv => PjTypeOK /\ RunningIsFollowed
<1> SUFFICES ASSUME PagesInv PROVE PjTypeOK /\ RunningIsFollowed
  OBVIOUS
<1>1. \A t \in PjTrackers :
         /\ pjTracker[t].st \in {"absent", "idle", "pending", "error", "success"}
         /\ pjTracker[t].job \in PjJobs \union {NoJob}
         /\ pjPost[t] # NoJob => pjTracker[t] = Following(NoJob)
  BY DEF PagesInv, PagesFit, UnderWay, Trackers
<1>2. \A e \in pjStored : e.job \in PjJobs
  BY DEF PagesInv, PagesFit, StoredIn, StoredOf, Trackers, PjTrackers
<1>3. RunningIsFollowed
  BY DEF PagesInv, OwnFollowed, RunningIsFollowed
<1> QED
  BY <1>1, <1>2, <1>3 DEF PjTypeOK

\* A success is shown when the job that was followed has ended so.
LEMMA TellsTheEnd ==
  ASSUME PagesInv, [PjNext]_pjVars, NEW t \in PjTrackers, pjTracker[t].st = "pending",
         pjTracker'[t].st = "success"
  PROVE  pjTracker[t].job # NoJob /\ pjJob[pjTracker[t].job].st \in {"done", "cancelled"}
<1>1. ASSUME NEW u \in PjTrackers, NEW next, NowShows(u, next), next.st # "success" PROVE FALSE
  BY <1>1 DEF NowShows, PagesInv, PagesFit
<1>2. ASSUME NEW u \in PjTrackers, NEW next, NowShows(u, next), pjTracker[u].st # "pending" PROVE FALSE
  BY <1>2 DEF NowShows, PagesInv, PagesFit
<1>3. pjTracker' # pjTracker
  OBVIOUS
<1>4. \A j : Following(j).st # "success" /\ Failed(j).st # "success"
  BY DEF Following, Failed
<1>5. ~ReloadPage
  <2> SUFFICES ASSUME ReloadPage PROVE FALSE
    OBVIOUS
  <2>1. pjTracker'[t] = Absent \/ \E j : pjTracker'[t] = Following(j)
    BY DEF ReloadPage
  <2> QED
    BY <2>1, <1>4 DEF Absent
<1>6. ASSUME NEW u \in PjTrackers,
             \/ Add(u) \/ SubmitForm(u) \/ RunTicket(u) \/ RetryJob(u)
             \/ EditInputs(u) \/ Dismiss(u) \/ Submitted(u) \/ SubmitLost(u) \/ PollLost(u)
      PROVE  FALSE
  <2>1. CASE Add(u) \/ Dismiss(u)
    BY <2>1, <1>1 DEF Add, Dismiss, Editing, Absent
  <2>2. CASE SubmitForm(u) \/ RunTicket(u) \/ RetryJob(u)
    BY <2>2, <1>1, <1>4 DEF SubmitForm, RunTicket, RetryJob, Submits
  <2>3. CASE EditInputs(u)
    BY <2>3, <1>2 DEF EditInputs
  <2>4. CASE Submitted(u) \/ SubmitLost(u) \/ PollLost(u)
    BY <2>4, <1>1, <1>4 DEF Submitted, SubmitLost, PollLost
  <2> QED
    BY <1>6, <2>1, <2>2, <2>3, <2>4
<1>7. PICK u \in PjTrackers : Polled(u)
  BY <1>3, <1>5, <1>6 DEF PjNext, pjVars, CancelTicket, Accept, StartPoll, Finish, ServerRestart
<1>8. NowShows(u, Outcome(u, pjJob[pjPoll[u]].st)) /\ pjPoll[u] # NoJob
  BY <1>7 DEF Polled
<1>9. u = t
  BY <1>8 DEF NowShows, PagesInv, PagesFit
<1>10. pjTracker'[t] = Outcome(t, pjJob[pjPoll[t]].st)
  BY <1>8, <1>9 DEF NowShows, PagesInv, PagesFit
<1>11. pjTracker[t].job = pjPoll[t] /\ pjPoll[t] # NoJob
  BY <1>8, <1>9, PollIs
<1>12. pjJob[pjPoll[t]].st \in {"done", "cancelled"}
  BY <1>10, OutcomeTyped
<1> QED
  BY <1>11, <1>12

\* A retry that submits has no job running.
LEMMA RetriesOnce ==
  ASSUME PagesInv, NEW t \in PjTrackers, RetryJob(t), pjPost'[t] = Sent,
         NEW j \in PjJobs \ (pjUnknown \union pjGivenUp), pjJob[j].of = t
  PROVE  pjJob[j].st # "running"
<1>1. pjTracker[t].st = "error"
  BY DEF RetryJob, Retries
<1>2. pjPost[t] = NoJob
  BY <1>1, NothingUnderWay
<1>3. pjTracker[t].job = NoJob
  BY <1>2, JobNumbers DEF RetryJob
<1> QED
  BY <1>2, <1>3, JobNumbers DEF PagesInv, OwnFollowed

\* The two action properties.
LEMMA PagesDo ==
  PagesInv /\ [PjNext]_pjVars =>
    /\ [\A t \in PjTrackers :
         pjTracker[t].st = "pending" /\ pjTracker'[t].st = "success" =>
           pjTracker[t].job # NoJob /\ pjJob[pjTracker[t].job].st \in {"done", "cancelled"}]_pjVars
    /\ [\A t \in PjTrackers :
         RetryJob(t) /\ pjPost'[t] = Sent =>
           \A j \in PjJobs \ (pjUnknown \union pjGivenUp) : pjJob[j].of = t => pjJob[j].st # "running"]_pjVars
  BY TellsTheEnd, RetriesOnce

\* For any sessions, tickets, lost answers, restarts and reloads: a running job is
\* followed, its end is told as it was, and a retry does not start it twice.
THEOREM PagesDoFollowJobs == PjSpec => PagesFollowJobs
  BY PagesInvariant, PagesTyped, PagesDo, PTL DEF PjSpec, PagesFollowJobs, ToldAsItEnded,
       NotSubmittedTwice
=============================================================================
