----------------------------- MODULE CodexAuth -----------------------------
(***************************************************************************)
(* The login of the Codex app-server.  Every generation of CodexClient runs *)
(* in a private profile with its own copy of the owner's auth file.  The    *)
(* app-server refreshes the token in its copy, which ends the one before;   *)
(* the owner may log in or out in the parent file at any moment.  A watcher *)
(* per generation carries changes both ways, comparing contents; a record   *)
(* on disk names the content last agreed on and the generation that may     *)
(* write back.  The program may end at any moment: the next generation      *)
(* recovers a refresh that was never written back.                          *)
(*                                                                          *)
(* CodexClient!OneProcess is used here: a generation starts when the process *)
(* of the one before ended.  Comparing the destination and replacing it is  *)
(* one step; a read and what is decided from it are two.                    *)
(*                                                                          *)
(* Source: clients/codex/auth_profile.py.                                   *)
(***************************************************************************)
EXTENDS Naturals, FiniteSets

CONSTANTS
  CaMaxGens,      \* bound: generations
  CaMaxLogins,    \* bound: logins of the owner
  CaMaxRefreshes, \* bound: refreshes of a login
  CaMaxCrashes,   \* bound: ends of the program
  CaNone, CaTorn  \* no file; a file half written

Profiles == 1..CaMaxGens
Token == [login : 0..CaMaxLogins, n : 0..CaMaxRefreshes]
Content == Token \cup {CaNone, CaTorn}

ASSUME CodexAuthAssumption ==
  /\ {CaMaxGens, CaMaxLogins, CaMaxRefreshes, CaMaxCrashes} \subseteq Nat
  /\ CaNone # CaTorn
  /\ \A x \in {CaNone, CaTorn} : x \notin Token /\ x \notin 0..CaMaxRefreshes

Valid(c) == c \notin {CaNone, CaTorn}

VARIABLES
  caParent,   \* auth.json of the owner
  caLatest,   \* external: the last token issued for each login, or CaNone after
              \* a logout of the app-server
  caProfile,  \* the profile directories and what the program knows of them
  caRecord,   \* auth-sync-state.json
  caSync,     \* the holder of the auth file lock, and what it read
  caLogin,    \* external: the owner's last login
  caCrashes

cavars == <<caParent, caLatest, caProfile, caRecord, caSync, caLogin, caCrashes>>

Profile == [dir : BOOLEAN,
            child : {"none", "runs", "ended"},
            local : BOOLEAN,   \* this program made it and has not restored it
            auth : Content,
            token : Token \cup {CaNone},  \* external: what the app-server holds
            last : Content,    \* last_synced
            changed : BOOLEAN, \* parent_changed
            watch : {"none", "polls", "stops", "ended"}]
NoProfile == [dir |-> FALSE, child |-> "none", local |-> FALSE, auth |-> CaNone,
              token |-> CaNone, last |-> CaNone, changed |-> FALSE, watch |-> "none"]

Free == [by |-> 0, op |-> "none", parent |-> CaNone, auth |-> CaNone]

CaTypeOK ==
  /\ caParent \in Content
  /\ caLatest \in [0..CaMaxLogins -> 0..CaMaxRefreshes \cup {CaNone}]
  /\ caProfile \in [Profiles -> Profile]
  /\ caRecord \in [last : Content \ {CaTorn}, owner : Profiles \cup {0}]
  /\ caSync \in [by : Profiles \cup {0}, parent : Content, auth : Content,
                 op : {"none", "poll", "final", "restore", "seeded", "recorded"}]
  /\ caLogin \in 0..CaMaxLogins
  /\ caCrashes \in 0..CaMaxCrashes

CaInit ==
  /\ caParent = [login |-> 0, n |-> 0]
  /\ caLatest = [l \in 0..CaMaxLogins |-> 0]
  /\ caProfile = [g \in Profiles |-> NoProfile]
  /\ caRecord = [last |-> CaNone, owner |-> 0]
  /\ caSync = Free
  /\ caLogin = 0
  /\ caCrashes = 0

Unlocked == caSync = Free
Owns(g) == caRecord.owner = g
P(g) == caProfile[g]

-----------------------------------------------------------------------------
(* A generation gets its profile, under the file lock.                     *)

\* Mutant of Recovers: a start seeds from the parent only.
RecoversNever == FALSE

\* The last owner's refresh was not written back and the parent is as it was.
Recovers ==
  /\ Valid(caParent) /\ caRecord.owner # 0 /\ caRecord.last = caParent
  /\ P(caRecord.owner).dir /\ Valid(P(caRecord.owner).auth)

\* A watcher is stopped after its app-server, also by the next generation,
\* which waits a second for the last sync.
StopOwner(g) ==
  /\ Unlocked /\ P(g).watch = "polls" /\ P(g).child = "ended"
  /\ caProfile' = [caProfile EXCEPT ![g].watch = "stops"]
  /\ UNCHANGED <<caParent, caLatest, caRecord, caSync, caLogin, caCrashes>>

\* Mutant of Seeded: the copied content is not checked.
SeededUnchecked(c) == c

\* A profile starts with a whole login or with none.
Seeded(c) == IF Valid(c) THEN c ELSE CaNone

Seed(g) ==
  /\ Unlocked /\ P(g) = NoProfile
  /\ \A h \in Profiles : /\ P(h).child # "runs" /\ P(h).watch # "polls"
                         /\ h < g => P(h) # NoProfile
  /\ LET c == IF Recovers THEN P(caRecord.owner).auth ELSE caParent
         seed == Seeded(c) IN
     /\ caParent' = c
     /\ caProfile' = [caProfile EXCEPT ![g].dir = TRUE, ![g].auth = seed, ![g].token = seed,
                                        ![g].last = seed]
     /\ caSync' = [Free EXCEPT !.by = g, !.op = "seeded"]
  /\ UNCHANGED <<caLatest, caRecord, caLogin, caCrashes>>

Record(g) ==
  /\ caSync.by = g /\ caSync.op = "seeded"
  /\ caRecord' = [last |-> P(g).last, owner |-> g]
  /\ caProfile' = [caProfile EXCEPT ![g].local = TRUE]
  /\ caSync' = [caSync EXCEPT !.op = "recorded"]
  /\ UNCHANGED <<caParent, caLatest, caLogin, caCrashes>>

\* Mutant of Reclaimed: a start removes nothing.
ReclaimedNone(g) == {}

\* Profiles of programs that ended, and without a parent login all of them.
Reclaimed(g) == {h \in Profiles : h # g /\ P(h).dir /\ ~(P(h).local /\ Valid(P(g).last))}

ReclaimAndRun(g) ==
  /\ caSync.by = g /\ caSync.op = "recorded"
  /\ caProfile' = [h \in Profiles |->
       CASE h = g -> [P(h) EXCEPT !.child = "runs", !.watch = "polls"]
         [] h \in Reclaimed(g) -> [P(h) EXCEPT !.dir = FALSE, !.auth = CaNone]
         [] OTHER -> P(h)]
  /\ caSync' = Free
  /\ UNCHANGED <<caParent, caLatest, caRecord, caLogin, caCrashes>>

-----------------------------------------------------------------------------
(* Synchronisation, under the file lock: a read of both files, then what    *)
(* _sync_codex_auth_files decides from it.                                  *)

Read(g, op) ==
  /\ Unlocked
  /\ caSync' = [by |-> g, op |-> op, parent |-> caParent, auth |-> P(g).auth]
  /\ UNCHANGED <<caParent, caLatest, caRecord, caLogin, caCrashes>>

\* Mutant of Copies: the destination is not compared again.
CopiesBlindly(g) == Valid(P(g).auth)

\* The profile replaces the parent only if that still is what the generation
\* last agreed on.
Copies(g) == Valid(P(g).auth) /\ caParent = P(g).last

Result(g, parent, record, ends) ==
  [parent |-> parent, profile |-> P(g), record |-> record, ends |-> ends]
Unowned(c) == [last |-> c, owner |-> 0]
Owned(g, c) == [last |-> c, owner |-> g]

\* The parent's new content: the ownership is given up before it is adopted.
Adopted(g, read) ==
  LET c == IF Valid(caParent) THEN caParent ELSE read IN
  [Result(g, caParent, Unowned(c), TRUE) EXCEPT
     !.profile.changed = TRUE, !.profile.last = c,
     !.profile.auth = IF Valid(caParent) THEN caParent ELSE @]

\* What the sync of generation g does with what it read.
Synced(g) ==
  LET parent == caSync.parent
      auth == caSync.auth
      last == P(g).last
      kept == Result(g, caParent, caRecord, FALSE) IN
  CASE \* another generation may write back
       ~Owns(g) -> [kept EXCEPT !.ends = TRUE]
    [] \* the owner logged out
       Owns(g) /\ parent = CaNone ->
         [Result(g, caParent, IF last # CaNone THEN Unowned(CaNone) ELSE caRecord, last # CaNone)
            EXCEPT !.profile.auth = CaNone, !.profile.last = CaNone]
    [] Owns(g) /\ parent # CaNone /\ CaTorn \in {parent, auth} -> kept
    [] \* the first login
       Owns(g) /\ Valid(parent) /\ auth # CaTorn /\ last = CaNone ->
         IF Valid(caParent)
         THEN [Result(g, caParent, Owned(g, caParent), FALSE) EXCEPT
                 !.profile.auth = caParent, !.profile.last = caParent]
         ELSE kept
    [] \* the owner logged in again
       Owns(g) /\ Valid(parent) /\ auth # CaTorn /\ last \notin {CaNone, parent} ->
         Adopted(g, parent)
    [] \* the app-server logged out
       Owns(g) /\ Valid(parent) /\ auth = CaNone /\ last = parent ->
         [Result(g, CaNone, Unowned(CaNone), TRUE) EXCEPT !.profile.last = CaNone]
    [] \* the app-server refreshed its token
       Owns(g) /\ Valid(parent) /\ Valid(auth) /\ last = parent /\ auth # last ->
         IF Copies(g)
         THEN [Result(g, P(g).auth, Owned(g, P(g).auth), FALSE) EXCEPT !.profile.last = P(g).auth]
         ELSE IF Valid(caParent) /\ caParent # last THEN Adopted(g, caParent) ELSE kept
    [] OTHER -> [Result(g, caParent, Owned(g, parent), FALSE) EXCEPT !.profile.last = parent]

Apply(g, r) ==
  /\ caParent' = r.parent /\ caRecord' = r.record
  /\ caSync' = Free /\ UNCHANGED <<caLatest, caLogin, caCrashes>>

\* A poll of the watcher.  When the parent changed or was lost, or another
\* generation took the ownership, the watcher ends and its generation retires.
Poll(g) == P(g).watch = "polls" /\ Read(g, "poll") /\ UNCHANGED caProfile

Polled(g) ==
  /\ caSync.by = g /\ caSync.op = "poll"
  /\ LET r == Synced(g) IN
     /\ Apply(g, r)
     /\ caProfile' = [caProfile EXCEPT ![g] =
          [r.profile EXCEPT !.watch = IF r.ends THEN "ended" ELSE @]]

\* The last sync of a watcher that was told to stop.
LastSync(g) == P(g).watch = "stops" /\ Read(g, "final") /\ UNCHANGED caProfile

LastSynced(g) ==
  /\ caSync.by = g /\ caSync.op = "final"
  /\ LET r == Synced(g) IN
     /\ Apply(g, r)
     /\ caProfile' = [caProfile EXCEPT ![g] = [r.profile EXCEPT !.watch = "ended"]]

-----------------------------------------------------------------------------
(* The end of a generation.                                                *)

ChildEnds(g) ==
  /\ P(g).child = "runs"
  /\ caProfile' = [caProfile EXCEPT ![g].child = "ended"]
  /\ UNCHANGED <<caParent, caLatest, caRecord, caSync, caLogin, caCrashes>>

Restore(g) ==
  /\ P(g).child = "ended" /\ P(g).watch = "ended" /\ P(g).local
  /\ Read(g, "restore") /\ UNCHANGED caProfile

\* The late refresh of a generation that may not write back any more, and
\* that never saw the parent change.
CopiesLate(g) ==
  /\ ~P(g).changed
  /\ P(g).last # CaNone /\ Valid(caSync.parent) /\ Valid(caSync.auth)
  /\ caSync.parent = P(g).last /\ caSync.auth # P(g).last /\ Copies(g)

\* The last refresh is written back, the ownership released, and the
\* profile removed.
Restored(g) ==
  /\ caSync.by = g /\ caSync.op = "restore"
  /\ LET r == IF Owns(g) THEN Synced(g)
              ELSE Result(g, IF CopiesLate(g) THEN P(g).auth ELSE caParent, caRecord, TRUE)
         record == IF r.record.owner = g THEN Unowned(r.profile.last) ELSE r.record IN
     /\ Apply(g, [r EXCEPT !.record = record])
     /\ caProfile' = [caProfile EXCEPT ![g] =
          [NoProfile EXCEPT !.child = "ended", !.watch = "ended"]]

\* The program ends, maybe just after a sync replaced the parent; its
\* app-server ends with it.
Crash ==
  /\ caCrashes < CaMaxCrashes
  /\ caCrashes' = caCrashes + 1
  /\ caParent' \in {caParent} \cup
       (IF caSync.op \in {"poll", "final", "restore"} /\ Owns(caSync.by)
        THEN {Synced(caSync.by).parent} ELSE {})
  /\ caProfile' = [g \in Profiles |->
       IF P(g).dir THEN [P(g) EXCEPT !.child = "ended", !.local = FALSE, !.watch = "ended"]
       ELSE P(g)]
  /\ caSync' = Free
  /\ UNCHANGED <<caLatest, caRecord, caLogin>>

-----------------------------------------------------------------------------
(* The app-server and the owner: external.                                 *)

\* Only the last token of a login can be refreshed; the app-server keeps the
\* one it started with in memory.
Refresh(g) ==
  /\ P(g).child = "runs" /\ P(g).token # CaNone
  /\ LET l == P(g).token.login
         t == [login |-> l, n |-> P(g).token.n + 1] IN
     /\ caLatest[l] = P(g).token.n /\ t.n <= CaMaxRefreshes
     /\ caLatest' = [caLatest EXCEPT ![l] = t.n]
     /\ caProfile' = [caProfile EXCEPT ![g].token = t, ![g].auth = t]
  /\ UNCHANGED <<caParent, caRecord, caSync, caLogin, caCrashes>>

ChildLogsOut(g) ==
  /\ P(g).child = "runs" /\ P(g).token # CaNone /\ P(g).auth = P(g).token
  /\ caProfile' = [caProfile EXCEPT ![g].token = CaNone, ![g].auth = CaNone]
  /\ caLatest' = [caLatest EXCEPT ![P(g).token.login] = CaNone]
  /\ UNCHANGED <<caParent, caRecord, caSync, caLogin, caCrashes>>

OwnerWrites ==
  /\ \/ /\ caParent # CaTorn /\ caLogin < CaMaxLogins
        /\ caParent' = CaTorn /\ caLogin' = caLogin + 1
     \/ /\ caParent = CaTorn
        /\ caParent' = [login |-> caLogin, n |-> 0] /\ UNCHANGED caLogin
     \/ /\ Valid(caParent)
        /\ caParent' = CaNone /\ UNCHANGED caLogin
  /\ UNCHANGED <<caLatest, caProfile, caRecord, caSync, caCrashes>>

-----------------------------------------------------------------------------
CaStep(g) ==
  \/ StopOwner(g) \/ Seed(g) \/ Record(g) \/ ReclaimAndRun(g) \/ Poll(g) \/ Polled(g)
  \/ LastSync(g) \/ LastSynced(g) \/ Restore(g) \/ Restored(g)

CaNext ==
  \/ \E g \in Profiles : CaStep(g) \/ ChildEnds(g) \/ Refresh(g) \/ ChildLogsOut(g)
  \/ Crash \/ OwnerWrites

CaSpec == CaInit /\ [][CaNext]_cavars

-----------------------------------------------------------------------------
(* Properties.                                                             *)

\* A refresh is not lost: the one token that still works for the login in the
\* parent file is in that file, or in a profile that this program restores or
\* the next one recovers.
RefreshKept ==
  Valid(caParent) /\ caLatest[caParent.login] # CaNone =>
    LET t == [login |-> caParent.login, n |-> caLatest[caParent.login]] IN
    \/ caParent = t
    \/ \E g \in Profiles :
         P(g).dir /\ P(g).auth = t /\ (P(g).local \/ (Owns(g) /\ caRecord.last = caParent))

\* No token of an earlier login replaces a later one, and a logout of the
\* owner stands: only the owner's own login ends it.
LoginKept ==
  [][/\ Valid(caParent) /\ Valid(caParent') => caParent'.login >= caParent.login
     /\ caParent = CaNone => caParent' \in {CaNone, CaTorn}]_cavars

\* No credentials of an ended program outlive the next start.
OrphansReclaimed ==
  \A g, h \in Profiles :
    P(g).child = "runs" /\ P(h).dir /\ h # g => P(h).local

\* The owner's login and its one valid token survive the profiles copied from
\* it, and no copy survives its program for longer than until the next start.
CodexLoginSafe == [](CaTypeOK /\ RefreshKept /\ OrphansReclaimed) /\ LoginKept
=============================================================================
