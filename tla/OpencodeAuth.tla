---------------------------- MODULE OpencodeAuth ----------------------------
(***************************************************************************)
(* The provider login of OpenCode calls.  Each call copies the entry of    *)
(* its provider into a private directory; its child refreshes the token    *)
(* there, which ends the one before.  A watcher writes a refresh back by   *)
(* comparing with the entry the call started from.  Calls that start on an *)
(* expired token take turns with a lease.  The owner may log in again or   *)
(* out at any moment.                                                      *)
(*                                                                         *)
(* The children and the owner are external.  Comparing the owner's file    *)
(* and replacing it is one step.                                           *)
(*                                                                         *)
(* Source: clients/llm/opencode_credentials.py.                            *)
(***************************************************************************)
EXTENDS Naturals, FiniteSets

CONSTANTS
  OaCalls,
  OaMaxLogins,    \* bound: logins of the owner
  OaMaxRefreshes, \* bound: refreshes of a login
  OaNone          \* no entry

Tokens == [login : 0..OaMaxLogins, n : 0..OaMaxRefreshes]
Entries == Tokens \cup {OaNone}

ASSUME OpencodeAuthAssumption ==
  OaMaxLogins \in Nat /\ OaMaxRefreshes \in Nat /\ OaNone \notin Tokens

VARIABLES
  oaSource,  \* the provider's entry in the owner's auth.json
  oaLatest,  \* external: the last token issued for each login
  oaDue,     \* the tokens that expire
  oaCall,    \* the calls
  oaLogin    \* external: the owner's logins

oavars == <<oaSource, oaLatest, oaDue, oaCall, oaLogin>>

OaTypeOK ==
  /\ oaSource \in Entries
  /\ oaLatest \in [0..OaMaxLogins -> 0..OaMaxRefreshes]
  /\ oaDue \subseteq Entries \ {OaNone}
  /\ oaCall \in [OaCalls -> [pc : {"read", "lease", "copy", "run", "final", "over"},
                             base : Entries,    \* sync_state.baseline_entry
                             target : Entries,  \* the private auth.json
                             last : Entries,    \* what the watcher saw
                             lease : BOOLEAN,
                             won : BOOLEAN]]    \* parent_won
  /\ oaLogin \in 0..OaMaxLogins
  /\ Cardinality({c \in OaCalls : oaCall[c].lease}) <= 1

OaInit ==
  /\ oaSource = [login |-> 0, n |-> 0]
  /\ oaLatest = [l \in 0..OaMaxLogins |-> 0]
  /\ oaDue \in SUBSET {oaSource}
  /\ oaLogin = 0
  /\ oaCall = [c \in OaCalls |-> [pc |-> "read", base |-> OaNone, target |-> OaNone,
                                  last |-> OaNone, lease |-> FALSE, won |-> FALSE]]

Started(c, e, lease) ==
  oaCall' = [oaCall EXCEPT ![c] = [@ EXCEPT !.pc = IF e = OaNone THEN "over" ELSE "copy",
                                            !.base = e, !.lease = lease /\ e # OaNone]]

ReadSource(c) ==
  /\ oaCall[c].pc = "read"
  /\ \/ oaSource \notin oaDue /\ Started(c, oaSource, FALSE)
     \/ /\ oaSource \in oaDue
        /\ oaCall' = [oaCall EXCEPT ![c].pc = "lease", ![c].base = oaSource]
  /\ UNCHANGED <<oaSource, oaLatest, oaDue, oaLogin>>

\* Mutant of AfterWaiting: the snapshot from before the wait is used.
AfterWaitingStale(c) == oaCall[c].base

\* A caller that waited for the lease takes what the refresh before it wrote.
AfterWaiting(c) == oaSource

\* Mutant of LeaseFree: nobody waits for a refresh under way.
LeaseFreeAlways == TRUE

LeaseFree == \A d \in OaCalls : ~oaCall[d].lease

TakeLease(c) ==
  /\ oaCall[c].pc = "lease" /\ LeaseFree
  /\ Started(c, AfterWaiting(c), AfterWaiting(c) \in oaDue)
  /\ UNCHANGED <<oaSource, oaLatest, oaDue, oaLogin>>

CopyEntry(c) ==
  /\ oaCall[c].pc = "copy"
  /\ LET x == oaCall[c] IN
     oaCall' = [oaCall EXCEPT ![c] = [x EXCEPT !.pc = "run", !.target = x.base, !.last = x.base]]
  /\ UNCHANGED <<oaSource, oaLatest, oaDue, oaLogin>>

\* Mutant of Unchanged: the refresh replaces whatever the owner has.
UnchangedAlways(x) == TRUE

Unchanged(x) == oaSource = x.base

\* _write_refreshed_opencode_credential: the new source, and the call x after
\* it.  An owner who changed the entry wins; the copy adopts it.
WrittenBack(x) ==
  IF x.won \/ x.target = OaNone THEN [source |-> oaSource, call |-> x]
  ELSE IF ~Unchanged(x)
       THEN [source |-> oaSource,
             call |-> [x EXCEPT !.target = oaSource, !.base = oaSource, !.won = TRUE]]
       ELSE [source |-> x.target, call |-> [x EXCEPT !.base = x.target]]

\* The watcher: once a refresh is in the owner's file, or lost to the owner,
\* the lease is given up.
Watch(c) ==
  LET x == oaCall[c]
      w == WrittenBack(x) IN
  /\ x.pc = "run" /\ ~x.won /\ x.target \notin {OaNone, x.last}
  /\ oaSource' = w.source
  /\ oaCall' = [oaCall EXCEPT ![c] = [w.call EXCEPT !.last = x.target, !.lease = FALSE]]
  /\ UNCHANGED <<oaLatest, oaDue, oaLogin>>

CallEnds(c) ==
  /\ oaCall[c].pc = "run"
  /\ oaCall' = [oaCall EXCEPT ![c].pc = "final"]
  /\ UNCHANGED <<oaSource, oaLatest, oaDue, oaLogin>>

\* Mutant of LastWrite: the last poll of the watcher was the last write.
LastWriteNone(x) == [source |-> oaSource, call |-> x]

LastWrite(x) == WrittenBack(x)

\* The watcher was stopped: the last refresh is written back.
WriteLast(c) ==
  /\ oaCall[c].pc = "final"
  /\ oaSource' = LastWrite(oaCall[c]).source
  /\ oaCall' = [oaCall EXCEPT ![c] = [LastWrite(@).call EXCEPT !.pc = "over", !.lease = FALSE]]
  /\ UNCHANGED <<oaLatest, oaDue, oaLogin>>

-----------------------------------------------------------------------------
(* The children, the provider and the owner: external.                     *)

\* The provider takes only the last token of a login.
ChildRefreshes(c) ==
  LET t == oaCall[c].target IN
  /\ oaCall[c].pc = "run" /\ t \in oaDue /\ t.n = oaLatest[t.login] /\ t.n < OaMaxRefreshes
  /\ oaLatest' = [oaLatest EXCEPT ![t.login] = t.n + 1]
  /\ oaCall' = [oaCall EXCEPT ![c].target.n = t.n + 1]
  /\ UNCHANGED <<oaSource, oaDue, oaLogin>>

TokenExpires ==
  /\ oaSource \notin oaDue \cup {OaNone}
  /\ oaDue' = oaDue \cup {oaSource}
  /\ UNCHANGED <<oaSource, oaLatest, oaCall, oaLogin>>

OwnerLogsIn ==
  /\ oaLogin < OaMaxLogins
  /\ oaLogin' = oaLogin + 1
  /\ oaSource' = [login |-> oaLogin', n |-> 0]
  /\ UNCHANGED <<oaLatest, oaDue, oaCall>>

OwnerLogsOut ==
  /\ oaSource # OaNone
  /\ oaSource' = OaNone
  /\ UNCHANGED <<oaLatest, oaDue, oaCall, oaLogin>>

-----------------------------------------------------------------------------
OaNext ==
  \/ \E c \in OaCalls : \/ ReadSource(c) \/ TakeLease(c) \/ CopyEntry(c) \/ Watch(c) \/ CallEnds(c)
                        \/ WriteLast(c) \/ ChildRefreshes(c)
  \/ TokenExpires \/ OwnerLogsIn \/ OwnerLogsOut

OaSpec == OaInit /\ [][OaNext]_oavars

-----------------------------------------------------------------------------
(* Properties.                                                             *)

\* A refresh is not lost: the one token that works for the owner's login is
\* in the owner's file or in the copy of a call that still writes it back.
\* (A call that lost to a new login of the owner adopted that login; what its
\* child then refreshes is never written back.)
OpencodeRefreshKept ==
  oaSource # OaNone =>
    LET t == [login |-> oaSource.login, n |-> oaLatest[oaSource.login]] IN
    \/ oaSource = t
    \/ \E c \in OaCalls : oaCall[c].pc \in {"run", "final"} /\ oaCall[c].target = t
                          /\ ~oaCall[c].won /\ oaCall[c].base = oaSource
    \/ \E c \in OaCalls : oaCall[c].won /\ oaCall[c].target = t

\* A new login or a logout of the owner stands, whatever calls that started
\* before it still refresh.
OpencodeLoginKept ==
  [][/\ oaSource # OaNone /\ oaSource' # OaNone => oaSource'.login >= oaSource.login
     /\ oaSource = OaNone /\ oaSource' # OaNone => oaSource'.login > oaLogin]_oavars

\* Calls that start on an expired token do not spend it twice: the one that
\* gets the lease takes the last token of the login, unless a call without the
\* lease, which started before the token expired, just refreshed it
\* (or one that lost to this login and refreshed its copy of it).
LeaseHasLastToken ==
  [][\A c \in OaCalls :
       LET e == oaCall'[c].base IN
       oaCall[c].pc = "lease" /\ oaCall'[c].lease /\ e.n # oaLatest[e.login] =>
         \E d \in OaCalls \ {c} :
           /\ oaCall[d].pc \in {"run", "final"} \/ oaCall[d].won
           /\ ~oaCall[d].lease
           /\ oaCall[d].target = [login |-> e.login, n |-> oaLatest[e.login]]
           /\ oaCall[d].target # oaSource]_oavars

\* Parallel calls on one rotating login lose neither its last token nor the
\* owner's next login, and refresh one after the other.
OpencodeLoginSafe ==
  [](OaTypeOK /\ OpencodeRefreshKept) /\ OpencodeLoginKept /\ LeaseHasLastToken
=============================================================================
