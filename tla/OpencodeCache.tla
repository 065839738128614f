--------------------------- MODULE OpencodeCache ---------------------------
(***************************************************************************)
(* The files that OpenCode calls share: the cache of provider packages, in *)
(* which a child process may install one at any time, and the temporary    *)
(* directories.  Calls of one or many processes of the program order       *)
(* themselves with file locks, which the child inherits: they stay held    *)
(* when the program dies before its child.  What an abandoned call may     *)
(* have left behind is removed by the next one.                            *)
(*                                                                         *)
(* The child is external: it installs packages, ends or is killed.         *)
(*                                                                         *)
(* Source: clients/llm/opencode_runtime.py, and clients/llm/opencode.py    *)
(* for the order in which a call uses it.                                  *)
(***************************************************************************)
EXTENDS Naturals, FiniteSets

CONSTANTS
  OcCalls, OcModels, OcModelOf, OcPackages,
  OcMaxCrashes,   \* bound: ends of the program, and of the machine
  OcNone, OcTorn  \* no file; a file that lost its content

ASSUME OpencodeCacheAssumption ==
  /\ OcModelOf \in [OcCalls -> OcModels]
  /\ OcMaxCrashes \in Nat
  /\ OcNone \notin OcCalls
  /\ OcNone # OcTorn /\ \A s \in SUBSET OcPackages : s # OcNone /\ s # OcTorn

VARIABLES
  ocCall,     \* where each call is, and its child
  ocPop,      \* how it holds the population lock
  ocIntent,   \* the holder of the intent lock
  ocRoot,     \* the holder of the lock of the temporary root
  ocPackage,  \* the packages on disk, and the call whose child installed each
  ocWarm,     \* the warm marker of each model: an inventory
  ocPending,  \* the pending record of each call: the inventory it started from
  ocDir,      \* its temporary directory
  ocCrashes

ocvars == <<ocCall, ocPop, ocIntent, ocRoot, ocPackage, ocWarm, ocPending, ocDir, ocCrashes>>

Inventory == (SUBSET OcPackages) \cup {OcNone, OcTorn}
Readable(i) == i \notin {OcNone, OcTorn}

OcCallState ==
  [pc : {"sweep", "dir", "live", "intent", "excl", "again", "record", "start", "wait", "marked",
         "over", "dead"},
   child : {"none", "runs", "ok", "failed"}]

At(c, pc) == ocCall[c].pc = pc

OcTypeOK ==
  /\ ocCall \in [OcCalls -> OcCallState]
  /\ ocPop \in [OcCalls -> {"none", "shared", "excl"}]
  /\ ocIntent \in OcCalls \cup {OcNone}
  /\ ocRoot \in OcCalls \cup {OcNone}
  /\ ocPackage \in [OcPackages -> [is : {"absent", "half", "whole"}, by : OcCalls \cup {OcNone}]]
  /\ ocWarm \in [OcModels -> Inventory]
  /\ ocPending \in [OcCalls -> Inventory]
  /\ ocDir \in [OcCalls -> {"none", "made", "locked"}]
  /\ ocCrashes \in 0..OcMaxCrashes
  /\ \A c \in OcCalls : /\ ocRoot = c => At(c, "live")
                        /\ ocIntent = c => ocCall[c].pc \in {"excl", "again"}

\* Some models were called before, without a package to install.
OcInit ==
  /\ ocCall = [c \in OcCalls |-> [pc |-> "sweep", child |-> "none"]]
  /\ ocPop = [c \in OcCalls |-> "none"]
  /\ ocIntent = OcNone
  /\ ocRoot = OcNone
  /\ ocPackage = [p \in OcPackages |-> [is |-> "absent", by |-> OcNone]]
  /\ ocWarm \in [OcModels -> {OcNone, {}}]
  /\ ocPending = [c \in OcCalls |-> OcNone]
  /\ ocDir = [c \in OcCalls |-> "none"]
  /\ ocCrashes = 0

OcGoto(c, pc) == ocCall' = [ocCall EXCEPT ![c].pc = pc]
\* Somebody still holds the descriptors of call c.
Lives(c) == ~At(c, "dead") \/ ocCall[c].child = "runs"
Installed == {p \in OcPackages : ocPackage[p].is # "absent"}

-----------------------------------------------------------------------------
(* The temporary directory of a call.                                      *)

\* Directories without a live lock are removed, under the root lock.
Sweep(c) ==
  /\ At(c, "sweep") /\ ocRoot = OcNone
  /\ ocDir' = [d \in OcCalls |-> IF ocDir[d] = "locked" /\ Lives(d) THEN "locked" ELSE "none"]
  /\ OcGoto(c, "dir")
  /\ UNCHANGED <<ocPop, ocIntent, ocRoot, ocPackage, ocWarm, ocPending, ocCrashes>>

\* Mutant of RootLock: the directory is made outside of the lock.
RootLockNone(c) == OcNone

RootLock(c) == c

MakeDirectory(c) ==
  /\ At(c, "dir") /\ ocRoot = OcNone
  /\ ocRoot' = RootLock(c)
  /\ ocDir' = [ocDir EXCEPT ![c] = "made"]
  /\ OcGoto(c, "live")
  /\ UNCHANGED <<ocPop, ocIntent, ocPackage, ocWarm, ocPending, ocCrashes>>

LockDirectory(c) ==
  /\ At(c, "live")
  /\ ocRoot' = OcNone
  /\ ocDir' = [ocDir EXCEPT ![c] = IF @ = "made" THEN "locked" ELSE @]
  /\ OcGoto(c, "intent")
  /\ UNCHANGED <<ocPop, ocIntent, ocPackage, ocWarm, ocPending, ocCrashes>>

-----------------------------------------------------------------------------
(* The package cache: hold_opencode_cache.                                 *)

Abandoned == {c \in OcCalls : ocPending[c] # OcNone /\ ~Lives(c)}
IsWarm(c) == ocWarm[OcModelOf[c]] # OcNone
NobodyElse(c, kinds) == \A d \in OcCalls \ {c} : ocPop[d] \notin kinds

\* Mutant of Waits: a warm call does not queue behind a waiting writer.
WaitsNot(c) == TRUE

\* The intent lock is free, or this call has it.
Waits(c) == ocIntent \in {OcNone, c}

\* Mutant of MayShare: the marker alone decides.
MayShareWarm(c) == IsWarm(c)

MayShare(c) == IsWarm(c) /\ Abandoned = {}

\* The call queues for the intent lock and takes the population lock shared.
\* A cold model or an abandoned call makes it give that up for the exclusive
\* lock.
TakeShared(c) ==
  /\ At(c, "intent") /\ Waits(c) /\ NobodyElse(c, {"excl"})
  /\ \/ /\ MayShare(c)
        /\ ocPop' = [ocPop EXCEPT ![c] = "shared"]
        /\ OcGoto(c, "record")
        /\ UNCHANGED ocIntent
     \/ /\ ~MayShare(c)
        /\ ocIntent' = c
        /\ OcGoto(c, "excl") /\ UNCHANGED ocPop
  /\ UNCHANGED <<ocRoot, ocPackage, ocWarm, ocPending, ocDir, ocCrashes>>

TakeExclusive(c) ==
  /\ At(c, "excl") /\ ocPop[c] = "none" /\ NobodyElse(c, {"shared", "excl"})
  /\ ocPop' = [ocPop EXCEPT ![c] = "excl"]
  /\ UNCHANGED <<ocCall, ocIntent, ocRoot, ocPackage, ocWarm, ocPending, ocDir, ocCrashes>>

Recovering(c) == At(c, "excl") /\ ocPop[c] = "excl"

Committed == UNION {ocWarm[m] : m \in {n \in OcModels : Readable(ocWarm[n])}}

\* Mutant of Additions: what other calls committed is not spared.
AdditionsAll(p) == IF ocPending[p] = OcTorn THEN Installed ELSE Installed \ ocPending[p]

\* The packages to remove for the abandoned call p; all of them when its
\* record cannot be read.
Additions(p) ==
  IF ocPending[p] = OcTorn THEN Installed ELSE (Installed \ ocPending[p]) \ Committed

\* The removal of a package may be cut short by the end of the program.
RemovePartly(c) ==
  /\ Recovering(c)
  /\ \E p \in Abandoned : \E k \in Additions(p) :
       /\ ocPackage[k].is = "whole"
       /\ ocPackage' = [ocPackage EXCEPT ![k] = [is |-> "half", by |-> p]]
  /\ UNCHANGED <<ocCall, ocPop, ocIntent, ocRoot, ocWarm, ocPending, ocDir, ocCrashes>>

RecoverOne(c) ==
  /\ Recovering(c)
  /\ \E p \in Abandoned :
       /\ ocPackage' = [k \in OcPackages |->
            IF k \in Additions(p) THEN [is |-> "absent", by |-> OcNone] ELSE ocPackage[k]]
       /\ ocWarm' = IF ocPending[p] = OcTorn THEN [m \in OcModels |-> OcNone] ELSE ocWarm
       /\ ocPending' = [ocPending EXCEPT ![p] = OcNone]
  /\ UNCHANGED <<ocCall, ocPop, ocIntent, ocRoot, ocDir, ocCrashes>>

\* A cold call goes on alone; a warm one changes back to the shared lock.
Recovered(c) ==
  /\ Recovering(c) /\ Abandoned = {}
  /\ \/ /\ ~IsWarm(c)
        /\ ocIntent' = OcNone /\ OcGoto(c, "record")
        /\ UNCHANGED ocPop
     \/ /\ IsWarm(c)
        /\ ocPop' = [ocPop EXCEPT ![c] = "none"]
        /\ OcGoto(c, "again") /\ UNCHANGED ocIntent
  /\ UNCHANGED <<ocRoot, ocPackage, ocWarm, ocPending, ocDir, ocCrashes>>

TakeSharedAgain(c) ==
  /\ At(c, "again") /\ NobodyElse(c, {"excl"})
  /\ ocPop' = [ocPop EXCEPT ![c] = "shared"]
  /\ ocIntent' = OcNone
  /\ OcGoto(c, "record")
  /\ UNCHANGED <<ocRoot, ocPackage, ocWarm, ocPending, ocDir, ocCrashes>>

\* The record of the call is locked before it can be seen.
RecordCall(c) ==
  /\ At(c, "record")
  /\ ocPending' = [ocPending EXCEPT ![c] = Installed]
  /\ OcGoto(c, "start")
  /\ UNCHANGED <<ocPop, ocIntent, ocRoot, ocPackage, ocWarm, ocDir, ocCrashes>>

Start(c) ==
  /\ At(c, "start")
  /\ ocCall' = [ocCall EXCEPT ![c] = [pc |-> "wait", child |-> "runs"]]
  /\ UNCHANGED <<ocPop, ocIntent, ocRoot, ocPackage, ocWarm, ocPending, ocDir, ocCrashes>>

\* A call with an answer marks its model warm, with all packages there are.
MarkWarm(c) ==
  /\ At(c, "wait") /\ ocCall[c].child = "ok"
  /\ ocWarm' = [ocWarm EXCEPT ![OcModelOf[c]] = Installed]
  /\ OcGoto(c, "marked")
  /\ UNCHANGED <<ocPop, ocIntent, ocRoot, ocPackage, ocPending, ocDir, ocCrashes>>

\* Mutant of Released: a wait that is given up keeps what it took before.
ReleasedNever(lock, c) == lock

Released(lock, c) == IF lock = c THEN OcNone ELSE lock

\* The end of a call, also by its deadline or a cancellation: the child is
\* stopped, the record dropped, the locks released.
LeaveCall(c) ==
  /\ ocCall[c].pc \notin {"over", "dead"}
  /\ ocCall' = [ocCall EXCEPT ![c] =
       [pc |-> "over", child |-> IF @.child = "runs" THEN "failed" ELSE @.child]]
  /\ ocPop' = [ocPop EXCEPT ![c] = "none"]
  /\ ocIntent' = Released(ocIntent, c)
  /\ ocRoot' = Released(ocRoot, c)
  /\ ocPending' = [ocPending EXCEPT ![c] = OcNone]
  /\ ocDir' = [ocDir EXCEPT ![c] = "none"]
  /\ UNCHANGED <<ocPackage, ocWarm, ocCrashes>>

-----------------------------------------------------------------------------
(* Crashes.                                                                *)

\* Mutant of Inherited: the child does not get the descriptors.
InheritedNot(c) == FALSE

\* The child keeps the locks of the call it was started by.
Inherited(c) == ocCall[c].child = "runs"

ProgramDies(c) ==
  /\ ocCrashes < OcMaxCrashes
  /\ ocCrashes' = ocCrashes + 1
  /\ ocCall[c].pc \notin {"over", "dead"}
  /\ OcGoto(c, "dead")
  /\ ocPop' = [ocPop EXCEPT ![c] = IF Inherited(c) THEN @ ELSE "none"]
  /\ ocIntent' = Released(ocIntent, c)
  /\ ocRoot' = Released(ocRoot, c)
  /\ UNCHANGED <<ocPackage, ocWarm, ocPending, ocDir>>

\* Records and markers are not synced to the disk.
MachineStops ==
  /\ ocCrashes < OcMaxCrashes
  /\ ocCrashes' = ocCrashes + 1
  /\ ocCall' = [c \in OcCalls |->
       IF ocCall[c].pc \in {"sweep", "over", "dead"} /\ ocCall[c].child # "runs" THEN ocCall[c]
       ELSE [pc |-> "dead", child |-> IF ocCall[c].child = "runs" THEN "failed" ELSE ocCall[c].child]]
  /\ ocPop' = [c \in OcCalls |-> "none"]
  /\ ocIntent' = OcNone /\ ocRoot' = OcNone
  /\ \E lost \in SUBSET {c \in OcCalls : ocPending[c] # OcNone} :
       ocPending' = [c \in OcCalls |-> IF c \in lost THEN OcTorn ELSE ocPending[c]]
  /\ \E lost \in SUBSET {m \in OcModels : ocWarm[m] # OcNone} :
       ocWarm' = [m \in OcModels |-> IF m \in lost THEN OcTorn ELSE ocWarm[m]]
  /\ UNCHANGED <<ocPackage, ocDir>>

-----------------------------------------------------------------------------
(* The child: external.                                                    *)

OcChildInstalls(c, k) ==
  /\ ocCall[c].child = "runs"
  /\ \/ ocPackage[k].is = "absent" /\ ocPackage' = [ocPackage EXCEPT ![k] = [is |-> "half", by |-> c]]
     \/ ocPackage[k] = [is |-> "half", by |-> c] /\ ocPackage' = [ocPackage EXCEPT ![k].is = "whole"]
  /\ UNCHANGED <<ocCall, ocPop, ocIntent, ocRoot, ocWarm, ocPending, ocDir, ocCrashes>>

OcChildEnds(c) ==
  /\ ocCall[c].child = "runs"
  /\ \E r \in {"ok", "failed"} :
       /\ r = "ok" => \A k \in OcPackages : ocPackage[k] # [is |-> "half", by |-> c]
       /\ ocCall' = [ocCall EXCEPT ![c].child = r]
  /\ ocPop' = [ocPop EXCEPT ![c] = IF At(c, "dead") THEN "none" ELSE @]
  /\ UNCHANGED <<ocIntent, ocRoot, ocPackage, ocWarm, ocPending, ocDir, ocCrashes>>

-----------------------------------------------------------------------------
OcStep(c) ==
  \/ Sweep(c) \/ MakeDirectory(c) \/ LockDirectory(c) \/ TakeShared(c) \/ TakeExclusive(c)
  \/ RemovePartly(c) \/ RecoverOne(c) \/ Recovered(c) \/ TakeSharedAgain(c) \/ RecordCall(c)
  \/ Start(c) \/ MarkWarm(c) \/ LeaveCall(c)

OcNext ==
  \/ \E c \in OcCalls : OcStep(c) \/ ProgramDies(c) \/ OcChildEnds(c)
  \/ \E c \in OcCalls, k \in OcPackages : OcChildInstalls(c, k)
  \/ MachineStops

OcSpec == OcInit /\ [][OcNext]_ocvars

-----------------------------------------------------------------------------
(* Properties.                                                             *)

\* A call for a cold model, and a recovery, have the cache for themselves:
\* no child runs beside them, not even one whose program died.
ColdAlone ==
  \A c, d \in OcCalls : ocPop[c] = "excl" /\ c # d => ocPop[d] = "none" /\ ocCall[d].child # "runs"

\* A call goes ahead only when no abandoned call is left whose half-installed
\* packages it could run with.  Two kinds stay: those of a child that the
\* program itself saw fail or stopped, and those another call's warm marker
\* names, written while they were being installed.  When the machine stopped and
\* a marker lost its content, its packages cannot be told from the others.
NothingHalfLeft ==
  [][\A c \in OcCalls : ~At(c, "record") /\ ocCall'[c].pc = "record" =>
       \A k \in OcPackages : ocPackage[k].is = "half" =>
         \/ ocPackage[k].by \in OcCalls /\ Lives(ocPackage[k].by)
         \/ k \in Committed
         \/ \E m \in OcModels : ocWarm[m] = OcTorn]_ocvars

\* A warm model has its packages: a recovery on behalf of an abandoned call
\* removes none that a finished call relies on, or every marker with them.
WarmMeansInstalled ==
  \A m \in OcModels : Readable(ocWarm[m]) => ocWarm[m] \subseteq Installed

\* A sweep removes no directory in use: neither one just made, nor that of a
\* child whose program died.
LiveDirectoryKept ==
  \A c \in OcCalls : ocCall[c].child = "runs" => ocDir[c] = "locked"

\* While a call waits for the exclusive lock, no new call overtakes it.
WriterNotOvertaken ==
  [][\A c, d \in OcCalls : At(c, "excl") /\ ocCall'[c].pc = "excl" /\ ocPop[d] = "none" /\ d # c =>
       ocPop'[d] = "none"]_ocvars

\* Calls that share the cache see only whole packages and live directories, and
\* the one that has to write gets its turn.
SharedCacheSound ==
  /\ [](OcTypeOK /\ ColdAlone /\ WarmMeansInstalled /\ LiveDirectoryKept)
  /\ NothingHalfLeft /\ WriterNotOvertaken
=============================================================================
