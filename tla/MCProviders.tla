---------------------------- MODULE MCProviders ----------------------------
(***************************************************************************)
(* The clients of the language-model providers, one at a time: `client` is *)
(* chosen at the start and only its module moves.                          *)
(***************************************************************************)
EXTENDS CodexClient, CodexAuth, OpencodeCache, OpencodeCalls, OpencodeAuth

CONSTANTS u, v, a, b, c1, c2, c3, m1, m2, p1

\* Two callers of one Codex thread.
MCThreadOf == [caller \in CxCallers |-> "same"]
\* Two models; the second is used by two calls.
MCModelOf == [call \in OcCalls |-> IF call = c1 THEN m1 ELSE m2]

VARIABLE client

ProvidersInit ==
  /\ client \in {"codex", "codex_auth", "cache", "calls", "opencode_auth"}
  /\ CxInit /\ CaInit /\ OcInit /\ OlInit /\ OaInit
  \* Only the chosen client has more than one initial state.
  /\ client # "cache" => ocWarm = [m \in OcModels |-> OcNone]
  /\ client # "calls" => olToken = [call \in OlCalls |-> "own"]
  /\ client # "opencode_auth" => oaDue = {}

\* The author interrupts a turn before a fault, never after one; of an interrupt,
\* a fault and the end of the service a behaviour has two.
CodexNext ==
  /\ CxNext
  /\ cxClosed' /\ cxFaults' > 0 => \A w \in CxCallers : ~cxCall'[w].cancelled
  /\ cxFaults > 0 => \A w \in CxCallers : cxCall'[w].cancelled => cxCall[w].cancelled

\* Calls that are alike begin in their order: of two on one model the first, and
\* of the two on one login.
CacheNext == OcNext /\ (At(c2, "sweep") /\ ocCall[c2].child = "none" => ocCall'[c3] = ocCall[c3])
LoginNext == OaNext /\ (oaCall[a].pc = "read" => oaCall'[b] = oaCall[b])

\* A child writes its third line only in the last attempt of its call.
CallsNext == OlNext /\ \A c \in OlCalls : olCall'[c].try.wrote = 3 => olCall'[c].n = OlRetries

ProvidersNext ==
  /\ client' = client
  /\ IF client = "codex" THEN CodexNext ELSE UNCHANGED cxvars
  /\ IF client = "codex_auth" THEN CaNext ELSE UNCHANGED cavars
  /\ IF client = "cache" THEN CacheNext ELSE UNCHANGED ocvars
  /\ IF client = "calls" THEN CallsNext ELSE UNCHANGED olvars
  /\ IF client = "opencode_auth" THEN LoginNext ELSE UNCHANGED oavars

ProvidersSpec ==
  /\ ProvidersInit
  /\ [][ProvidersNext]_<<client, cxvars, cavars, ocvars, olvars, oavars>>
=============================================================================
