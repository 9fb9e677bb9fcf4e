------------------------------ MODULE Headroom ------------------------------
(***************************************************************************)
(* Context compression (headroom.go, headroom_stats.go): which outputs of   *)
(* the tools a request carries are replaced by a short text that names the  *)
(* original by its hash, and which originals must therefore be stored.      *)
(*                                                                          *)
(* A text is abstracted to its name, which stands for its hash as well, its *)
(* sizes, and the sizes of what the compressors make of it.                 *)
(***************************************************************************)
EXTENDS Integers, FiniteSets

CONSTANTS
  Mode,               \* "off", "dry-run", "on"
  MinChars, MinSavedChars, MinSavingsPercent,
  MinSavedTokens, MinTokenSavingsPercent,
  LiveZoneItems,      \* only the last so many candidates; 0: no limit
  LiveZonePolicy      \* "latest-per-type" or "all"

ASSUME HeadroomAssumption ==
  /\ Mode \in {"off", "dry-run", "on"}
  /\ LiveZonePolicy \in {"latest-per-type", "all"}
  /\ MinChars \in Nat /\ LiveZoneItems \in Nat

approvedResponseOutputTypes ==
  {"function_call_output", "local_shell_call_output",
   "apply_patch_call_output", "custom_tool_call_output"}

\* What an item's output may be: a text, a list of content blocks, nothing.
NotText == [kind |-> "other"]
Text(name, chars, tokens, short) ==
  [kind |-> "text", name |-> name, chars |-> chars, tokens |-> tokens, short |-> short]
\* What the compressors make of a text; Panics is the failure that
\* compressTextFailOpen recovers from.
Short(chars, tokens, lossless) ==
  [ok |-> TRUE, chars |-> chars, tokens |-> tokens, lossless |-> lossless]
Panics == [ok |-> FALSE]

isEligibleRequest(req) == req.path = "/v1/responses" /\ Mode # "off"

shouldUseCandidate(item) ==
  /\ item.type \in approvedResponseOutputTypes
  /\ item.output.kind = "text"
  /\ item.output.chars >= MinChars

\* The places in the input that are looked at: of each type the last one, if
\* the policy says so, and of those the last few.
collectCandidates(input) ==
  LET usable == {i \in DOMAIN input : shouldUseCandidate(input[i])}
      latest == {i \in usable :
                   \A j \in usable : input[j].type = input[i].type => j <= i}
      zone   == IF LiveZonePolicy = "latest-per-type" THEN latest ELSE usable
  IN {i \in zone :
        LiveZoneItems > 0 => Cardinality({j \in zone : j > i}) < LiveZoneItems}

LeastSaved(whole, part, least, percent) ==
  /\ part < whole
  /\ whole - part >= least
  /\ 100 * (whole - part) >= percent * whole

validateCompression(text) ==
  /\ text.short.ok
  /\ LeastSaved(text.chars, text.short.chars, MinSavedChars, MinSavingsPercent)
  /\ \/ text.short.lossless
     \/ LeastSaved(text.tokens, text.short.tokens, MinSavedTokens, MinTokenSavingsPercent)

\* The places whose output analyzeRequest accepts for replacement.
Accepted(req) ==
  IF isEligibleRequest(req)
  THEN {i \in collectCandidates(req.input) : validateCompression(req.input[i].output)}
  ELSE {}

Replaced(req) == IF Mode = "on" THEN Accepted(req) ELSE {}

Compressed(text) == [kind |-> "short", of |-> text.name]

\* The input as it goes to the upstream.
applyToRawBody(req) ==
  [i \in DOMAIN req.input |->
     IF i \in Replaced(req)
     THEN [req.input[i] EXCEPT !.output = Compressed(@)]
     ELSE req.input[i]]

\* The names of the texts writeOriginals puts into the store.
Originals(req) == {req.input[i].output.name : i \in Replaced(req)}
=============================================================================
