----------------------------- MODULE SearchProbe -----------------------------
(***************************************************************************)
(* SearchClient::diagnose() of crates/search/src/lib.rs: two requests to   *)
(* Meilisearch, one after the other, whose responses come in chunks and    *)
(* are kept only up to a limit.                                            *)
(*                                                                         *)
(* The other end may answer anything, of any length, announced or not,     *)
(* break the connection or be silent.  Every request, from its connection  *)
(* to the last byte of its response, has one timeout.                      *)
(***************************************************************************)
EXTENDS Naturals

CONSTANTS
  Limit,      \* the largest body, MAX_DIAGNOSTIC_RESPONSE_BYTES
  Modulus,    \* 2^w for a usize of w bits
  MaxChunk,   \* the longest chunk
  Unannounced \* the length of a response that has no Content-Length

ASSUME SearchAssumption ==
  /\ Limit \in Nat /\ Modulus \in Nat /\ MaxChunk \in Nat
  /\ Limit < Modulus /\ MaxChunk < Modulus
ASSUME UnannouncedAssumption == Unannounced \notin Nat

VARIABLES
  request,    \* the request in progress: "none", "health" or "version"
  phase,      \* "idle", "sent" (no response yet) or "body"
  announced,  \* the announced length of its response
  body,       \* number of bytes kept of it
  sent,       \* history: number of bytes that the server is known to have sent or announced
  said,       \* history: what the server has said of itself in this probe
  search      \* the probe's result: "none", "ok", "failed", or "oversized"

searchVars == <<request, phase, announced, body, sent, said, search>>

SearchInit ==
  /\ request = "none"
  /\ phase = "idle"
  /\ announced = Unannounced
  /\ body = 0
  /\ sent = 0
  /\ said = {}
  /\ search = "none"

\* No probe has been made.
SearchReset ==
  /\ request' = "none"
  /\ phase' = "idle"
  /\ announced' = Unannounced
  /\ body' = 0
  /\ sent' = 0
  /\ said' = {}
  /\ search' = "none"

\* get_json() begins with an empty body.
Request(path) ==
  /\ request' = path
  /\ phase' = "sent"
  /\ announced' = Unannounced
  /\ body' = 0
  /\ sent' = 0

\* diagnose() ends.
SearchEnds(result) ==
  /\ request' = "none"
  /\ phase' = "idle"
  /\ announced' = Unannounced
  /\ body' = 0
  /\ search' = result

\* diagnose() begins.
Probe ==
  /\ Request("health")
  /\ said' = {}
  /\ search' = "none"

\* Mutant of Respond: an announced length is not looked at.
RespondUnread(success, length) ==
  /\ phase = "sent"
  /\ sent' = IF length = Unannounced THEN 0 ELSE length
  /\ UNCHANGED said
  /\ \/ ~success /\ SearchEnds("failed")
     \/ /\ success
        /\ phase' = "body"
        /\ announced' = length
        /\ UNCHANGED <<request, body, search>>

\* The head of a response: its status and its length.
Respond(success, length) ==
  /\ phase = "sent"
  /\ sent' = IF length = Unannounced THEN 0 ELSE length
  /\ UNCHANGED said
  /\ \/ ~success /\ SearchEnds("failed")
     \/ success /\ length # Unannounced /\ length > Limit /\ SearchEnds("oversized")
     \/ /\ success /\ length \in {Unannounced} \cup 0 .. Limit
        /\ phase' = "body"
        /\ announced' = length
        /\ UNCHANGED <<request, body, search>>

\* Mutants of Fits: the sum wraps around; the limit itself is refused.
FitsWrapped(n) == (body + n) % Modulus <= Limit
FitsBelow(n) == body + n < Modulus /\ body + n < Limit

\* append_bounded(): checked_add() and the limit.
Fits(n) == body + n < Modulus /\ body + n <= Limit

\* A chunk of n bytes; no response is longer than it has announced to be.
Chunk(n) ==
  /\ phase = "body"
  /\ announced # Unannounced => body + n <= announced
  /\ sent' = IF announced = Unannounced THEN sent + n ELSE sent
  /\ UNCHANGED said
  /\ \/ Fits(n) /\ body' = body + n /\ UNCHANGED <<request, phase, announced, search>>
     \/ ~Fits(n) /\ SearchEnds("oversized")

\* What a response can say: health the state "available" or another, version the
\* expected one or another, and either something that is not the JSON asked for.
Contents == {"available", "expected", "other"}

\* Mutant of Decode: a healthy server need not say its version.
DecodeHealth(content) ==
  /\ phase = "body"
  /\ announced # Unannounced => body = announced
  /\ said' = said \cup {content}
  /\ UNCHANGED sent
  /\ SearchEnds(IF content \in {"available", "expected"} THEN "ok" ELSE "failed")

\* The response is complete; an empty one is no JSON.
Decode(content) ==
  /\ phase = "body"
  /\ announced # Unannounced => body = announced
  /\ content # "other" => body > 0
  /\ \/ /\ request = "health" /\ content = "available"
        /\ Request("version")
        /\ said' = said \cup {content}
        /\ UNCHANGED search
     \/ /\ request = "version" /\ content = "expected"
        /\ said' = said \cup {content}
        /\ UNCHANGED sent
        /\ SearchEnds("ok")
     \/ /\ content = "other"
        /\ UNCHANGED <<said, sent>>
        /\ SearchEnds("failed")

\* The connection breaks, or cannot be made.
Break ==
  /\ phase # "idle"
  /\ UNCHANGED <<said, sent>>
  /\ SearchEnds("failed")

\* Mutant of TimesOut: the timeout is over with the first bytes.
TimesOutSilent ==
  /\ phase = "sent"
  /\ UNCHANGED <<said, sent>>
  /\ SearchEnds("failed")

\* The timeout of the request.
TimesOut ==
  /\ phase # "idle"
  /\ UNCHANGED <<said, sent>>
  /\ SearchEnds("failed")

SearchServer ==
  \/ \E success \in BOOLEAN, length \in (0 .. Limit + 1) \cup {Unannounced} : Respond(success, length)
  \/ \E n \in 0 .. MaxChunk : Chunk(n)
  \/ \E content \in Contents : Decode(content)
  \/ Break

-----------------------------------------------------------------------------
(* Correctness.                                                            *)

\* The values of the probe's state.  No response is read that announces more than the limit.
SearchTypeOK ==
  /\ request \in {"none", "health", "version"}
  /\ phase \in {"idle", "sent", "body"}
  /\ announced \in (0 .. Limit) \cup {Unannounced}
  /\ body \in Nat
  /\ sent \in Nat
  /\ said \in SUBSET Contents
  /\ search \in {"none", "ok", "failed", "oversized"}

\* However a response comes in pieces, no more of it is kept than the limit, and as
\* long as it is being read, all of it that was sent; its sum does not wrap around.
BodyIsBounded ==
  /\ body <= Limit
  /\ phase = "body" /\ announced = Unannounced => body = sent

\* A response is refused as too large only if it is: one of just the limit is read.
TooLargeIsTooLarge == search = "oversized" => sent > Limit

\* The limit is exact.
LimitHolds == BodyIsBounded /\ TooLargeIsTooLarge

\* A probe succeeds only if the server has said, in this probe, that it is available,
\* and then that its version is the expected one.
AvailableSaidSo == search = "ok" => {"available", "expected"} \subseteq said

=============================================================================
