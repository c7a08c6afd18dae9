----------------------------- MODULE FallbackChain -----------------------------
(* One chain of model providers and the health registry that benches them.    *)
(* A call walks the chain (tryWithFallback): it skips members on a cooldown,  *)
(* probes one whose cooldown has run out, asks the next when one fails, and   *)
(* ends with an answer or an error. Calls run at the same time and share the  *)
(* registry, which is also on disk and outlives the process.                  *)
(*                                                                            *)
(* How long a bench still lasts is a class: 0 over, 1 within the time a call  *)
(* waits for it (30 s), 2 minutes, 3 hours.                                   *)
EXTENDS Naturals, FiniteSets

CONSTANTS
  ChainLength,        \* members, asked in the order 1, 2, ...
  Calls,              \* calls, each made once
  DegradedThreshold,  \* failures in a row that degrade a member
  DownThreshold,      \* failures in a row that bench it as down
  Signalled,          \* bound of the model: the calls that may be cancelled or given up
  MaxFails            \* bound of the model: a member with so many failures has no more

ASSUME ChainAssumption ==
  /\ ChainLength \in Nat \ {0}
  /\ DegradedThreshold \in Nat \ {0}
  /\ DownThreshold \in Nat /\ DegradedThreshold <= DownThreshold
  /\ Signalled \subseteq Calls
  /\ MaxFails \in Nat

Members == 1 .. ChainLength

VARIABLES
  entry,    \* [Members -> health record], the registry
  onDisk,    \* the registry's copy on disk
  probing,  \* members with a recovery probe in flight
  call      \* [Calls -> call record]

chainVars == <<entry, onDisk, probing, call>>

Health == [status : {"healthy", "degraded", "down"}, fails : Nat, left : 0 .. 3]
Sound == [status |-> "healthy", fails |-> 0, left |-> 0]

\* What an attempt can fail of: server overload or throttling, a spent quota, a
\* bill unpaid, a refused key, a request nobody takes, a model not served, else.
FailKinds == {"overload", "quota", "billing", "credential", "request", "model", "other"}

\* What it has streamed to the caller by then. Nothing, and an error that reads
\* like an abort of a reasoning model, is a case of its own.
Delivered == {"nothing", "aborted", "blank", "text"}

\* What a call record holds: where it is; whether the member is asked for a
\* second time and why; how many attempts have delivered text; whether tokens
\* were spent on an answer thrown away (owes), and counted as such by the code
\* (lost); cancelled from outside; given up by the caller's stall watchdog; and
\* how it ended, with or without those tokens.
Unmade == [pc |-> "idle", at |-> 0, again |-> "no", voices |-> 0, owes |-> FALSE, lost |-> FALSE,
         cancelled |-> FALSE, stalled |-> FALSE, out |-> "none", carried |-> FALSE]

Outcomes == {"answered", "exhausted", "refused", "stalled", "cancelled", "cut",
             "midstream", "quota", "timedout", "gone"}

---------------------------------------------------------------------------
\* The registry: one record method each, from a health record to the next.

\* Mutant of Hold: the last failure sets the bench.
Hold_Never(h, e) == e

Hold(h, e) ==
  IF h.status = "down" /\ h.left > e.left
  THEN [e EXCEPT !.status = "down", !.left = h.left] ELSE e

Down(h, class) == Hold(h, [status |-> "down", fails |-> h.fails + 1, left |-> class])

FailureRecorded(h) ==
  LET n == h.fails + 1 IN
  CASE n >= DownThreshold -> Down(h, 2)
    [] n >= DegradedThreshold /\ n < DownThreshold ->
         Hold(h, [status |-> "degraded", fails |-> n, left |-> 1])
    [] OTHER -> Hold(h, [status |-> "healthy", fails |-> n, left |-> 0])

Overloaded(h) == Down(h, IF ChainLength = 1 THEN 1 ELSE 2)

Walled(h, class) ==
  [status |-> "down", fails |-> h.fails + 1, left |-> IF h.left > class THEN h.left ELSE class]

CredentialRejected(h) == Down(h, 3)

\* recordClassifiedFailure.
Classified(h, kind) ==
  CASE kind = "overload" -> Overloaded(h)
    [] kind = "quota" -> Walled(h, 3)
    [] kind = "billing" -> Walled(h, IF ChainLength = 1 THEN 2 ELSE 3)
    [] kind = "model" -> h
    [] OTHER -> FailureRecorded(h)

\* A failed attempt with a refused key is recorded twice, but not after a broken
\* stream; a failed probe once.
AttemptCharge(h, kind, midStream) ==
  IF kind = "credential" /\ ~midStream
  THEN CredentialRejected(FailureRecorded(h)) ELSE Classified(h, kind)
ProbeCharge(h, kind) ==
  IF kind = "credential" THEN CredentialRejected(h) ELSE Classified(h, kind)

Answered(h) == IF h.fails = 0 THEN h ELSE Sound
ProbeAnswered(h) ==
  IF h.fails = 0 THEN h
  ELSE [status |-> "degraded", fails |-> IF h.fails > 1 THEN h.fails - 1 ELSE 1, left |-> 0]

\* setEntry: the whole registry is written when a status or an expiry changes.
Record(m, h) ==
  /\ entry' = [entry EXCEPT ![m] = h]
  /\ onDisk' = IF h.status = entry[m].status /\ h.left = entry[m].left THEN onDisk ELSE entry'
Unrecorded == UNCHANGED <<entry, onDisk>>

Available(e, m) == e[m].left = 0
Recovering(e, m) == e[m].status # "healthy" /\ e[m].left = 0
AvailableAfter(e, m) == {k \in m + 1 .. ChainLength : Available(e, k)}

---------------------------------------------------------------------------
\* How a call ends: attachLost and withLost put the counted tokens on it, a
\* bare throw does not. What only mattered on the way is forgotten.
CallEndsBare(r, how) ==
  [Unmade EXCEPT !.pc = "done", !.out = how, !.voices = r.voices, !.owes = r.owes]
CallEnds(r, how) == [CallEndsBare(r, how) EXCEPT !.carried = r.lost]

\* The loop of tryWithFallback from member m on, with registry e.
GoTo(r, m, e) ==
  LET open == {k \in m .. ChainLength : Available(e, k)}
      next == CHOOSE k \in open : \A j \in open : k <= j
      given == m <= ChainLength /\ r.stalled
  IN CASE given -> CallEnds(r, "stalled")
       [] ~given /\ open = {} -> CallEnds(r, "exhausted")
       [] OTHER -> [r EXCEPT !.at = next, !.again = "no",
                             !.pc = IF Recovering(e, next) THEN "probe" ELSE "attempt"]

\* A call that comes to a recovering member starts its probe or joins it.
Moves(c, r) ==
  /\ call' = [call EXCEPT ![c] = r]
  /\ probing' = IF r.pc = "probe" THEN probing \cup {r.at} ELSE probing

\* What a failed attempt does after the registry has heard of it (now e): the
\* error handling of the loop, with the call record r. With nobody left a spent
\* quota, and a reasoning model that is the only member, have bare errors.
AfterFailure(r, kind, abortLike, e) ==
  LET remaining == AvailableAfter(e, r.at) IN
  CASE kind = "credential" -> GoTo(r, r.at + 1, e)
    [] kind = "request" -> CallEnds(r, "refused")
    [] kind \notin {"credential", "request"} /\ remaining = {} ->
         CASE kind = "quota" -> CallEndsBare(r, "quota")
           [] kind # "quota" /\ abortLike /\ ChainLength = 1 -> CallEndsBare(r, "timedout")
           [] OTHER -> CallEnds(r, "exhausted")
    [] OTHER -> IF r.stalled THEN CallEnds(r, "stalled") ELSE GoTo(r, r.at + 1, e)

\* An attempt of call c fails with an error of this kind, after this much was
\* delivered; r is the call with what the failure has added to it.
AttemptThrows(c, r, kind, delivered) ==
  LET midStream == delivered \in {"blank", "text"} IN
  IF r.cancelled
  THEN Unrecorded /\ Moves(c, CallEnds(r, "cancelled"))
  ELSE /\ entry[r.at].fails < MaxFails
       /\ Record(r.at, AttemptCharge(entry[r.at], kind, midStream))
       /\ Moves(c, IF midStream THEN CallEndsBare(r, "midstream")
                   ELSE AfterFailure(r, kind, delivered = "aborted", entry'))

---------------------------------------------------------------------------
ChainInit ==
  /\ entry \in [Members -> {Sound} \cup
       [status : {"degraded"}, fails : {DegradedThreshold}, left : {0, 1}] \cup
       [status : {"down"}, fails : {DownThreshold}, left : {2, 3}]]
  /\ onDisk = entry
  /\ probing = {}
  /\ call = [c \in Calls |-> Unmade]

Trying(c) == call[c].pc = "attempt"
InFlight(c) == call[c].pc \notin {"idle", "done"}

\* When everyone is benched and the first is back soon, the call waits for it.
CallStarts(c) ==
  /\ call[c].pc = "idle"
  /\ Moves(c, IF /\ \A m \in Members : ~Available(entry, m)
                 /\ \E m \in Members : entry[m].left = 1
              THEN [call[c] EXCEPT !.pc = "wait"]
              ELSE GoTo(call[c], 1, entry))
  /\ Unrecorded

\* The timer is set for the bench it saw: there may be another by now.
RecoveryWaitEnds(c) ==
  /\ call[c].pc = "wait"
  /\ Moves(c, GoTo(call[c], 1, entry))
  /\ Unrecorded

\* What an attempt streams to the caller before it ends (nothing, blank chunks,
\* text) is read when it ends only, so it is chosen there.
AttemptAnswers(c) ==
  /\ Trying(c)
  /\ Record(call[c].at, Answered(entry[call[c].at]))
  /\ Moves(c, CallEnds([call[c] EXCEPT !.voices = @ + 1], "answered"))

\* An answer with neither text nor tool calls. With a sibling to ask it is a
\* failure; without one the member is asked again after a pause, once.
AttemptEmpty(c) ==
  LET r == [call[c] EXCEPT !.owes = TRUE]
      counted == [r EXCEPT !.lost = TRUE]
  IN /\ Trying(c)
     /\ IF r.again = "empty" \/ AvailableAfter(entry, r.at) # {}
        THEN AttemptThrows(c, counted, "other", "nothing")
        ELSE /\ Unrecorded
             /\ Moves(c, IF r.cancelled THEN CallEnds(r, "cut")
                         ELSE [r EXCEPT !.pc = "pause", !.again = "empty"])

\* No first response within the budget. The same, for a silence.
AttemptSilent(c) ==
  LET r == call[c] IN
  /\ Trying(c)
  /\ IF r.again = "no" /\ ~r.cancelled /\ AvailableAfter(entry, r.at) = {}
     THEN Unrecorded /\ Moves(c, [r EXCEPT !.pc = "pause", !.again = "stall"])
     ELSE AttemptThrows(c, r, "other", "nothing")

AttemptFails(c, kind, delivered) ==
  /\ Trying(c)
  /\ AttemptThrows(c, [call[c] EXCEPT !.voices = IF delivered = "text" THEN @ + 1 ELSE @],
               kind, delivered)

\* Mutant of PauseEnds: the tokens of the empty answer are left to the second attempt.
PauseEnds_Uncounted(c) ==
  /\ call[c].pc = "pause"
  /\ Moves(c, [call[c] EXCEPT !.pc = "attempt"])
  /\ Unrecorded

\* The tokens of an empty answer are counted here, before the second attempt.
PauseEnds(c) ==
  /\ call[c].pc = "pause"
  /\ Moves(c, [call[c] EXCEPT !.pc = "attempt", !.lost = @ \/ call[c].again = "empty"])
  /\ Unrecorded

\* The external signal. It ends every wait of the call; an attempt hears it
\* through its provider, and ends as a failure or an answer of its own.
CallCancelled(c) ==
  LET r == [call[c] EXCEPT !.cancelled = TRUE] IN
  /\ c \in Signalled /\ InFlight(c) /\ ~call[c].cancelled
  /\ call' = [call EXCEPT ![c] =
       CASE r.pc = "attempt" -> r
         [] r.pc = "pause" -> CallEnds(r, IF r.again = "stall" THEN "cancelled" ELSE "cut")
         [] OTHER -> CallEndsBare(r, "cut")]
  /\ Unrecorded /\ UNCHANGED probing

\* The caller's own signal: no wait hears it.
CallerGivesUp(c) ==
  /\ c \in Signalled /\ InFlight(c) /\ ~call[c].stalled
  /\ call' = [call EXCEPT ![c].stalled = TRUE]
  /\ Unrecorded /\ UNCHANGED probing

\* A probe answers or fails, whoever still waits for it; they all go on.
ProbeEnds(m, verdict) ==
  LET waiting == {c \in Calls : call[c].pc = "probe" /\ call[c].at = m} IN
  /\ m \in probing /\ (verdict = "ok" \/ entry[m].fails < MaxFails)
  /\ Record(m, IF verdict = "ok" THEN ProbeAnswered(entry[m]) ELSE ProbeCharge(entry[m], verdict))
  /\ call' = [c \in Calls |->
       IF c \notin waiting THEN call[c]
       ELSE IF verdict = "ok" THEN [call[c] EXCEPT !.pc = "attempt"]
       ELSE GoTo(call[c], m + 1, entry')]
  /\ probing' = (probing \ {m}) \cup {call'[c].at : c \in {d \in Calls : call'[d].pc = "probe"}}

\* Time passes for a bench (as long as there is a call to see it).
CoolsDown(m) ==
  /\ entry[m].left > 0 /\ \E c \in Calls : call[c].pc # "done"
  /\ entry' = [entry EXCEPT ![m].left = @ - 1]
  /\ onDisk' = [onDisk EXCEPT ![m].left = IF @ > 0 THEN @ - 1 ELSE 0]
  /\ UNCHANGED <<probing, call>>

\* The process is killed and the next one loads the file.
ChainRestart ==
  /\ \E c \in Calls : InFlight(c)
  /\ entry' = onDisk
  /\ probing' = {}
  /\ call' = [c \in Calls |-> IF InFlight(c) THEN CallEndsBare(call[c], "gone") ELSE call[c]]
  /\ UNCHANGED onDisk

ChainNext ==
  \/ \E c \in Calls : CallStarts(c) \/ RecoveryWaitEnds(c) \/ AttemptAnswers(c) \/ AttemptEmpty(c)
       \/ AttemptSilent(c) \/ PauseEnds(c) \/ CallCancelled(c) \/ CallerGivesUp(c)
  \/ \E c \in Calls, kind \in FailKinds, d \in Delivered : AttemptFails(c, kind, d)
  \/ \E m \in Members, v \in FailKinds \cup {"ok"} : ProbeEnds(m, v)
  \/ \E m \in Members : CoolsDown(m)
  \/ ChainRestart

ChainSpec == ChainInit /\ [][ChainNext]_chainVars

---------------------------------------------------------------------------
ChainTypeOK ==
  /\ entry \in [Members -> Health] /\ onDisk \in [Members -> Health]
  /\ probing \subseteq Members
  /\ \A c \in Calls :
       /\ call[c].pc \in {"idle", "wait", "probe", "attempt", "pause", "done"}
       /\ call[c].at \in 0 .. ChainLength
       /\ call[c].again \in {"no", "stall", "empty"}
       /\ call[c].voices \in Nat
       /\ call[c].out \in Outcomes \cup {"none"}
       /\ call[c].pc = "probe" => call[c].at \in probing

\* What reaches the caller adds up, whatever the members do: the text of one
\* attempt at most (a stream that broke is not continued by a sibling), and the
\* tokens of every answer thrown away ride on the answer or the error that ends
\* the call. The code's exceptions are ends of their own: a broken stream, a
\* quota with nobody left, a reasoning model without a sibling whose request was
\* aborted, and a call cut off while it waits.
CallAccounted ==
  \A c \in Calls :
    /\ call[c].voices <= 1
    /\ call[c].out \in {"answered", "exhausted", "refused", "stalled", "cancelled"} /\ call[c].owes
         => call[c].carried

\* A bench becomes shorter by time, by an answer of the member, or by a probe of
\* it: not by a later and milder failure, and not by a restart.
BenchHolds ==
  \A m \in Members : entry'[m].left < entry[m].left =>
    \/ UNCHANGED call /\ entry' = [entry EXCEPT ![m].left = @ - 1]
    \/ \E c \in Calls : Trying(c) /\ call[c].at = m /\ call'[c].out = "answered"
    \/ m \in probing \ probing' /\ entry'[m].status = "degraded"

\* A member is charged with a probe that failed, or with an attempt of its own
\* that nobody cancelled; a restart may bring an older count back from disk.
ChargeEarned ==
  \A m \in Members : entry'[m].fails > entry[m].fails =>
    \/ m \in probing \ probing'
    \/ entry' = onDisk /\ \E c \in Calls : call[c].out = "none" /\ call'[c].out = "gone"
    \/ \E c \in Calls : Trying(c) /\ ~call[c].cancelled /\ call[c].at = m /\ call'[c] # call[c]

\* A call whose caller has given up is not handed from one member to the next:
\* each would be charged with a failure of its own.
NotHandedOn ==
  \A c \in Calls : call[c].stalled => call'[c].at \in {call[c].at, 0}

\* The health of a member is its own doing, over concurrent calls, cancelled
\* and abandoned ones, and restarts.
HealthEarned == [][BenchHolds /\ ChargeEarned /\ NotHandedOn]_chainVars

=============================================================================
