------------------------------ MODULE Provider ------------------------------
(***************************************************************************)
(* OpenAIProvider of src/src/omo/provider.py: complete, and stream as      *)
(* collect_stream reads it.  A call waits for a connection of the pool,    *)
(* posts, reads the status and then the body in chunks or in lines; an     *)
(* explicit 429 is retried once.                                           *)
(*                                                                         *)
(* A size is a number of units.  A chunk has one; a line has as many as    *)
(* came before its end, and its "data:" none.  httpx (external) keeps the  *)
(* line that has not ended, and the parser sees it as a whole.  What an    *)
(* event says is reduced to what the parser makes of it: text, a delta     *)
(* without text, [DONE], or something it refuses.                          *)
(***************************************************************************)
EXTENDS Integers, Sequences

CONSTANTS
  Call,       \* calls of complete and collect_stream
  Streamed,   \* those of collect_stream
  MaxBytes,   \* MAX_RESPONSE_BYTES
  MaxText,    \* MAX_TEXT_BYTES
  MaxEvent,   \* MAX_EVENT_BYTES
  MaxLine     \* bound of the model: the longest line an upstream sends

ASSUME StreamedAssumption == Streamed \subseteq Call
ASSUME SizeAssumption ==
  MaxBytes \in Nat /\ MaxText \in Nat /\ MaxEvent \in Nat /\ MaxLine \in Nat

VARIABLES
  at,        \* idle, pool, posted, reading, backoff or done
  attempt,   \* the loop's attempt
  posted,    \* requests that have left
  billable,  \* those of them that were not rejected
  size,      \* body, or total_bytes: what has been read on this attempt
  held,      \* external: the line that aiter_lines has not seen the end of
  buffer,    \* event_data: the data lines of the event being read
  eventBytes,\* the bytes of those lines, joined
  textBytes, \* text_bytes: text of this attempt's events
  sawData,   \* saw_data
  parts,     \* what collect_stream has collected, or the text of complete
  seen,      \* attempts of collect_stream: the one of the last event
  outcome,   \* what the call returned or raised
  reported,  \* the attempts its result or error names
  served,    \* history: text the upstream has sent on this attempt
  whole      \* history: the upstream has ended its answer properly

lineVars == <<held, buffer, eventBytes, textBytes, sawData>>
bodyVars == <<size, lineVars, served, whole>>
vars == <<at, attempt, posted, billable, bodyVars, parts, seen, outcome, reported>>

Place == {"idle", "pool", "posted", "reading", "backoff", "done"}
DataLine == {"text", "delta", "[DONE]", "other"}
Error ==
  {"credentials_missing", "rate_limited", "status", "too_large", "event_too_large",
   "incomplete", "no_data", "empty", "invalid", "timeout", "transport"}
Outcome == {"none", "ok", "cancelled", "unhandled"} \cup Error

Init ==
  /\ at = [c \in Call |-> "idle"]
  /\ attempt = [c \in Call |-> 0]
  /\ posted = [c \in Call |-> 0] /\ billable = [c \in Call |-> 0]
  /\ size = [c \in Call |-> 0] /\ held = [c \in Call |-> 0]
  /\ buffer = [c \in Call |-> <<>>] /\ eventBytes = [c \in Call |-> 0]
  /\ textBytes = [c \in Call |-> 0] /\ sawData = [c \in Call |-> FALSE]
  /\ parts = [c \in Call |-> 0] /\ seen = [c \in Call |-> 0]
  /\ outcome = [c \in Call |-> "none"] /\ reported = [c \in Call |-> 0]
  /\ served = [c \in Call |-> 0] /\ whole = [c \in Call |-> FALSE]

Goto(c, place) == at' = [at EXCEPT ![c] = place]

End(c, kind, attempts) ==
  /\ Goto(c, "done")
  /\ outcome' = [outcome EXCEPT ![c] = kind]
  /\ reported' = [reported EXCEPT ![c] = attempts]

Raise(c, kind) == kind \in Error /\ End(c, kind, attempt[c])

-----------------------------------------------------------------------------
(* The two attempts *)

\* The head of the loop: what it reads is reset, what is collected is not.
Attempt(c, n) ==
  /\ Goto(c, "pool")
  /\ attempt' = [attempt EXCEPT ![c] = n]
  /\ size' = [size EXCEPT ![c] = 0] /\ held' = [held EXCEPT ![c] = 0]
  /\ buffer' = [buffer EXCEPT ![c] = <<>>] /\ eventBytes' = [eventBytes EXCEPT ![c] = 0]
  /\ textBytes' = [textBytes EXCEPT ![c] = 0] /\ sawData' = [sawData EXCEPT ![c] = FALSE]
  /\ served' = [served EXCEPT ![c] = 0] /\ whole' = [whole EXCEPT ![c] = FALSE]
  /\ UNCHANGED <<posted, billable, parts, seen, outcome, reported>>

Start(c) ==
  /\ at[c] = "idle"
  /\ \/ Attempt(c, 1)
     \/ /\ End(c, "credentials_missing", 0)
        /\ UNCHANGED <<attempt, posted, billable, bodyVars, parts, seen>>

\* A connection of the pool is free and the request leaves.
Post(c) ==
  /\ at[c] = "pool"
  /\ Goto(c, "posted")
  /\ posted' = [posted EXCEPT ![c] = @ + 1]
  /\ billable' = [billable EXCEPT ![c] = @ + 1]
  /\ UNCHANGED <<attempt, bodyVars, parts, seen, outcome, reported>>

\* The form of RateLimited that never gives up.
RateLimitedForever(c) ==
  /\ at[c] = "posted"
  /\ billable' = [billable EXCEPT ![c] = @ - 1]
  /\ Goto(c, "backoff")
  /\ UNCHANGED <<attempt, posted, bodyVars, parts, seen, outcome, reported>>

\* An explicit 429.
RateLimited(c) ==
  /\ at[c] = "posted"
  /\ billable' = [billable EXCEPT ![c] = @ - 1]
  /\ \/ attempt[c] = 2 /\ Raise(c, "rate_limited")
     \/ attempt[c] = 1 /\ Goto(c, "backoff") /\ UNCHANGED <<outcome, reported>>
  /\ UNCHANGED <<attempt, posted, bodyVars, parts, seen>>

\* The sleep is over: the second attempt.
Retry(c) == at[c] = "backoff" /\ Attempt(c, 2)

Status(c) ==
  /\ at[c] = "posted"
  /\ \/ Goto(c, "reading") /\ UNCHANGED <<outcome, reported>>
     \/ Raise(c, "status")
  /\ UNCHANGED <<attempt, posted, billable, bodyVars, parts, seen>>

\* The form of NetworkFails that tries again what timed out.
NetworkRetries(c) == at[c] \in {"pool", "posted", "reading"} /\ attempt[c] = 1 /\ Attempt(c, 2)

\* No connection in time, a timeout or an error of the transport.
NetworkFails(c) ==
  /\ at[c] \in {"pool", "posted", "reading"}
  /\ Raise(c, "timeout") \/ Raise(c, "transport")
  /\ UNCHANGED <<attempt, posted, billable, bodyVars, parts, seen>>

\* Cancelled at any await: nothing is sent again.
Cancel(c) ==
  /\ at[c] \notin {"idle", "done"}
  /\ End(c, "cancelled", 0)
  /\ UNCHANGED <<attempt, posted, billable, bodyVars, parts, seen>>

-----------------------------------------------------------------------------
(* complete *)

\* A chunk of the body, compared with the bound before it is stored.
Chunk(c) ==
  /\ at[c] = "reading" /\ c \notin Streamed
  /\ \/ size[c] + 1 > MaxBytes /\ Raise(c, "too_large") /\ UNCHANGED size
     \/ /\ size[c] + 1 <= MaxBytes /\ size' = [size EXCEPT ![c] = @ + 1]
        /\ UNCHANGED <<at, outcome, reported>>
  /\ UNCHANGED <<attempt, posted, billable, lineVars, served, whole, parts, seen>>

\* The body is complete: one message with a text that is not too long, or an
\* error.  An empty body is no JSON; a message that is no object raises
\* AttributeError, which is not among the exceptions that become a
\* ProviderError.
BodyEnds(c) ==
  /\ at[c] = "reading" /\ c \notin Streamed
  /\ whole' = [whole EXCEPT ![c] = TRUE]
  /\ \/ \E n \in 1..size[c] :
          /\ served' = [served EXCEPT ![c] = n]
          /\ \/ n > MaxText /\ Raise(c, "too_large") /\ UNCHANGED parts
             \/ n <= MaxText /\ End(c, "ok", attempt[c]) /\ parts' = [parts EXCEPT ![c] = n]
     \/ /\ Raise(c, "invalid") \/ (size[c] > 0 /\ End(c, "unhandled", 0))
        /\ UNCHANGED <<served, parts>>
  /\ UNCHANGED <<attempt, posted, billable, size, lineVars, seen>>

-----------------------------------------------------------------------------
(* stream and collect_stream *)

\* The generator returns: collect_stream refuses an answer without text.
Return(c) ==
  /\ whole' = [whole EXCEPT ![c] = TRUE]
  /\ \/ parts[c] = 0 /\ End(c, "empty", seen[c])
     \/ parts[c] > 0 /\ End(c, "ok", seen[c])
  /\ UNCHANGED <<sawData, textBytes, served, parts, seen>>

\* What the lines of an event say together: [DONE] stands alone, and a JSON
\* text may go over several lines.
Said(lines) == IF Len(lines) = 1 THEN {lines[1]} ELSE DataLine \ {"[DONE]"}

Yield(c, n) ==
  /\ sawData' = [sawData EXCEPT ![c] = TRUE]
  /\ textBytes' = [textBytes EXCEPT ![c] = @ + n]
  /\ served' = [served EXCEPT ![c] = @ + n]
  /\ UNCHANGED whole
  /\ \/ textBytes[c] + n > MaxText /\ Raise(c, "too_large") /\ UNCHANGED <<parts, seen>>
     \/ /\ textBytes[c] + n <= MaxText
        /\ parts' = [parts EXCEPT ![c] = @ + n] /\ seen' = [seen EXCEPT ![c] = attempt[c]]
        /\ UNCHANGED <<at, outcome, reported>>

\* The blank line that ends an event.
Event(c) ==
  /\ buffer[c] # <<>>
  /\ buffer' = [buffer EXCEPT ![c] = <<>>] /\ eventBytes' = [eventBytes EXCEPT ![c] = 0]
  /\ \/ /\ eventBytes[c] > MaxEvent /\ Raise(c, "event_too_large")
        /\ UNCHANGED <<sawData, textBytes, served, whole, parts, seen>>
     \/ /\ eventBytes[c] <= MaxEvent
        /\ \E what \in Said(buffer[c]) :
             \/ what = "[DONE]" /\ Return(c)
             \/ what = "text" /\ \E n \in 1..eventBytes[c] : Yield(c, n)
             \/ what = "delta" /\ Yield(c, 0)
             \/ /\ what = "other" /\ Raise(c, "invalid")
                /\ UNCHANGED <<sawData, textBytes, served, whole, parts, seen>>

\* A data line joins its event, after a newline unless it is the first.
DataArrives(c) ==
  /\ \E line \in DataLine : buffer' = [buffer EXCEPT ![c] = Append(@, line)]
  /\ eventBytes' = [eventBytes EXCEPT ![c] = (IF buffer[c] = <<>> THEN 0 ELSE @ + 1) + held[c]]
  /\ UNCHANGED <<at, textBytes, sawData, served, whole, parts, seen, outcome, reported>>

\* A blank line between events, or a field the parser has no use for.
Ignored(c) ==
  UNCHANGED <<at, buffer, eventBytes, textBytes, sawData, served, whole, parts, seen,
              outcome, reported>>

\* More of a line has come, and not its end: nothing is compared with a bound.
Piece(c) ==
  /\ at[c] = "reading" /\ c \in Streamed
  /\ held[c] < MaxLine /\ held' = [held EXCEPT ![c] = @ + 1]
  /\ UNCHANGED <<at, attempt, posted, billable, size, buffer, eventBytes, textBytes, sawData,
                 served, whole, parts, seen, outcome, reported>>

\* What a line adds to total_bytes, and the form that counts lines.
LineBytesUncounted(c) == 1
LineBytes(c) == held[c] + 1

\* A line has come to its end.
Line(c) ==
  /\ at[c] = "reading" /\ c \in Streamed
  /\ held' = [held EXCEPT ![c] = 0]
  /\ size' = [size EXCEPT ![c] = @ + LineBytes(c)]
  /\ \/ /\ size[c] + LineBytes(c) > MaxBytes /\ Raise(c, "too_large")
        /\ UNCHANGED <<buffer, eventBytes, textBytes, sawData, served, whole, parts, seen>>
     \/ /\ size[c] + LineBytes(c) <= MaxBytes
        /\ \/ held[c] = 0 /\ Event(c)
           \/ held[c] > 0 /\ DataArrives(c)
           \/ (held[c] > 0 \/ buffer[c] = <<>>) /\ Ignored(c)
  /\ UNCHANGED <<attempt, posted, billable>>

\* The form of StreamEnds that takes the end of the body for [DONE].
StreamEndsAnyway(c) ==
  /\ at[c] = "reading" /\ c \in Streamed
  /\ IF parts[c] > 0 THEN End(c, "ok", seen[c]) ELSE End(c, "empty", seen[c])
  /\ UNCHANGED <<attempt, posted, billable, bodyVars, parts, seen>>

\* The body ends, after a last line that may lack its newline: [DONE] may
\* lack its blank line, but not be missing.
StreamEnds(c) ==
  /\ at[c] = "reading" /\ c \in Streamed /\ held[c] = 0
  /\ \/ buffer[c] = <<"[DONE]">> /\ Return(c)
     \/ /\ buffer[c] # <<"[DONE]">>
        /\ Raise(c, IF sawData[c] THEN "incomplete" ELSE "no_data")
        /\ UNCHANGED <<textBytes, sawData, served, whole, parts, seen>>
  /\ UNCHANGED <<attempt, posted, billable, size, held, buffer, eventBytes>>

-----------------------------------------------------------------------------
Terminating == (\A c \in Call : at[c] = "done") /\ UNCHANGED vars

Step(c) ==
  \/ Start(c) \/ Post(c) \/ RateLimited(c) \/ Retry(c) \/ Status(c) \/ NetworkFails(c)
  \/ Cancel(c) \/ Chunk(c) \/ BodyEnds(c) \/ Piece(c) \/ Line(c) \/ StreamEnds(c)

Next == (\E c \in Call : Step(c)) \/ Terminating

Spec == Init /\ [][Next]_vars

-----------------------------------------------------------------------------
(* Properties *)

\* Every variable has its type.
TypeOK ==
  /\ at \in [Call -> Place]
  /\ attempt \in [Call -> 0..2]
  /\ posted \in [Call -> 0..2] /\ billable \in [Call -> 0..2]
  /\ size \in [Call -> 0..MaxBytes + MaxLine + 1] /\ held \in [Call -> 0..MaxLine]
  /\ buffer \in [Call -> Seq(DataLine)] /\ eventBytes \in [Call -> Nat]
  /\ textBytes \in [Call -> Nat] /\ sawData \in [Call -> BOOLEAN]
  /\ parts \in [Call -> Nat] /\ seen \in [Call -> 0..2]
  /\ outcome \in [Call -> Outcome] /\ reported \in [Call -> 0..2]
  /\ served \in [Call -> Nat] /\ whole \in [Call -> BOOLEAN]

\* A request that may have been billed is never sent again: of all the posts
\* of a call, retries included, at most one was not rejected.
NotReplayed == \A c \in Call : billable[c] <= 1

\* A result is the whole answer of one attempt: the upstream has ended it
\* with [DONE] or a complete body, nothing of it was dropped or taken from
\* another attempt, and the attempts it names are those that were made.
WholeAnswer ==
  \A c \in Call : outcome[c] = "ok" =>
    whole[c] /\ parts[c] = served[c] /\ parts[c] > 0 /\ reported[c] = posted[c]

\* What the parser itself keeps of an answer stays within its bounds: the event
\* being read and the text collected so far are together no more than
\* MAX_RESPONSE_BYTES, however the lines are cut and in how many events the
\* text comes, and the text is no more than MAX_TEXT_BYTES; so is the body of
\* complete.  It says nothing of held: the line that aiter_lines still waits
\* for is compared with no bound before it ends.
Bounded ==
  \A c \in Call :
    /\ eventBytes[c] + parts[c] <= MaxBytes /\ parts[c] <= MaxText
    /\ c \notin Streamed => size[c] <= MaxBytes

\* docs/API.md: provider codes distinguish a malformed response.  Every way a
\* call can fail has a code of its own.
FailuresNamed == \A c \in Call : outcome[c] # "unhandled"

\* How a call looks to the orchestrator.
Link(c) ==
  CASE at[c] = "idle" \/ (at[c] = "pool" /\ attempt[c] = 1) -> "idle"
    [] at[c] = "backoff" \/ (at[c] = "pool" /\ attempt[c] = 2) -> "rejected"
    [] at[c] \in {"posted", "reading"} -> "posted"
    [] OTHER -> IF outcome[c] = "ok" THEN "ok" ELSE "failed"

linkOf == [c \in Call |-> Link(c)]

Up == INSTANCE Upstream WITH link <- linkOf

\* complete and collect_stream keep the promise of Upstream.
KeepsPromise == Up!UpstreamSpec

-----------------------------------------------------------------------------
(* The inductive invariant *)

\* What was posted and what may be billed, by the place of the call; what was
\* collected is what this attempt has brought; and the bounds.
CallInv(c) ==
  /\ at[c] = "idle" => attempt[c] = 0 /\ posted[c] = 0
  /\ at[c] = "pool" => attempt[c] # 0 /\ posted[c] = attempt[c] - 1
  /\ at[c] \in {"posted", "reading"} =>
       attempt[c] # 0 /\ posted[c] = attempt[c] /\ billable[c] = 1
  /\ at[c] = "backoff" => attempt[c] = 1 /\ posted[c] = 1
  /\ at[c] \in {"idle", "pool", "backoff"} => billable[c] = 0
  /\ billable[c] <= 1
  /\ at[c] \in {"idle", "pool", "posted", "backoff"} => parts[c] = 0
  /\ at[c] # "done" =>
       parts[c] = served[c] /\ textBytes[c] = parts[c] /\ (parts[c] > 0 => seen[c] = attempt[c])
  /\ eventBytes[c] + parts[c] <= size[c] /\ eventBytes[c] + parts[c] <= MaxBytes
  /\ c \notin Streamed => eventBytes[c] = 0
  /\ at[c] # "done" \/ c \notin Streamed => size[c] <= MaxBytes
  /\ parts[c] <= MaxText
  /\ outcome[c] = "ok" =>
       /\ at[c] = "done" /\ whole[c] /\ parts[c] = served[c] /\ parts[c] > 0
       /\ reported[c] = posted[c]

IInv == \A c \in Call : CallInv(c)

=============================================================================
