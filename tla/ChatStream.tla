----------------------------- MODULE ChatStream -----------------------------
(***************************************************************************)
(* One inference of the lab, from the provider's stream to the bytes of    *)
(* the client: stream_upstream of observatory/upstream.py, Service.run of  *)
(* observatory/service.py and the three answers observatory/app.py makes   *)
(* of its events.  "run" passes every event on, "stream" is a streamed     *)
(* chat completion and "unary" one that is not.  The generator, its        *)
(* consumer and the response are one task: it waits for the provider, or   *)
(* is suspended at a yield while a frame is sent.                          *)
(***************************************************************************)
EXTENDS Integers, Sequences, FiniteSets

CONSTANTS
    Unknown,     \* None in a record of tokens
    MaxCount,    \* bound: the largest count a provider reports
    MaxPieces    \* bound: pieces of content in an answer

ASSUME ChatAssumption ==
    /\ {MaxCount, MaxPieces} \subseteq Nat
    /\ Unknown \notin Nat

VARIABLES
    chat,    \* the generator and its record
    frames,  \* what the client was sent
    kept     \* the record the store has, or Unknown

chatVars == <<chat, frames, kept>>

-----------------------------------------------------------------------------
(***************************************************************************)
(* The counts of a report.  -1 stands for every value that is no count: a  *)
(* negative number, a bool, a float, a string.                             *)
(***************************************************************************)
Reported == {Unknown} \cup -1 .. MaxCount

Report == [prompt : Reported, completion : Reported, cached : Reported, reasoning : Reported]

Nonnegative(value) == IF value \in Nat THEN value ELSE Unknown

Known(a, b) == a \in Nat /\ b \in Nat

Within(part, whole) == IF Known(part, whole) /\ part > whole THEN Unknown ELSE part

Remainder(whole, part) == IF Known(whole, part) THEN whole - part ELSE Unknown

Normalized(report) ==
    LET inputs    == Nonnegative(report.prompt)
        outputs   == Nonnegative(report.completion)
        cached    == Within(Nonnegative(report.cached), inputs)
        reasoning == Within(Nonnegative(report.reasoning), outputs)
    IN  [input          |-> inputs,
         output         |-> outputs,
         cached_input   |-> cached,
         uncached_input |-> Remainder(inputs, cached),
         reasoning      |-> reasoning,
         visible_output |-> Remainder(outputs, reasoning),
         total          |-> IF Known(inputs, outputs) THEN inputs + outputs ELSE Unknown]

NoTokens ==
    [input |-> Unknown, output |-> Unknown, cached_input |-> Unknown,
     uncached_input |-> Unknown, reasoning |-> Unknown, visible_output |-> Unknown,
     total |-> Unknown]

-----------------------------------------------------------------------------
(***************************************************************************)
(* The generator.  opening: the request to the provider is out; reading:   *)
(* at its next event; sending: suspended at a token; ending: the record is *)
(* final and what is left to send is in "owed".                            *)
(***************************************************************************)
Forms == {"run", "stream", "unary"}

Frames == {"start", "token", "result", "finish", "usage", "error", "done",
           "answer", "refused"}

Count  == Nat \cup {Unknown}
Tokens == [input : Count, output : Count, cached_input : Count, uncached_input : Count,
           reasoning : Count, visible_output : Count, total : Count]

Statuses == {"ok", "error", "cancelled"}

Record == [status : Statuses, tokens : Tokens]

ASSUME RecordAssumption == Unknown \notin Record

ChatTypeOK ==
    /\ chat \in [form : Forms, include_usage : BOOLEAN,
                 phase : {"idle", "opening", "reading", "sending", "ending", "over"},
                 pieces : 0 .. MaxPieces, saw_finish : BOOLEAN, tokens : Tokens,
                 status : Statuses \cup {"running"}, owed : Seq(Frames)]
    /\ frames \in Seq(Frames)
    /\ kept \in Record \cup {Unknown}

Ask(form, usage) ==
    /\ chat = [form |-> form, include_usage |-> usage, phase |-> "idle", pieces |-> 0,
               saw_finish |-> FALSE, tokens |-> NoTokens, status |-> "running",
               owed |-> <<>>]
    /\ frames = <<>>
    /\ kept = Unknown

ChatInit == \E form \in Forms, usage \in BOOLEAN : Ask(form, usage)

Chatting(phases) == chat.phase \in phases

\* The start event: only /api/run passes it on.
BeginChat ==
    /\ Chatting({"idle"})
    /\ chat' = [chat EXCEPT !.phase = "opening"]
    /\ frames' = IF chat.form = "run" THEN <<"start">> ELSE <<>>
    /\ UNCHANGED kept

Connected ==
    /\ Chatting({"opening"})
    /\ chat' = [chat EXCEPT !.phase = "reading"]
    /\ UNCHANGED <<frames, kept>>

\* One event of the provider may hold usage, a finish reason and content; they are
\* taken in this order and nothing runs in between, as when three events hold them.
HearUsage ==
    /\ Chatting({"reading"})
    /\ \E report \in Report : chat' = [chat EXCEPT !.tokens = Normalized(report)]
    /\ UNCHANGED <<frames, kept>>

HearFinish ==
    /\ Chatting({"reading"})
    /\ chat' = [chat EXCEPT !.saw_finish = TRUE]
    /\ UNCHANGED <<frames, kept>>

\* A handler that answers in one piece appends the content and reads on at once.
HearContent ==
    /\ Chatting({"reading"}) /\ chat.pieces < MaxPieces
    /\ chat' = [chat EXCEPT !.pieces = @ + 1,
                            !.phase = IF chat.form = "unary" THEN "reading" ELSE "sending"]
    /\ UNCHANGED <<frames, kept>>

TokenSent ==
    /\ Chatting({"sending"})
    /\ frames' = Append(frames, "token")
    /\ chat' = [chat EXCEPT !.phase = "reading"]
    /\ UNCHANGED kept

\* What the client still gets once the record is final.
Closing(status) ==
    CASE chat.form = "run"   -> <<"result">>
      [] chat.form = "unary" -> IF status = "ok" THEN <<"answer">> ELSE <<"refused">>
      [] OTHER -> IF status # "ok" THEN <<"error", "done">>
                  ELSE IF chat.include_usage THEN <<"finish", "usage", "done">>
                  ELSE <<"finish", "done">>

\* The finally of run.  When the save raises there is no result event, and nothing
\* follows what was sent; a unary answer becomes a server error.
Finally(status, owed) ==
    \/ /\ kept' = [status |-> status, tokens |-> chat.tokens]
       /\ chat' = [chat EXCEPT !.status = status, !.owed = owed,
                               !.phase = IF owed = <<>> THEN "over" ELSE "ending"]
    \/ /\ chat' = [chat EXCEPT !.status = status, !.phase = "over"]
       /\ UNCHANGED kept

\* Seeded fault: an end of the stream counts as the end of the answer.
UpstreamEndsAnyhow ==
    /\ Chatting({"reading"})
    /\ LET status == IF chat.pieces > 0 THEN "ok" ELSE "error"
       IN  Finally(status, Closing(status))
    /\ UNCHANGED frames

\* The stream is over, by [DONE] or by its end.
UpstreamEnds ==
    /\ Chatting({"reading"})
    /\ LET status == IF chat.saw_finish /\ chat.pieces > 0 THEN "ok" ELSE "error"
       IN  Finally(status, Closing(status))
    /\ UNCHANGED frames

\* A refused connection, a status of 400 and above, an error event, an event that does
\* not parse, or the 60 seconds over while the provider is awaited.
UpstreamFails ==
    /\ Chatting({"opening", "reading"})
    /\ Finally("error", Closing("error"))
    /\ UNCHANGED frames

\* The 60 seconds are over, or the client goes, while a token is sent: the exception
\* meets the task outside the generator, which is closed.
CutWhileSending ==
    /\ Chatting({"sending"})
    /\ Finally("cancelled", <<>>)
    /\ UNCHANGED frames

\* A client of a stream goes while the provider is awaited.
CutWhileWaiting ==
    /\ Chatting({"opening", "reading"}) /\ chat.form # "unary"
    /\ Finally("cancelled", <<>>)
    /\ UNCHANGED frames

SendOwed ==
    /\ Chatting({"ending"})
    /\ frames' = Append(frames, Head(chat.owed))
    /\ chat' = [chat EXCEPT !.owed = Tail(@),
                            !.phase = IF Len(chat.owed) = 1 THEN "over" ELSE "ending"]
    /\ UNCHANGED kept

\* The client goes during the last frames: the record is saved and stays as it is.
CutWhileEnding ==
    /\ Chatting({"ending"}) /\ chat.form # "unary"
    /\ chat' = [chat EXCEPT !.owed = <<>>, !.phase = "over"]
    /\ UNCHANGED <<frames, kept>>

ChatNext ==
    \/ BeginChat \/ Connected \/ HearUsage \/ HearFinish \/ HearContent \/ TokenSent
    \/ UpstreamEnds \/ UpstreamFails \/ CutWhileSending \/ CutWhileWaiting
    \/ SendOwed \/ CutWhileEnding

ChatSpec == ChatInit /\ [][ChatNext]_chatVars

-----------------------------------------------------------------------------
(***************************************************************************)
(* What a client may conclude from what it was sent.                       *)
(***************************************************************************)
Told(frame) == \E i \in DOMAIN frames : frames[i] = frame

TokensTold == {i \in DOMAIN frames : frames[i] = "token"}

\* An answer that looks finished is the one the record calls "ok"; an answer on record
\* as "ok" was finished by the provider, and every piece of it was passed on.
FinishEarned ==
    /\ Told("finish") \/ Told("answer") => kept # Unknown /\ kept.status = "ok"
    /\ kept # Unknown /\ kept.status = "ok" =>
          /\ chat.saw_finish /\ chat.pieces > 0
          /\ chat.form # "unary" => Cardinality(TokensTold) = chat.pieces

\* A stream that is closed with [DONE] says before it how the answer went, once, and
\* says nothing after it.
ClosedProperly ==
    /\ ~(Told("finish") /\ Told("error"))
    /\ Told("done") => Told("finish") \/ Told("error")
    /\ \A i, j \in DOMAIN frames :
          frames[i] \in Frames \ {"start", "token"} /\ i < j =>
              frames[i] # "done" /\ frames[j] \in {"usage", "done"}

\* Cached and reasoning tokens are parts of the input and the output, and no sum is
\* given without its parts.
CountsSound(tokens) ==
    /\ tokens.uncached_input \in Nat =>
          Known(tokens.input, tokens.cached_input)
          /\ tokens.uncached_input + tokens.cached_input = tokens.input
    /\ tokens.visible_output \in Nat =>
          Known(tokens.output, tokens.reasoning)
          /\ tokens.visible_output + tokens.reasoning = tokens.output
    /\ tokens.total \in Nat =>
          Known(tokens.input, tokens.output) /\ tokens.total = tokens.input + tokens.output

\* What the provider ends, reports and leaves out, the 60 seconds, clients that go and
\* saves that raise: no client takes a broken answer for a finished one, and the
\* counts of a record hold together (tests/test_lab.py, "no double count").
ChatTruthful ==
    ChatTypeOK /\ FinishEarned /\ ClosedProperly /\ CountsSound(chat.tokens)
=============================================================================
