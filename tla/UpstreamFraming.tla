-------------------------- MODULE UpstreamFraming --------------------------
(***************************************************************************)
(* The two readers of a provider's event stream: sse_json                  *)
(* (observatory/upstream.py), which the lab reads lines with, and          *)
(* bounded_events (observatory/assistant.py), which the assistant reads    *)
(* bytes with as they arrive, under two limits.  The bytes of a line       *)
(* before its end are one symbol; a chunk may end anywhere else, between a *)
(* CR and its LF too, and so may the stream.                               *)
(***************************************************************************)
EXTENDS Selection, SequencesExt

CONSTANTS
    MaxLines,    \* bound: lines of a stream
    MaxChunk,    \* bound: symbols of a chunk
    MaxTotal,    \* 2 MiB in the code
    MaxBuffer    \* 65536 in the code

ASSUME FramingAssumption ==
    /\ {MaxLines, MaxChunk, MaxTotal, MaxBuffer} \subseteq Nat
    /\ MaxChunk > 0

VARIABLES
    lines,    \* the lines that arrive; the end of the last one may be missing
    missing,  \* symbols that are missing there
    wire,     \* their bytes
    reader,   \* who reads: "lab" or "assistant"
    at,       \* symbols read
    held,     \* buffer of bounded_events, data of sse_json
    events,   \* what was yielded: of each event, its data
    outcome   \* "reading", "ended", "raised": ValueError, or "refused": a limit

framingVars == <<lines, missing, wire, reader, at, held, events, outcome>>

-----------------------------------------------------------------------------
(***************************************************************************)
(* A stream.  "one" and "two" are data lines with a complete value,        *)
(* "[DONE]" the data line that closes a stream, ":" a comment or another   *)
(* field, "part" a data line cut in its middle, "blank" a line of no       *)
(* bytes but its end.                                                      *)
(***************************************************************************)
Contents == {"one", "two", "[DONE]", ":", "blank"}
Endings  == {<<"LF">>, <<"CR", "LF">>}

IsData(symbol) == symbol \in {"one", "two", "[DONE]", "part"}

DataOf(symbols) == RowsAt(symbols, {i \in DOMAIN symbols : IsData(symbols[i])})

Written(contents, ending) ==
    FlattenSeq([i \in DOMAIN contents |->
                   (IF contents[i] = "blank" THEN <<>> ELSE <<contents[i]>>) \o ending])

Whole == UNION {[1 .. n -> Contents] : n \in 0 .. MaxLines}

Arriving(ls, ending, cut, who) ==
    /\ lines = ls
    /\ missing = cut
    /\ wire = SubSeq(Written(ls, ending), 1, Len(Written(ls, ending)) - cut)
    /\ reader = who
    /\ at = 0
    /\ held = <<>>
    /\ events = <<>>
    /\ outcome = "reading"

\* The stream is whole, or the end of its last line is missing in part or altogether.
FramingInit ==
    \E who \in {"lab", "assistant"}, ls \in Whole, ending \in Endings :
        \/ Arriving(ls, ending, 0, who)
        \/ \E cut \in 1 .. Len(ending) : ls # <<>> /\ Arriving(ls, ending, cut, who)
        \/ Arriving(Append(ls, "part"), ending, Len(ending), who)

Reading(who) == reader = who /\ outcome = "reading"

\* One line of data is a value; a second one, or a [DONE] among them, is not.
Parses(data) == data \in {<<"one">>, <<"two">>}

\* What a block makes of the reader: [DONE] alone ends the stream, data that does not
\* parse raises.
Dispatch(data) ==
    /\ outcome' = IF data = <<"[DONE]">> THEN "ended"
                  ELSE IF Parses(data) THEN "reading" ELSE "raised"
    /\ events' = IF Parses(data) THEN Append(events, data) ELSE events

-----------------------------------------------------------------------------
(***************************************************************************)
(* bounded_events.                                                         *)
(***************************************************************************)
\* The first place of a separator in the buffer, or 0.
Found(separator) ==
    LET places == {i \in DOMAIN held : IsPrefix(separator, SubSeq(held, i, Len(held)))}
    IN  IF places = {} THEN 0 ELSE CHOOSE i \in places : \A j \in places : i <= j

\* Place and width of the end of the first block.
BlockEnd ==
    LET crlf == Found(<<"CR", "LF", "CR", "LF">>)
        lf   == Found(<<"LF", "LF">>)
    IN  IF crlf > 0 /\ (lf = 0 \/ crlf < lf) THEN <<crlf, 4>> ELSE <<lf, 2>>

HasBlock == BlockEnd[1] > 0

Chunk ==
    /\ Reading("assistant") /\ ~HasBlock
    /\ \E n \in 1 .. MaxChunk :
          /\ at + n <= Len(wire)
          /\ at' = at + n
          /\ held' = held \o SubSeq(wire, at + 1, at + n)
    /\ outcome' = IF at' > MaxTotal \/ Len(held') > MaxBuffer THEN "refused" ELSE outcome
    /\ UNCHANGED <<lines, missing, wire, reader, events>>

\* Seeded fault: the width of the end of a CRLF block is taken off an LF block.
TakeBlockWide ==
    /\ Reading("assistant") /\ HasBlock
    /\ LET data == DataOf(SubSeq(held, 1, BlockEnd[1] - 1))
       IN  IF data = <<>> THEN UNCHANGED <<events, outcome>> ELSE Dispatch(data)
    /\ held' = SubSeq(held, BlockEnd[1] + 4, Len(held))
    /\ UNCHANGED <<lines, missing, wire, reader, at>>

TakeBlock ==
    /\ Reading("assistant") /\ HasBlock
    /\ LET data == DataOf(SubSeq(held, 1, BlockEnd[1] - 1))
       IN  IF data = <<>> THEN UNCHANGED <<events, outcome>> ELSE Dispatch(data)
    /\ held' = SubSeq(held, BlockEnd[1] + BlockEnd[2], Len(held))
    /\ UNCHANGED <<lines, missing, wire, reader, at>>

\* The bytes are over.  strip() leaves nothing of a buffer of line ends.
EndOfBytes ==
    /\ Reading("assistant") /\ ~HasBlock /\ at = Len(wire)
    /\ outcome' = IF ToSet(held) \subseteq {"CR", "LF"} THEN "ended" ELSE "raised"
    /\ UNCHANGED <<lines, missing, wire, reader, at, held, events>>

-----------------------------------------------------------------------------
(***************************************************************************)
(* sse_json.  The HTTP client hands it lines, however the bytes arrived: a *)
(* CR, an LF, both in this order and the end of the stream end a line.     *)
(***************************************************************************)
IsBreak(symbol) == symbol \in {"CR", "LF"}

NextLine ==
    LET content == IF IsBreak(wire[at + 1]) THEN "blank" ELSE wire[at + 1]
        after   == at + (IF content = "blank" THEN 0 ELSE 1)
        width   == IF after + 2 <= Len(wire) /\ wire[after + 1] = "CR" /\ wire[after + 2] = "LF"
                   THEN 2 ELSE IF after < Len(wire) THEN 1 ELSE 0
    IN  [content |-> content, next |-> after + width]

Line ==
    /\ Reading("lab") /\ at < Len(wire)
    /\ at' = NextLine.next
    /\ IF NextLine.content = "blank" /\ held # <<>>
       THEN Dispatch(held) /\ held' = <<>>
       ELSE /\ held' = IF IsData(NextLine.content) THEN Append(held, NextLine.content) ELSE held
            /\ UNCHANGED <<events, outcome>>
    /\ UNCHANGED <<lines, missing, wire, reader>>

\* Data without a blank line after it is dispatched at the end of the stream.
EndOfLines ==
    /\ Reading("lab") /\ at = Len(wire)
    /\ outcome' = IF held \in {<<>>, <<"[DONE]">>} \/ Parses(held) THEN "ended" ELSE "raised"
    /\ events' = IF Parses(held) THEN Append(events, held) ELSE events
    /\ UNCHANGED <<lines, missing, wire, reader, at, held>>

FramingNext == Chunk \/ TakeBlock \/ EndOfBytes \/ Line \/ EndOfLines

FramingSpec == FramingInit /\ [][FramingNext]_framingVars

-----------------------------------------------------------------------------
(***************************************************************************)
(* What a stream says, read as lines: the data of each run of lines that a *)
(* blank line closes, up to the first that is no event.                    *)
(***************************************************************************)
PriorBlank(ls, i) ==
    LET blanks == {j \in 1 .. i - 1 : ls[j] = "blank"}
    IN  IF blanks = {} THEN 0 ELSE CHOOSE j \in blanks : \A k \in blanks : k <= j

DataBefore(ls, i) == {j \in PriorBlank(ls, i) + 1 .. i - 1 : IsData(ls[j])}

Closers(ls) == {i \in DOMAIN ls : ls[i] = "blank" /\ DataBefore(ls, i) # {}}

Blocks(ls) ==
    [n \in 1 .. Cardinality(Closers(ls)) |->
        RowsAt(ls, DataBefore(ls, Nth(Closers(ls), n)))]

\* The lines each reader can know of: the assistant closes a block when the end of the
\* blank line is complete, the lab at the end of the stream too.
Closed ==
    IF reader = "lab" THEN Append(lines, "blank")
    ELSE IF missing > 0 THEN SubSeq(lines, 1, Len(lines) - 1)
    ELSE lines

Events(ls) ==
    LET ends == {i \in DOMAIN Blocks(ls) : ~Parses(Blocks(ls)[i])}
    IN  IF ends = {} THEN Blocks(ls)
        ELSE SubSeq(Blocks(ls), 1, (CHOOSE i \in ends : \A j \in ends : i <= j) - 1)

\* The block that stops the reading, or nothing.
Stop(ls) ==
    LET n == Len(Events(ls)) + 1
    IN  IF n \in DOMAIN Blocks(ls) THEN Blocks(ls)[n] ELSE <<>>

\* A line that is not blank has no blank line after it.
Open == \E i \in DOMAIN lines :
           lines[i] # "blank" /\ \A j \in i + 1 .. Len(lines) : lines[j] # "blank" \/ (j = Len(lines) /\ missing > 0)

Verdict ==
    IF Stop(Closed) = <<>> THEN IF reader = "assistant" /\ Open THEN "raised" ELSE "ended"
    ELSE IF Stop(Closed) = <<"[DONE]">> THEN "ended" ELSE "raised"

\* However a stream is cut into chunks, and wherever it breaks off, a reader yields the
\* events of its lines in order and no other, and at the end all of them: it ends, or
\* raises, for what the stream says and never for how it arrived.  Both readers agree
\* on a stream that is complete.
FramingExact ==
    /\ outcome \in {"reading", "ended", "raised", "refused"}
    /\ IsPrefix(events, Events(Closed))
    /\ outcome \in {"ended", "raised"} => events = Events(Closed) /\ outcome = Verdict
=============================================================================
