----------------------------- MODULE EventStream -----------------------------
(***************************************************************************)
(* TelemetrySSEParser (local_codex/telemetry.py), which watches the stream  *)
(* of Ollama for the dashboard: feed gets the bytes in chunks of any size,  *)
(* finish comes when the stream has ended.                                  *)
(***************************************************************************)
EXTENDS Integers, SequencesExt

CONSTANT
  MaxBlocks  \* bounds the events of a stream

ASSUME StreamAssumption == MaxBlocks \in Nat

VARIABLES
  sent,   \* the stream: its line end, its blocks, and whether the last one is closed
  coming, \* what has not arrived
  buffer, \* _buffer
  seen,   \* what _event made of the blocks so far
  ended   \* finish has run

streamVars == <<sent, coming, buffer, seen, ended>>

\* A line of data that holds an event of one of two types, or a line of something else.
Lines  == {"delta", "call", "other"}
Events == {"delta", "call"}
Blocks == {<<"delta">>, <<"other", "call">>, <<"delta", "other">>, <<"other">>}
Streams == [end: {<<"LF">>, <<"CR", "LF">>}, closed: BOOLEAN,
            blocks: UNION {[1..n -> Blocks] : n \in 1..MaxBlocks}]

\* The text of a block, and of a stream; a line cannot be told from its parts here.
BlockText(block, end) ==
  IF Len(block) = 1 THEN block ELSE <<block[1]>> \o end \o <<block[2]>>
Text(stream) ==
  LET blank == stream.end \o stream.end
      last  == Len(stream.blocks)
  IN  FlattenSeq([i \in 1..last |-> BlockText(stream.blocks[i], stream.end)
                                    \o (IF i < last \/ stream.closed THEN blank ELSE <<>>)])
\* The lines of a block that hold an event, and what a stream says.
DataLines(block) == FlattenSeq([i \in DOMAIN block |-> IF block[i] \in Events THEN <<block[i]>> ELSE <<>>])
Meant(stream)    == FlattenSeq([i \in DOMAIN stream.blocks |-> DataLines(stream.blocks[i])])

StreamTypeOK ==
  /\ sent \in Streams
  /\ \A text \in {coming, buffer} : \A i \in DOMAIN text : text[i] \in Lines \cup {"CR", "LF"}
  /\ \A i \in DOMAIN seen : seen[i] \in Events
  /\ ended \in BOOLEAN

StreamInit ==
  /\ sent \in Streams
  /\ coming = Text(sent)
  /\ buffer = <<>> /\ seen = <<>> /\ ended = FALSE

-----------------------------------------------------------------------------
Crlf == <<"CR", "LF", "CR", "LF">>
Lf   == <<"LF", "LF">>
FoundAt(text, part) ==
  {i \in 1..(Len(text) - Len(part) + 1) : SubSeq(text, i, i + Len(part) - 1) = part}
\* The one with carriage returns first, wherever it stands.
Separator   == IF FoundAt(buffer, Crlf) # {} THEN Crlf ELSE Lf
HasBlock    == FoundAt(buffer, Separator) # {}

\* _event: several lines of data are one event, which here is no JSON.
Observed(block) == IF Len(DataLines(block)) = 1 THEN DataLines(block) ELSE <<>>

\* Mutant: what was left of the last chunk is forgotten.
FeedAnew(chunk) == buffer' = chunk
Fed(chunk)    == buffer' = buffer \o chunk

\* feed, up to its loop.
Arrives ==
  /\ ~HasBlock /\ coming # <<>>
  /\ \E n \in 1..Len(coming) :
       Fed(SubSeq(coming, 1, n)) /\ coming' = SubSeq(coming, n + 1, Len(coming))
  /\ UNCHANGED <<sent, seen, ended>>
\* A pass of the loop of feed.
TakesBlock ==
  /\ HasBlock
  /\ LET at == Min(FoundAt(buffer, Separator))
     IN  /\ seen' = seen \o Observed(SubSeq(buffer, 1, at - 1))
         /\ buffer' = SubSeq(buffer, at + Len(Separator), Len(buffer))
  /\ UNCHANGED <<sent, coming, ended>>
\* finish
EndsStream ==
  /\ ~HasBlock /\ coming = <<>> /\ ~ended
  /\ seen' = seen \o Observed(buffer)
  /\ buffer' = <<>> /\ ended' = TRUE
  /\ UNCHANGED <<sent, coming>>

StreamNext == Arrives \/ TakesBlock \/ EndsStream

StreamSpec == StreamInit /\ [][StreamNext]_streamVars

-----------------------------------------------------------------------------
\* However the stream is cut, also between the two characters of a line end or within a
\* separator, the dashboard sees its events once each, in order, and in the end all of them.
ChunksDoNotMatter ==
  /\ IsPrefix(seen, Meant(sent))
  /\ ended => seen = Meant(sent)
=============================================================================
