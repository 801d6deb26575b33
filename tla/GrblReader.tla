----------------------------- MODULE GrblReader -----------------------------
(***************************************************************************)
(* How the GRBL session reads the device (src/src/grbl/flow.rs,            *)
(* parse_incoming; src/src/grbl/session.rs, handle_rx): the bytes come in  *)
(* chunks cut anywhere, acknowledgements are taken out of the buffer       *)
(* before it is split into lines, and lines are handled before             *)
(* acknowledgements.                                                       *)
(*                                                                         *)
(* A byte is a pair of a letter and the message it belongs to.  The text   *)
(* of a line is x1 x2, of an error e1 e2 (the marker `error:' and its      *)
(* code); o, k, 0 (NUL), s (space), r and n stand for themselves, b is a   *)
(* byte that is not UTF-8.  The device may print an acknowledgement in the *)
(* middle of a line, as buggy firmware does.                               *)
(*                                                                         *)
(* Abstracted: longer texts, and the pending queue that each               *)
(* acknowledgement pops (module FlowControl).                              *)
(***************************************************************************)
EXTENDS Integers, Sequences, SequencesExt, FiniteSetsExt

CONSTANTS MaxMessages,     \* bound: messages of the device
          Interleavings    \* of {"ack in line", "line in ack"}: what the firmware breaks up

ASSUME BoundAssumption == MaxMessages \in Nat
ASSUME InterleavingsAssumption == Interleavings \subseteq {"ack in line", "line in ack"}

VARIABLES
    status_buffer,     \* FlowInner
    wire,              \* bytes on their way
    emitted,           \* ghost: the messages of the device in the order of their last text byte
    handled            \* what handle_rx has handled, in order

vars == <<status_buffer, wire, emitted, handled>>

Letters(kind) == CASE kind = "ok" -> <<"o", "k", "r", "n">>
                   [] kind = "nul_ok" -> <<"o", "0", "k", "r", "n">>
                   [] kind = "spaced_ok" -> <<"o", "k", "s", "r", "n">>
                   [] kind = "error" -> <<"e1", "e2", "r", "n">>
                   [] kind = "bad_error" -> <<"e1", "e2", "b", "r", "n">>
                   [] kind = "line" -> <<"x1", "x2", "r", "n">>
                   [] kind = "bad_line" -> <<"x1", "b", "r", "n">>
Oks == {"ok", "nul_ok", "spaced_ok"}
LineKinds == {"line", "bad_line"}
Kinds == Oks \cup {"error", "bad_error"} \cup LineKinds
Bytes(kind, id) == [i \in DOMAIN Letters(kind) |-> <<Letters(kind)[i], id>>]

Init == status_buffer = <<>> /\ wire = <<>> /\ emitted = <<>> /\ handled = <<>>

(***************************************************************************)
(* parse_incoming: its loops, each on a pair of the buffer and the         *)
(* responses so far                                                        *)
(***************************************************************************)
At(b, i, letter) == i \in DOMAIN b /\ b[i][1] = letter
Drop(b, i, j) == SubSeq(b, 1, i - 1) \o SubSeq(b, j + 1, Len(b))
\* where a run of the letter `rep' from i on may end: the positions after it
Runs(b, i, rep) == {j \in i..(Len(b) + 1) : \A m \in i..(j - 1) : At(b, m, rep)}
Spans(b) == (DOMAIN b) \X (DOMAIN b)
Response(kind, text) == [kind |-> kind, text |-> text]
\* String::from_utf8 succeeds
IsUtf8(text) == \A i \in DOMAIN text : text[i][1] # "b"

\* mutant: a plain ok, with or without the end of its line
OkMatches_plain(b) == {<<i, j>> \in Spans(b) : At(b, i, "o") /\ At(b, i + 1, "k") /\ j = i + 1}

\* OK_ACK_RE: ok\r*\n
OkMatches(b) == {<<i, j>> \in Spans(b) :
                    At(b, i, "o") /\ At(b, i + 1, "k") /\ j \in Runs(b, i + 2, "r") /\ At(b, j, "n")}

\* mutant: one NUL byte is taken for the k
find_null_corrupted_ok_shifted(b) ==
    {<<i, j>> \in Spans(b) : At(b, i, "o") /\ At(b, i + 1, "0") /\ j \in Runs(b, i + 2, "r") /\ At(b, j, "n")}

\* o, NUL bytes, k, \r*, \n
find_null_corrupted_ok(b) ==
    {<<i, j>> \in Spans(b) :
        /\ At(b, i, "o")
        /\ \E k \in Runs(b, i + 1, "0") \ {i + 1} : At(b, k, "k") /\ j \in Runs(b, k + 1, "r") /\ At(b, j, "n")}

\* `error:' up to the next newline
ErrorMatches(b) == {<<i, j>> \in Spans(b) :
                       /\ At(b, i, "e1") /\ At(b, i + 1, "e2") /\ j > i /\ At(b, j, "n")
                       /\ \A m \in i..(j - 1) : ~At(b, m, "n")}

Matches(pattern, b) == CASE pattern = "ok" -> OkMatches(b)
                         [] pattern = "nul_ok" -> find_null_corrupted_ok(b)
                         [] pattern = "error" -> ErrorMatches(b)
Leftmost(matches) == CHOOSE m \in matches : \A o \in matches : m[1] <= o[1]

\* take every match of a pattern out of the buffer, from left to right; one that is not UTF-8
\* is gone without a response
RECURSIVE Extract(_, _, _)
Extract(pair, pattern, kind) ==
    LET found == Matches(pattern, pair[1])
    IN IF found = {} THEN pair
       ELSE LET m == Leftmost(found)
                text == SubSeq(pair[1], m[1], m[2] - 1)
            IN Extract(<<Drop(pair[1], m[1], m[2]), IF IsUtf8(text) THEN Append(pair[2], Response(kind, text)) ELSE pair[2]>>, pattern, kind)

extract_acks_from_buffer(b) ==
    Extract(Extract(Extract(<<b, <<>>>>, "ok", "ok"), "nul_ok", "ok"), "error", "error")

\* trim()
Trim(line) ==
    LET ink == {i \in DOMAIN line : line[i][1] \notin {"s", "r", "n"}}
    IN IF ink = {} THEN <<>> ELSE SubSeq(line, Min(ink), Max(ink))
IsOk(line) == Len(line) = 2 /\ At(line, 1, "o") /\ At(line, 2, "k")
LineResponse(line) == Response(IF IsOk(line) THEN "ok" ELSE "line", line)

\* the lines: each up to its newline; empty ones and those that are not UTF-8 are left out
RECURSIVE SplitLines(_)
SplitLines(pair) ==
    LET ends == {i \in DOMAIN pair[1] : At(pair[1], i, "n")}
    IN IF ends = {} THEN pair
       ELSE LET nl == Min(ends)
                line == Trim(SubSeq(pair[1], 1, nl))
            IN SplitLines(<<Drop(pair[1], 1, nl), IF line = <<>> \/ ~IsUtf8(line) THEN pair[2] ELSE Append(pair[2], LineResponse(line))>>)

parse_incoming(data) == SplitLines(extract_acks_from_buffer(status_buffer \o data))

(***************************************************************************)
(* handle_rx                                                               *)
(***************************************************************************)
\* mutant: the responses are handled as they were parsed
handle_order_as_parsed(responses) == responses

\* "Process LINE responses before OK/ERROR"
handle_order(responses) ==
    SelectSeq(responses, LAMBDA r : r.kind = "line") \o SelectSeq(responses, LAMBDA r : r.kind # "line")

handle_rx(n) ==
    /\ n \in 1..Len(wire)
    /\ LET parsed == parse_incoming(SubSeq(wire, 1, n))
       IN status_buffer' = parsed[1] /\ handled' = handled \o handle_order(parsed[2])
    /\ wire' = SubSeq(wire, n + 1, Len(wire))
    /\ UNCHANGED emitted

(***************************************************************************)
(* The device                                                              *)
(***************************************************************************)
\* Two messages the reader cannot save: one with a byte that is not UTF-8 in it, and an ok with a
\* space behind it in the middle of a line, which is no ok to OK_ACK_RE and tears the line.
Message(kind, id, torn) == [kind |-> kind, id |-> id, sound |-> ~torn /\ kind \notin {"bad_error", "bad_line"}]

Emit(kind) ==
    /\ Len(emitted) < MaxMessages
    /\ wire' = wire \o Bytes(kind, Len(emitted) + 1)
    /\ emitted' = Append(emitted, Message(kind, Len(emitted) + 1, FALSE))
    /\ UNCHANGED <<status_buffer, handled>>

\* the bytes of one message in the middle of another's, `at' of which come first
EmitInside(inner, outer, at) ==
    /\ Len(emitted) + 1 < MaxMessages
    /\ LET i == Len(emitted) + 1
           whole == Bytes(outer, i + 1)
           torn == inner = "spaced_ok"
       IN /\ at \in 1..(Len(whole) - 1)
          /\ wire' = wire \o SubSeq(whole, 1, at) \o Bytes(inner, i) \o SubSeq(whole, at + 1, Len(whole))
          /\ emitted' = emitted \o <<Message(inner, i, torn), Message(outer, i + 1, torn)>>
    /\ UNCHANGED <<status_buffer, handled>>

MayBreak(inner, outer) ==
    \/ "ack in line" \in Interleavings /\ inner \notin LineKinds /\ outer \in LineKinds
    \/ "line in ack" \in Interleavings /\ inner = "line" /\ outer \notin LineKinds

Next ==
    \/ \E kind \in Kinds : Emit(kind)
    \/ \E inner, outer \in Kinds, at \in 1..4 : MayBreak(inner, outer) /\ EmitInside(inner, outer, at)
    \/ \E n \in 1..Len(wire) : handle_rx(n)

Spec == Init /\ [][Next]_vars

-----------------------------------------------------------------------------
Everything == wire = <<>>
Acks(s) == SelectSeq(s, LAMBDA m : m.kind \notin LineKinds)
IdOf(r) == r.text[1][2]
Sound(s) == SelectSeq(s, LAMBDA m : m.sound)
SoundLines == SelectSeq(Sound(emitted), LAMBDA m : m.kind = "line")
Times(e) == Cardinality({i \in DOMAIN handled :
                IdOf(handled[i]) = e.id /\ handled[i].kind = (IF e.kind \in Oks THEN "ok" ELSE "error")})

\* Acknowledgements are taken out of the raw stream, so those "interleaved with status reports by
\* buggy firmware are never lost": once the stream is read, every ok and every error has been
\* handled once, however the chunks were cut, whatever was printed around them and whatever
\* corrupt message came before.  Two kinds are lost and never counted twice: an error with a byte
\* that is not UTF-8, and an ok with a space behind it in the middle of a line.
NoAckLost ==
    Everything => \A e \in ToSet(Acks(emitted)) : IF e.sound THEN Times(e) = 1 ELSE Times(e) = 0

\* What is left are the lines of the device, whole and in order: no line is cut by an
\* acknowledgement in its middle, by a chunk, joined with its neighbour or lost to a corrupt one
\* beside it.  Only a line that is corrupt itself or torn by a spaced ok is not there as a whole.
LinesIntact ==
    Everything =>
        LET whole == SelectSeq(handled, LAMBDA r : r.kind = "line" /\ IdOf(r) \in {m.id : m \in ToSet(SoundLines)})
        IN [i \in DOMAIN whole |-> whole[i].text] =
           [i \in DOMAIN SoundLines |-> SubSeq(Bytes("line", SoundLines[i].id), 1, 2)]

\* "informational lines are collected before the command is marked as finished": when an
\* acknowledgement is handled, the lines that the device had printed before it have been.
AnswerComplete ==
    \A i \in DOMAIN handled, e \in ToSet(SoundLines) :
        handled[i].kind # "line" /\ e.id < IdOf(handled[i]) =>
            \E j \in 1..(i - 1) : handled[j].kind = "line" /\ IdOf(handled[j]) = e.id

\* What the head of flow.rs says without an exception: acknowledgements are never lost.
NeverLost == Everything => \A e \in ToSet(Acks(emitted)) : e.kind # "bad_error" => Times(e) = 1

\* Answers are handled in the order in which the device sent them, which is the order of the
\* pending queue that they pop: an ok behind an error in one chunk is extracted first.
AcksInOrder ==
    Everything => [i \in DOMAIN Acks(handled) |-> Acks(handled)[i].kind] =
                  [i \in DOMAIN Acks(emitted) |-> IF Acks(emitted)[i].kind \in Oks THEN "ok" ELSE "error"]
=============================================================================
