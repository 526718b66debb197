------------------------------ MODULE RespParser ------------------------------
(***************************************************************************)
(* The incremental RESP parser (protocol/parser.js): TCP cuts the stream   *)
(* of messages anywhere, append and parse take it chunk by chunk.  A byte  *)
(* is a string; the digits of a length are one byte.  A value is a pair of *)
(* its kind and its contents.                                              *)
(***************************************************************************)
EXTENDS Integers, Sequences, SequencesExt

CONSTANTS
  Byte,        \* bytes of a stream
  Digits,      \* Digits[n] is the byte that stands for the digits of n
  Message,     \* values the peer sends
  MaxDepth,    \* bound of the model on the nesting of a message
  MaxMessages, \* bound of the model on the messages of a stream
  MaxBuffer,   \* MAX_PARSER_BUFFER
  MaxCount,    \* MAX_BULK_SIZE and MAX_ARRAY_ELEMENTS
  MaxNesting   \* MAX_NESTING_DEPTH

VARIABLES
  messages,   \* what the peer sends
  received,   \* bytes of it that have arrived
  bytes,      \* _buffer
  parsed,     \* everything parse() has returned
  threw       \* append() or parse() has thrown

parserVars == <<messages, received, bytes, parsed, threw>>

Marks == {"+", "-", ":", "$", "*"}
CRLF == <<"CR", "LF">>

-----------------------------------------------------------------------------
\* The values of a stream. A line ends at its first CRLF, an inline command at its
\* first LF, and it does not begin like a typed value.
Line == {s \in Seq(Byte) : \A i \in 1..(Len(s) - 1) : s[i] = "CR" => s[i + 1] # "LF"}
Inline == {s \in Seq(Byte) : s # <<>> /\ s[1] \notin Marks /\ \A i \in 1..Len(s) : s[i] # "LF"}
Payload == {s \in Seq(Byte) : Len(s) <= MaxCount}

Plain == ({"simple", "error"} \X Line) \cup ({"integer"} \X {Digits[n] : n \in -1..MaxCount})
  \cup ({"null"} \X {0}) \cup ({"bulk"} \X Payload) \cup ({"line"} \X Inline)

\* What the parser refuses: a number that is none, and a bulk string that goes on.
Broken ==
  ({"number"} \X ({":", "$", "*"} \X {s \in Line : \A n \in -1..MaxCount : s # <<Digits[n]>>}))
  \cup ({"endless"} \X (Payload \X {e \in Byte \X Byte : e # CRLF}))

\* Those values, and arrays of at most so many levels of them.
Nested(values, levels) ==
  LET upTo[n \in 0..levels] ==
        IF n = 0 THEN values
        ELSE values \cup ({"array"} \X {s \in Seq(upTo[n - 1]) : Len(s) <= MaxCount})
  IN  upTo[levels]

Sendable(levels) == Nested(Plain \cup Broken, levels)
Sound == Nested(Plain, MaxNesting + 1)

ASSUME ParserAssumption ==
  /\ MaxDepth \in Nat /\ MaxMessages \in Nat /\ MaxBuffer \in Nat
  /\ MaxCount \in Nat /\ MaxNesting \in Nat
  /\ Marks \cup {"CR", "LF"} \subseteq Byte
  /\ Digits \in [-1..MaxCount -> Byte \ {"CR", "LF"}]
  /\ \A m, n \in -1..MaxCount : Digits[m] = Digits[n] => m = n
  /\ Message \subseteq Sendable(MaxDepth)

\* What encoder.js and the clients write for a value of at most so many levels, given what
\* they write for the elements of an array.
Opening(type, n) == <<type, Digits[n]>> \o CRLF
Code(element, m) ==
  CASE m[1] = "simple" -> <<"+">> \o m[2] \o CRLF
    [] m[1] = "error" -> <<"-">> \o m[2] \o CRLF
    [] m[1] = "integer" -> <<":", m[2]>> \o CRLF
    [] m[1] = "null" -> Opening("$", -1)
    [] m[1] = "bulk" -> Opening("$", Len(m[2])) \o m[2] \o CRLF
    [] m[1] = "line" -> m[2] \o CRLF
    [] m[1] = "number" -> <<m[2][1]>> \o m[2][2] \o CRLF
    [] m[1] = "endless" -> Opening("$", Len(m[2][1])) \o m[2][1] \o m[2][2]
    [] m[1] = "array" ->
         Opening("*", Len(m[2])) \o FlattenSeq([i \in DOMAIN m[2] |-> element[m[2][i]]])
Encoded[levels \in 0..MaxDepth] == [m \in Sendable(levels) |-> Code(Encoded[levels - 1], m)]

Stream(ms) == FlattenSeq([i \in DOMAIN ms |-> Encoded[MaxDepth][ms[i]]])

ParserInit ==
  /\ messages \in UNION {[1..n -> Message] : n \in 1..MaxMessages}
  /\ received = 0 /\ bytes = <<>> /\ parsed = <<>> /\ threw = FALSE

-----------------------------------------------------------------------------
More == [end |-> "more", value |-> <<"null", 0>>, consumed |-> 0, rest |-> <<>>]
Value(v, n) == [More EXCEPT !.end = "value", !.value = v, !.consumed = n]

\* An exception leaves _buffer at the element that raised it.
Error(b) == [More EXCEPT !.end = "error", !.rest = b]

From(b, n) == SubSeq(b, n + 1, Len(b))

\* _findCRLF: the number of bytes before the first CRLF at or after the given offset.
CRLFs(b, offset) == {i \in offset..(Len(b) - 2) : b[i + 1] = "CR" /\ b[i + 2] = "LF"}
FindCRLF(b, offset) == IF CRLFs(b, offset) = {} THEN -1
                       ELSE CHOOSE i \in CRLFs(b, offset) : \A j \in CRLFs(b, offset) : i <= j

\* parseStrictInteger of the header of a message, and the bounds the callers check.
LengthField(b, end) == SubSeq(b, 2, end)
Number(b, end) ==
  LET fits == {n \in -1..MaxCount : <<Digits[n]>> = LengthField(b, end)}
  IN  IF fits = {} THEN [ok |-> FALSE, n |-> 0] ELSE [ok |-> TRUE, n |-> CHOOSE n \in fits : TRUE]

ParseSimple(b, end) ==
  Value(<<IF b[1] = "+" THEN "simple" ELSE "error", LengthField(b, end)>>, end + 2)

ParseInteger(b, end) ==
  IF Number(b, end).ok THEN Value(<<"integer", b[2]>>, end + 2) ELSE Error(b)

\* Bytes _parseBulkString waits for. ShortTail forgets the CRLF that ends the data.
ShortTail(dataEnd) == dataEnd
Needed(dataEnd) == dataEnd + 2

ParseBulk(b, end) ==
  LET start == end + 2
      stop == start + Number(b, end).n
  IN  CASE ~Number(b, end).ok -> Error(b)
        [] Number(b, end).ok /\ Number(b, end).n = -1 -> Value(<<"null", 0>>, start)
        [] Number(b, end).ok /\ Number(b, end).n >= 0 ->
             IF Len(b) < Needed(stop) THEN More
             ELSE IF ~IsPrefix(CRLF, From(b, stop)) THEN Error(b)
             ELSE Value(<<"bulk", SubSeq(b, start + 1, stop)>>, stop + 2)

\* _parseInline, but for trim and _splitInline. Without any CRLF a bare LF ends the line.
ParseInline(b) ==
  LET end == FindCRLF(b, 0)
      feeds == {i \in DOMAIN b : b[i] = "LF"}
      stop == IF end >= 0 THEN end ELSE (CHOOSE i \in feeds : \A j \in feeds : i <= j) - 1
      line == SubSeq(b, 1, stop)
      after == IF end >= 0 THEN end + 2 ELSE stop + 1
  IN  IF end < 0 /\ feeds = {} THEN More
      ELSE Value(IF line = <<>> THEN <<"array", <<>>>> ELSE <<"line", line>>, after)

\* Values parsed one after the other, each from what the one before left of b: n of them,
\* or those before the first that is incomplete or refused.
NoValues == [end |-> "value", values |-> <<>>, consumed |-> 0, rest |-> <<>>]
OneMore(parse, b, t) ==
  LET e == parse[From(b, t.consumed)]
  IN  IF t.end # "value" THEN t
      ELSE IF e.end # "value" THEN [t EXCEPT !.end = e.end, !.rest = e.rest]
      ELSE [t EXCEPT !.values = Append(@, e.value), !.consumed = @ + e.consumed]
InTurn(parse, b, n) ==
  LET turn[i \in 0..n] == IF i = 0 THEN NoValues ELSE OneMore(parse, b, turn[i - 1])
  IN  turn[n]

\* _parseArray; parse is _tryParse one level down.
ParseArray(parse, b, end) ==
  LET elements == InTurn(parse, From(b, end + 2), Number(b, end).n)
  IN  CASE ~Number(b, end).ok -> Error(b)
        [] Number(b, end).ok /\ Number(b, end).n = -1 -> Value(<<"null", 0>>, end + 2)
        [] Number(b, end).ok /\ Number(b, end).n >= 0 ->
             CASE elements.end = "more" -> More
               [] elements.end = "error" -> Error(elements.rest)
               [] elements.end = "value" ->
                    Value(<<"array", elements.values>>, end + 2 + elements.consumed)

ParseTyped(parse, b, end) ==
  CASE b[1] \in {"+", "-"} -> ParseSimple(b, end)
    [] b[1] = ":" -> ParseInteger(b, end)
    [] b[1] = "$" -> ParseBulk(b, end)
    [] b[1] = "*" -> ParseArray(parse, b, end)

TryOne(parse, b, depth) ==
  LET end == FindCRLF(b, 1)
      tooDeep == b[1] = "*" /\ depth > MaxNesting
  IN  IF b = <<>> THEN More
      ELSE IF b[1] \notin Marks THEN ParseInline(b)
      ELSE IF tooDeep THEN Error(b)
      ELSE IF end < 0 THEN More
      ELSE ParseTyped(parse, b, end)

TryParse[depth \in 0..(MaxNesting + 1)] ==
  [b \in Seq(Byte) |-> TryOne(TryParse[depth + 1], b, depth)]

\* parse(): everything complete at the head of the buffer, which is empty after at most as
\* many values as bytes. What was parsed before an exception is lost with it, and the
\* buffer keeps the offending element.
Parse(b) ==
  LET all == InTurn(TryParse[0], b, Len(b) + 1)
  IN  IF all.end = "error" THEN [results |-> <<>>, rest |-> all.rest, threw |-> TRUE]
      ELSE [results |-> all.values, rest |-> From(b, all.consumed), threw |-> FALSE]

-----------------------------------------------------------------------------
\* A chunk of the stream arrives: append(chunk), which empties a buffer that became
\* too large and throws, and parse().
Chunk ==
  /\ ~threw
  /\ \E n \in 1..(Len(Stream(messages)) - received) :
       LET b == bytes \o SubSeq(Stream(messages), received + 1, received + n)
           p == Parse(b)
       IN  /\ received' = received + n
           /\ IF Len(b) > MaxBuffer
                THEN bytes' = <<>> /\ threw' = TRUE /\ UNCHANGED parsed
                ELSE bytes' = p.rest /\ threw' = p.threw /\ parsed' = parsed \o p.results
  /\ UNCHANGED messages

ParserNext == Chunk
ParserSpec == ParserInit /\ [][ParserNext]_parserVars

-----------------------------------------------------------------------------
\* Messages that have arrived whole.
Whole == CHOOSE n \in 0..Len(messages) :
  /\ Len(Stream(SubSeq(messages, 1, n))) <= received
  /\ n < Len(messages) => Len(Stream(SubSeq(messages, 1, n + 1))) > received

\* However the stream is cut, and whatever bytes a payload holds, the parser has
\* returned exactly the messages that have arrived whole, each once and in order, as
\* long as it has not thrown; and it throws only for a malformed or too deeply nested
\* message or for more bytes than the buffer may hold.
CutAnywhere ==
  /\ ~threw => parsed = SubSeq(messages, 1, Whole)
  /\ threw => received > MaxBuffer \/ \E i \in 1..Len(messages) : messages[i] \notin Sound
===============================================================================
