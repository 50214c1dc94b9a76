------------------------------ MODULE HttpParser ------------------------------
(***************************************************************************)
(* The parser of HTTP/1 messages, HttpParser, with the parts of HttpHeader *)
(* it uses: parse as an operator from a parser and the bytes of one read   *)
(* to the parser after it.                                                 *)
(*                                                                         *)
(* A message is a sequence of tokens.  A line is two of them and its end:  *)
(* its first byte, which stands for what the line says, and "rest".  The   *)
(* size of a chunk is a line of one token.  Text is ASCII, since String's  *)
(* ascii encoding is.  pause and resume have no caller.                    *)
(***************************************************************************)
EXTENDS Naturals, Sequences

Line(first) == <<first, "rest", "CR", "LF">>
EndOfLine == <<"CR", "LF">>
SizeLine == <<"size0", "size1", "size2">>
SizeToken(n) == SizeLine[n + 1]
Bodyless == {"101", "204"}

\* Two lengths: what Content-Length says is the value of `clen`.
Idle == [readState |-> "line", chunkState |-> "size", chunkSize |-> 0, savedString |-> <<>>,
         totalBytesRead |-> 0, start |-> "none", headers |-> {}, events |-> <<>>]

-----------------------------------------------------------------------------
(* HttpHeader. *)

isRequest(p) == p.start = "request"
\* processHeader reads the headers of a request only; processHeader(statusCode)
\* leaves contentLength and isChunked as they are.
hasLength(p) == isRequest(p) /\ "length" \in p.headers
isChunked(p) == isRequest(p) /\ "chunked" \in p.headers
hasBody(p) == IF isRequest(p) THEN isChunked(p) \/ hasLength(p) ELSE p.start \notin Bodyless
isUpgrade(p) == "upgrade" \in p.headers

-----------------------------------------------------------------------------
(* HttpParser. *)

Notify(p, es) == [p EXCEPT !.events = @ \o es]
Fail(p) == [p EXCEPT !.readState = "error"]
Done(p) == Notify([p EXCEPT !.readState = "done"], <<"complete">>)

\* getLine.  CR LF is one Character, so that the count of Characters is one short
\* of the bytes, and one is added: one too many for an LF whose CR is not in this
\* read.  What it takes may then reach past the end of the input.
GetLine(d) ==
  IF "LF" \notin {d[i] : i \in 1..Len(d)} THEN [found |-> FALSE]
  ELSE LET i == CHOOSE k \in 1..Len(d) : d[k] = "LF" /\ \A j \in 1..(k - 1) : d[j] # "LF"
           pair == i > 1 /\ d[i - 1] = "CR"
       IN  [found |-> TRUE,
            line  |-> SubSeq(d, 1, IF pair THEN i - 2 ELSE i - 1),
            used  |-> IF pair THEN i ELSE i + 1]
Drop(d, n) == SubSeq(d, n + 1, Len(d))
Past(d, g) == g.used > Len(d)

\* The line found, with what was saved of it before.
Saved_Forgotten(p, line) == line                                \* mutant
Saved(p, line) == p.savedString \o line
Fresh(p) == [p EXCEPT !.savedString = <<>>]
\* saveData (its limit of 10 MB is not reached).
SaveData(p, d) == [p EXCEPT !.savedString = @ \o d]

\* parseStartLine, parseHeadLine: a CR left at the end of the line becomes part of
\* the last word, which no test of a header's value then knows.
IsHeadLine(line) == "rest" \in {line[i] : i \in 1..Len(line)}
AddHeader(p, line) ==
  [p EXCEPT !.headers = IF Len(line) = 2 THEN @ \cup {line[1]} ELSE @]

\* parseHttp in body, with contentLength: clen bytes in all, or until EOF.
Needed(p, clen) == clen - p.totalBytesRead
ParseBody(p, d, clen) ==
  IF hasLength(p) /\ Needed(p, clen) <= Len(d)
  THEN Done(Notify([p EXCEPT !.totalBytesRead = clen], SubSeq(d, 1, Needed(p, clen))))
  ELSE Notify([p EXCEPT !.totalBytesRead = @ + Len(d)], d)

\* The loops of parse: a round takes bytes of the input d, or ends it.
GoOn(p, d, n) == [parser |-> p, data |-> Drop(d, n)]
Returns(p) == [parser |-> p, data |-> <<>>]

\* parseChunk.
ChunkSize(line) ==
  IF Len(line) = 1 /\ line[1] \in {SizeLine[i] : i \in 1..Len(SizeLine)}
  THEN {n \in 0..(Len(SizeLine) - 1) : SizeToken(n) = line[1]} ELSE {}
SizeRound(p, d) ==
  LET g == GetLine(d)
      sizes == ChunkSize(Saved(p, g.line))
  IN  IF ~g.found THEN Returns(SaveData(p, d))
      ELSE IF sizes = {} THEN Returns(Fail(Fresh(p)))
      ELSE LET size == CHOOSE k \in sizes : TRUE
           IN  GoOn([Fresh(p) EXCEPT !.chunkSize = size,
                                     !.chunkState = IF size = 0 THEN "trailer" ELSE "data"], d, g.used)
DataRound(p, d) ==
  LET n == IF p.chunkSize <= Len(d) THEN p.chunkSize ELSE Len(d)
  IN  GoOn(Notify([p EXCEPT !.totalBytesRead = @ + n, !.chunkSize = @ - n,
                            !.chunkState = IF n = p.chunkSize THEN "data_cr" ELSE @],
                  SubSeq(d, 1, n)), d, n)
EndRound(p, d, byte, next) ==
  IF d[1] = byte THEN GoOn([p EXCEPT !.chunkState = next], d, 1) ELSE Returns(Fail(p))
TrailerRound(p, d) ==
  LET g == GetLine(d) IN
  IF ~g.found THEN Returns(SaveData(p, d))
  ELSE IF Saved(p, g.line) = <<>> THEN Returns(Done(Fresh(p))) ELSE GoOn(Fresh(p), d, g.used)
ChunkRound(p, d) ==
  CASE p.chunkState = "size" -> SizeRound(p, d)
    [] p.chunkState = "data" -> DataRound(p, d)
    [] p.chunkState = "data_cr" -> EndRound(p, d, "CR", "data_lf")
    [] p.chunkState = "data_lf" -> EndRound(p, d, "LF", "size")
    [] p.chunkState = "trailer" -> TrailerRound(p, d)

\* The empty line: onHeaderComplete.
HeaderEnd(p) ==
  LET q == Notify(p, <<"header">>)
  IN  IF ~hasBody(q) \/ isUpgrade(q) THEN Done(q) ELSE [q EXCEPT !.readState = "body"]

\* A line of the head.  Input that was overrun is read on at a negative length:
\* nothing is known of the parser from there on.
HeadRound(p, d) ==
  LET g == GetLine(d)
      line == Saved(p, g.line)
      q == IF p.readState = "line" THEN [Fresh(p) EXCEPT !.start = line[1], !.readState = "head"]
           ELSE AddHeader(Fresh(p), line)
  IN  IF ~g.found THEN Returns(SaveData(p, d))
      ELSE IF line = <<>> /\ p.readState = "head" THEN GoOn(HeaderEnd(Fresh(p)), d, g.used)
      ELSE IF ~IsHeadLine(line) THEN Returns(Fail(Fresh(p)))
      ELSE IF Past(d, g) THEN Returns([p EXCEPT !.readState = "overrun"])
      ELSE GoOn(q, d, g.used)

Round(r, clen) ==
  LET p == r.parser
      d == r.data
  IN  IF d = <<>> THEN r
      ELSE CASE p.readState \in {"line", "head"} -> HeadRound(p, d)
             [] p.readState = "body" /\ isChunked(p) -> ChunkRound(p, d)
             [] p.readState = "body" /\ ~isChunked(p) -> Returns(ParseBody(p, d, clen))
             [] OTHER -> Returns(p)

\* parse: what one read brought.  Each round that does not end takes a byte.
Parse(p, d, clen) ==
  LET run[i \in 0..Len(d)] == IF i = 0 THEN [parser |-> p, data |-> d]
                              ELSE Round(run[i - 1], clen)
      q == run[Len(d)].parser
  IN  IF q.readState = "error" /\ p.readState # "error" THEN Notify(q, <<"error">>) ELSE q

\* setEOF: the end of the connection is the end of a response.
AtEOF_Anywhere(p) == ~isRequest(p)                              \* mutant
AtEOF(p) == ~isRequest(p) /\ hasBody(p) /\ p.readState = "body"
SetEOF(p) == IF AtEOF(p) THEN Done(p) ELSE p
=============================================================================
