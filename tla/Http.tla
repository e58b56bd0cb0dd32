-------------------------------- MODULE Http --------------------------------
(***************************************************************************)
(* One HTTP request over the TCP connection, and what is made of the bytes *)
(* that arrive before the connection ends.  A stream is a sequence of      *)
(* pieces: header lines, the empty line, pieces of the body and the lines  *)
(* that frame chunks.  How far it gets, in which segments and how it ends  *)
(* is up to the peer and the network.                                      *)
(***************************************************************************)
EXTENDS Integers, SequencesExt

CONSTANTS
    Answers,        \* what servers send: headers, chunk sizes, length of the body
    RawCapacity,    \* of raw_response
    BodyCapacity    \* of the caller's buffer

VARIABLE http

Data(first, n) == [i \in 1 .. n |-> <<"data", first + i - 1>>]

Line(name) == <<"line", name>>

Blank == <<"blank", 0>>

Size(n) == <<"size", n>>

LineEnd == <<"end", 0>>

(* The body an answer is meant to bring.                                   *)
Body(a) == Data(1, a.length)

Payload(a) ==
    IF a.chunks = <<>> THEN Body(a)
    ELSE LET Add(q, i) ==
               LET before == FoldLeft(LAMBDA sum, n : sum + n, 0, SubSeq(a.chunks, 1, i - 1))
               IN  q \o <<Size(a.chunks[i])>> \o Data(before + 1, a.chunks[i]) \o <<LineEnd>>
         IN  FoldLeft(Add, <<>>, [i \in DOMAIN a.chunks |-> i]) \o <<Size(0), LineEnd>>

Stream(a) == [i \in DOMAIN a.headers |-> Line(a.headers[i])] \o <<Blank>> \o Payload(a)

NoAnswer == [headers |-> <<>>, chunks |-> <<>>, length |-> 0]

Init == http = [at |-> "idle", answer |-> NoAnswer, raw |-> 0, result |-> 0, body |-> <<>>]

-----------------------------------------------------------------------------
(* http_parse_response.  The search for the end of a line stops one short  *)
(* of the end of the headers, so that the last line lacks its last         *)
(* character: "chunked" is then not recognised, and a length has lost a    *)
(* digit.                                                                  *)
Cut(lines, i) == i = Len(lines)

Has(lines, name) == \E i \in DOMAIN lines : lines[i] = Line(name) /\ ~Cut(lines, i)

HasLength(lines) == Line("length") \in Range(lines)

LengthReads(lines, n) == Has(lines, "length") \/ n >= 10

Declared(lines, n) == IF Has(lines, "length") THEN n ELSE n \div 10

(* http_decode_chunks, which needs the last chunk of none.                 *)
Bad == <<"bad">>

\* Mutant: a stream that ends between two chunks is complete.
RECURSIVE DecodeWhatCame(_, _, _)
DecodeWhatCame(q, at, out) ==
    IF at > Len(q) THEN out
    ELSE IF q[at][1] # "size" THEN Bad
    ELSE LET n == q[at][2]
         IN  IF n = 0 THEN out
             ELSE IF at + n + 1 > Len(q) \/ Len(out) + n > BodyCapacity THEN Bad
             ELSE DecodeWhatCame(q, at + n + 2, out \o SubSeq(q, at + 1, at + n))

RECURSIVE Decode(_, _, _)
Decode(q, at, out) ==
    IF at > Len(q) \/ q[at][1] # "size" THEN Bad
    ELSE LET n == q[at][2]
         IN  IF n = 0 THEN out
             ELSE IF at + n + 1 > Len(q) \/ Len(out) + n > BodyCapacity THEN Bad
             ELSE Decode(q, at + n + 2, out \o SubSeq(q, at + 1, at + n))

Outcome(result, body) == [result |-> result, body |-> body]

(* What http_get returns for the raw bytes it has.                         *)
Parse(raw, length) ==
    IF Blank \notin Range(raw) THEN Outcome(-7, <<>>)
    ELSE LET end == CHOOSE i \in DOMAIN raw : raw[i] = Blank
             lines == SubSeq(raw, 1, end - 1)
             rest == SubSeq(raw, end + 1, Len(raw))
             n == Declared(lines, length)
         IN  IF HasLength(lines) /\ ~LengthReads(lines, length) THEN Outcome(-7, <<>>)
             ELSE IF Has(lines, "encoding")
             THEN LET body == Decode(rest, 1, <<>>)
                  IN  IF body = Bad THEN Outcome(-7, <<>>) ELSE Outcome(0, body)
             ELSE IF HasLength(lines) /\ n > Len(rest) THEN Outcome(-5, <<>>)
             ELSE LET body == IF HasLength(lines) THEN SubSeq(rest, 1, n) ELSE rest
                  IN  IF Len(body) > BodyCapacity THEN Outcome(-6, <<>>)
                      ELSE Outcome(0, body)

-----------------------------------------------------------------------------
(* http_get                                                                *)

Finished(o) ==
    http' = [http EXCEPT !.at = "done", !.result = o.result, !.body = o.body]

Failed(code) == Finished(Outcome(code, <<>>))

Get ==
    /\ http.at \in {"idle", "done"}
    /\ \/ Failed(-1)
       \/ \E a \in Answers :
            http' = [http EXCEPT !.at = "resolve", !.answer = a, !.raw = 0, !.result = 0,
                                 !.body = <<>>]

Step(from, codes, to) ==
    /\ http.at = from
    /\ \/ \E code \in codes : Failed(code)
       \/ http' = [http EXCEPT !.at = to]

Resolve == Step("resolve", {-2}, "connect")

Connect == Step("connect", {-3}, "send")

(* The request may be too long for its buffer.                             *)
Send == Step("send", {-1, -4}, "read")

Received == SubSeq(Stream(http.answer), 1, http.raw)

(* What a segment brings beyond the end of raw_response is written behind  *)
(* it: such reads are not followed.                                        *)
Read ==
    /\ http.at = "read" /\ http.raw < RawCapacity
    /\ \E n \in http.raw + 1 .. Len(Stream(http.answer)) :
         /\ n <= RawCapacity
         /\ http' = [http EXCEPT !.raw = n]

(* The connection has been closed or reset and nothing is left to be read, *)
(* or the buffer is full: tcp_read_wait says the same of a close and of a  *)
(* reset, which may come at any time.                                      *)
Ended == http.at = "read" /\ Finished(Parse(Received, http.answer.length))

TimedOut == http.at = "read" /\ http.raw < RawCapacity /\ Failed(-5)

Next == Get \/ Resolve \/ Connect \/ Send \/ Read \/ Ended \/ TimedOut

Spec == Init /\ [][Next]_http

-----------------------------------------------------------------------------
TypeOK ==
    /\ http.at \in {"idle", "resolve", "connect", "send", "read", "done"}
    /\ http.answer \in Answers \cup {NoAnswer}
    /\ http.raw \in 0 .. RawCapacity /\ http.result \in -7 .. 0
    /\ Len(http.body) <= BodyCapacity

Framing(a) == IF a.chunks # <<>> THEN "encoding" ELSE "length"

(* "HTTP supports Content-Length, chunked, and close-delimited response    *)
(* bodies": a request that succeeds has the whole body of a server that    *)
(* says how long it is, wherever the stream was cut, and the beginning of  *)
(* the body of one that does not; unless the header that says it is the    *)
(* last one, which loses its last character.                               *)
WholeBody ==
    LET a == http.answer
        framed == Framing(a) \in Range(a.headers)
    IN  http.at = "done" /\ http.result = 0
        /\ ~(a.headers # <<>> /\ Last(a.headers) = Framing(a)) =>
           /\ framed => http.body = Body(a)
           /\ IsPrefix(http.body, Body(a))
=============================================================================
