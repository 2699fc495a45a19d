--------------------------------- MODULE Http ---------------------------------
(***************************************************************************)
(* The HTTP parser of spansy (src/spansy/src/http.rs, http/span.rs and      *)
(* http/types.rs) on a transcript of messages one after the other, seen     *)
(* through a View that may skip bytes of the store.                         *)
(*                                                                         *)
(* A byte is a token: what the parser never splits (a method, a header name,*)
(* a number, CRLF) is one.  Offsets count from 0, as the code's do.         *)
(*                                                                         *)
(* A sender writes the messages and remembers in `sent` where it put each   *)
(* element; the transcript may end anywhere, within a message too.  Then    *)
(* the iterator Requests or Responses reads it.                             *)
(***************************************************************************)
EXTENDS Json

CONSTANTS
  Idle,          (* the iterator has not been called                        *)
  MaxMessages,   (* bound: messages in a transcript                         *)
  MaxTokens,     (* bound: its length if it has more than one message       *)
  MaxBody,       (* bound: the tokens of a body                             *)
  HeaderLists,   (* the header sections the sender chooses from             *)
  Payloads,      (* the bodies it sends with Content-Length                 *)
  ChunkLists,    (* the sequences of chunks, the last one left out          *)
  TrailerLists,  (* the trailer sections                                    *)
  Documents      (* the JSON documents among the bodies                     *)

VARIABLES
  kind,     (* which iterator reads: "request" or "response"                *)
  text,     (* what the sender has written                                  *)
  sent,     (* where in text it put the elements of each message            *)
  store,    (* the store, None until the reading begins                     *)
  gap,      (* the offset in text before which the store has a foreign byte *)
  indices,  (* the indices of Requests::view                                *)
  pos,      (* Requests::pos                                                *)
  count,    (* how many messages the iterator has yielded                   *)
  last      (* what it returned last                                        *)

vars == <<kind, text, sent, store, gap, indices, pos, count, last>>

Num == [d \in {ToString(n) : n \in 0 .. MaxBody} |-> CHOOSE n \in 0 .. MaxBody : ToString(n) = d]
Slice(bytes, r) == SubSeq(bytes, r.start + 1, r.end)

(* windows(2).position(CRLF), from offset i. *)
FindCrlf(bytes, i) ==
  LET found == {k \in i .. Len(bytes) - 1 : At(bytes, k) = "crlf"}
  IN  IF found = {} THEN None ELSE Min(found)
-----------------------------------------------------------------------------
(* httparse: the spans of the head, None for a partial or malformed one.    *)
(* It skips empty lines before the first line, and the whitespace around a  *)
(* header's value.                                                          *)
LineTokens(k) ==
  IF k = "request" THEN <<{"GET"}, {"/"}, {"ver"}, {"crlf"}>>
  ELSE <<{"ver"}, {"200", "204"}, {"OK"}, {"crlf"}>>

(* The first and the second element the caller is told of: method and       *)
(* target, or code and reason.                                              *)
PartAt(k) == IF k = "request" THEN <<0, 1>> ELSE <<1, 2>>

HeaderSpan(i, seen) ==
  [name |-> Rg(i, i + 1),
   value |-> IF seen = {} THEN Rg(i + 2, i + 2) ELSE Rg(Min(seen), Max(seen) + 1)]

RECURSIVE HeaderSpans(_, _, _)
HeaderLine(bytes, i, end, spans) ==
  IF end = i THEN [spans |-> spans, end |-> i + 1]
  ELSE IF end = None \/ At(bytes, i + 1) # ":" THEN None
  ELSE HeaderSpans(bytes, end + 1,
         Append(spans, HeaderSpan(i, {p \in i + 2 .. end - 1 : At(bytes, p) # "ws"})))

HeaderSpans(bytes, i, spans) == HeaderLine(bytes, i, FindCrlf(bytes, i), spans)

(* The code looks for the method and for the status code by their content;  *)
(* nothing before them in the line holds it, so they are where they stand.  *)
HeadOf(k, first, headers) ==
  IF headers = None THEN None
  ELSE [parts |-> [j \in 1 .. 2 |-> Rg(first + PartAt(k)[j], first + PartAt(k)[j] + 1)],
        spans |-> headers.spans, end |-> headers.end]

ParseHead(k, bytes) ==
  LET first == Past(bytes, 0, {"crlf"})
  IN  IF \E i \in 0 .. 3 : At(bytes, first + i) \notin LineTokens(k)[i + 1] THEN None
      ELSE HeadOf(k, first, HeaderSpans(bytes, first + 4, <<>>))
-----------------------------------------------------------------------------
FaultyFromHeader(view, bytes, span) ==
  [view |-> Expect(view, Rg(span.name.start, span.value.end + 1)),
   name |-> Expect(view, span.name),
   value |-> Expect(view, span.value)]

(* from_header: the header goes on to the CRLF, past trailing whitespace. *)
FromHeader(view, bytes, span) ==
  [view |-> Expect(view, Rg(span.name.start, FindCrlf(bytes, span.value.end) + 1)),
   name |-> Expect(view, span.name),
   value |-> Expect(view, span.value)]

(* headers_with_name(name).next(): the bytes of the first one's value.      *)
HeaderValue(bytes, spans, name) ==
  LET named == SelectSeq(spans, LAMBDA s : Slice(bytes, s.name) = <<name>>)
  IN  IF named = <<>> THEN None ELSE Slice(bytes, Head(named).value)

(* request_body_info and response_body_info. *)
FaultyBodyInfo(k, code, te, cl) ==
  IF k = "response" /\ code = "204" THEN "none"
  ELSE IF cl # None THEN IF Len(cl) = 1 /\ cl[1] \in DOMAIN Num THEN "length" ELSE Err
  ELSE IF te # None THEN IF te = <<"chunked">> THEN "chunked" ELSE Err
  ELSE IF k = "request" THEN "none" ELSE Err

BodyInfo(k, code, te, cl) ==
  IF k = "response" /\ code = "204" THEN "none"
  ELSE IF te # None THEN IF te = <<"chunked">> THEN "chunked" ELSE Err
  ELSE IF cl # None THEN IF Len(cl) = 1 /\ cl[1] \in DOMAIN Num THEN "length" ELSE Err
  ELSE IF k = "request" THEN "none" ELSE Err

Content(view, content_type) == IF content_type = <<"json">> THEN ParseJson(store, view) ELSE None

Body(view, content, chunks, trailers) ==
  IF content = Err THEN Err
  ELSE [view |-> view, content |-> content, chunks |-> chunks, trailers |-> trailers]

BodyWith(body, content_type) == Body(body, Content(body, content_type), None, <<>>)
ParseBody(view, r, content_type) == BodyWith(Expect(view, r), content_type)
-----------------------------------------------------------------------------
(* parse_chunked_body.  A chunk that the view does not hold whole fails the *)
(* code's expect() before the missing CRLF is seen.                         *)
ChunkSize(line) ==
  IF line # <<>> /\ line[1] \in DOMAIN Num /\ Tail(line) \in {<<>>, <<"ext">>}
    THEN Num[line[1]]
  ELSE Err

RECURSIVE ParseChunks(_, _, _, _)
AddChunk(view, bytes, end, chunk, chunks) ==
  IF chunk = Panic THEN Panic
  ELSE IF At(bytes, end) # "crlf" THEN Err
  ELSE ParseChunks(view, bytes, end + 1, Append(chunks, chunk))

SizedChunk(view, bytes, start, size, chunks) ==
  CASE size = Err -> Err
    [] size = 0 -> [chunks |-> chunks, end |-> start]
    [] OTHER -> AddChunk(view, bytes, start + size, Expect(view, Rg(start, start + size)), chunks)

ChunkLine(view, bytes, at, size_end, chunks) ==
  IF size_end = None THEN Err
  ELSE SizedChunk(view, bytes, size_end + 1, ChunkSize(Slice(bytes, Rg(at, size_end))), chunks)

ParseChunks(view, bytes, at, chunks) ==
  ChunkLine(view, bytes, at, FindCrlf(bytes, at), chunks)

(* parse_trailers: whitespace before the value is skipped, not the one      *)
(* after it.                                                                *)
RECURSIVE ParseTrailers(_, _, _, _)
Trailer(view, bytes, at, colon, line_end) ==
  [view |-> Expect(view, Rg(at, line_end + 1)),
   name |-> Expect(view, Rg(at, colon)),
   value |-> Expect(view, Rg(Past(bytes, colon + 1, {"ws"}), line_end))]

TrailerLine(view, bytes, at, line_end, trailers) ==
  LET colons == {i \in at .. line_end - 1 : At(bytes, i) = ":"}
  IN  IF line_end = at THEN [trailers |-> trailers, end |-> at + 1]
      ELSE IF line_end = None THEN Err
      ELSE IF colons = {} THEN Err
      ELSE ParseTrailers(view, bytes, line_end + 1,
             Append(trailers, Trailer(view, bytes, at, Min(colons), line_end)))

ParseTrailers(view, bytes, at, trailers) ==
  TrailerLine(view, bytes, at, FindCrlf(bytes, at), trailers)

(* The content is parsed from the chunks' data only.                        *)
ChunkedContent(view, chunks, content_type) ==
  IF chunks = <<>> THEN None
  ELSE Content(Subview(view, NewFromIter(FlattenSeq(chunks))), content_type)

ChunkedBody(view, start, chunks, rest, content_type) ==
  IF rest = Err THEN Err
  ELSE Body(Expect(view, Rg(start, rest.end)), ChunkedContent(view, chunks, content_type),
            chunks, rest.trailers)

AfterChunks(view, bytes, start, parsed, content_type) ==
  IF parsed \in {Err, Panic} THEN parsed
  ELSE ChunkedBody(view, start, parsed.chunks,
                   ParseTrailers(view, bytes, parsed.end, <<>>), content_type)

ParseChunkedBody(view, bytes, start, content_type) ==
  AfterChunks(view, bytes, start, ParseChunks(view, bytes, start, <<>>), content_type)

(* The body, None if there is none, or the failure. *)
FramedBody(view, bytes, start, info, cl, ct) ==
  CASE info = Err -> Err
    [] info = "none" -> None
    [] info = "chunked" -> ParseChunkedBody(view, bytes, start, ct)
    [] info = "length" /\ Num[cl[1]] = 0 -> None
    [] info = "length" /\ start + Num[cl[1]] > Len(bytes) -> Err
    [] OTHER -> ParseBody(view, Rg(start, start + Num[cl[1]]), ct)

MessageBody(k, view, bytes, head, te, cl, ct) ==
  FramedBody(view, bytes, head.end, BodyInfo(k, Slice(bytes, head.parts[1])[1], te, cl), cl, ct)

(* parse_request and parse_response.  The first line is taken to end with   *)
(* the first CRLF of the source.                                            *)
Message(view, bytes, head, body, end) ==
  [view |-> Expect(view, Rg(0, end)),
   line |-> Expect(view, Rg(0, FindCrlf(bytes, 0) + 1)),
   parts |-> [j \in 1 .. 2 |-> Expect(view, head.parts[j])],
   headers |-> [j \in DOMAIN head.spans |-> FromHeader(view, bytes, head.spans[j])],
   body |-> body]

AfterBody(view, bytes, head, body) ==
  IF body \in {Err, Panic} THEN body
  ELSE Message(view, bytes, head, body,
               head.end + IF body = None THEN 0 ELSE RsLen(body.view))

AfterHead(k, view, bytes, head) ==
  LET value(name) == HeaderValue(bytes, head.spans, name)
  IN  IF head = None THEN Err
      ELSE AfterBody(view, bytes, head,
             MessageBody(k, view, bytes, head, value("te"), value("cl"), value("ct")))

ParseBytesAs(k, view, bytes) == AfterHead(k, view, bytes, ParseHead(k, bytes))
ParseMessage(k, view) == ParseBytesAs(k, view, Bytes(store, view))
-----------------------------------------------------------------------------
(* Redaction: what is left of an element without the part that is hidden.   *)
WithoutValue(header) == Subview(header.view, Without(header.view, header.value))

WithoutTarget(m) == Without(m.line, m.parts[2])

FaultyWithoutData(k, m) ==
  LET hidden == (IF k = "request" THEN <<m.parts[2]>> ELSE <<>>)
                  \o [j \in DOMAIN m.headers |-> m.headers[j].view]
                  \o (IF m.body = None THEN <<>>
                      ELSE IF m.body.chunks = None THEN <<m.body.view>> ELSE m.body.chunks)
  IN  FoldLeft(Without, m.view, hidden)

WithoutData(k, m) ==
  LET hidden == (IF k = "request" THEN <<m.parts[2]>> ELSE <<>>)
                  \o [j \in DOMAIN m.headers |-> m.headers[j].view]
                  \o (IF m.body = None THEN <<>> ELSE <<m.body.view>>)
  IN  FoldLeft(Without, m.view, hidden)

ContentData(body) ==
  IF body.chunks = None THEN Bytes(store, body.view)
  ELSE FlattenSeq([j \in DOMAIN body.chunks |-> Bytes(store, body.chunks[j])])
-----------------------------------------------------------------------------
(* The sender.  A message it chooses has the fields of Shapes; it frames    *)
(* the body as RFC 9112 has it.                                             *)
HeaderTokens(h) ==
  <<h.name, ":">> \o (IF h.ws THEN <<"ws">> ELSE <<>>) \o h.value
    \o (IF h.ws THEN <<"ws">> ELSE <<>>) \o <<"crlf">>

ChunkTokens(c) ==
  LET size == CHOOSE d \in DOMAIN Num : Num[d] = Len(c.data)
  IN  <<size>> \o (IF c.ext THEN <<"ext">> ELSE <<>>) \o <<"crlf">> \o c.data \o <<"crlf">>

Has(m, name, value) ==
  \E j \in DOMAIN m.headers : m.headers[j].name = name /\ m.headers[j].value = <<value>>

Framing(m) ==
  CASE kind = "response" /\ m.code = "204" -> "none"
    [] Has(m, "te", "chunked") -> "chunked"
    [] Has(m, "te", "gzip") -> "unsupported"
    [] \E d \in DOMAIN Num : Has(m, "cl", d) -> "length"
    [] OTHER -> IF kind = "request" THEN "none" ELSE "unsupported"

Shapes ==
  {m \in [blank : BOOLEAN, code : {"200", "204"}, headers : HeaderLists,
          data : Payloads \cup {<<>>}, chunks : ChunkLists, trailers : TrailerLists] :
     /\ kind = "request" => m.code = "200"
     /\ m.data # <<>> => Framing(m) = "length"
     /\ Framing(m) = "length" => \E d \in DOMAIN Num : Num[d] = Len(m.data) /\ Has(m, "cl", d)
     /\ Framing(m) # "chunked" => m.chunks = <<>> /\ m.trailers = <<>>}

DocumentText(d) == d.pad \o TextOf(d.tree) \o d.pad
PayloadOf(m) == m.data \o FlattenSeq([j \in DOMAIN m.chunks |-> m.chunks[j].data])

(* Framed as the parser supports it, and a document where JSON is announced.*)
Supported(m) ==
  /\ Framing(m) # "unsupported"
  /\ Has(m, "ct", "json") /\ PayloadOf(m) # <<>> =>
       \E d \in Documents : DocumentText(d) = PayloadOf(m)

LineOf(m) ==
  IF kind = "request" THEN <<"GET", "/", "ver", "crlf">> ELSE <<"ver", m.code, "OK", "crlf">>

(* The pieces of a message in the order they are written. *)
Pieces(m) ==
  LET tokens(hs) == [j \in DOMAIN hs |-> HeaderTokens(hs[j])]
  IN  [blank |-> IF m.blank THEN <<<<"crlf">>>> ELSE <<>>,
       line |-> <<LineOf(m)>>, headers |-> tokens(m.headers), empty |-> <<<<"crlf">>>>,
       data |-> <<m.data>>,
       chunks |-> [j \in DOMAIN m.chunks |-> ChunkTokens(m.chunks[j])],
       final |-> IF Framing(m) = "chunked" THEN <<<<"0", "crlf">>>> ELSE <<>>,
       trailers |-> tokens(m.trailers),
       close |-> IF Framing(m) = "chunked" THEN <<<<"crlf">>>> ELSE <<>>]

Fields == <<"blank", "line", "headers", "empty", "data", "chunks", "final", "trailers", "close">>

Written(m, upto) ==
  FlattenSeq(FlattenSeq([f \in 1 .. upto |-> Pieces(m)[Fields[f]]]))

(* Where the j-th piece of a field begins, for a message that begins at 0.  *)
Where(m, f, j) == Len(Written(m, f - 1)) + Len(FlattenSeq(SubSeq(Pieces(m)[Fields[f]], 1, j - 1)))

(* The offsets of the tokens of a header or trailer that follow the first,  *)
(* and of those that are its value.                                         *)
HeaderAt(h, at) ==
  LET start == at + 2 + IF h.ws THEN 1 ELSE 0
  IN  [all |-> at .. at + Len(HeaderTokens(h)) - 1, name |-> {at},
       value |-> start .. start + Len(h.value) - 1]

(* A trailer's value keeps the whitespace at the end of its line. *)
TrailerAt(h, at) ==
  [HeaderAt(h, at) EXCEPT !.value =
     IF h.ws THEN @ \cup {at + Len(HeaderTokens(h)) - 2} ELSE @]

DataAt(c, at) ==
  LET start == at + Len(ChunkTokens(c)) - 1 - Len(c.data) IN start .. start + Len(c.data) - 1

(* The elements of a message that begins at `at`, as sets of offsets.       *)
Layout(m, at) ==
  LET line == at + Where(m, 2, 1)
      head == at + Len(Written(m, 4))
      end == at + Len(Written(m, 9))
      chunks == [j \in DOMAIN m.chunks |-> DataAt(m.chunks[j], at + Where(m, 6, j))]
      payload == (head .. head + Len(m.data) - 1) \cup UNION Range(chunks)
  IN  [shape |-> m, whole |-> at .. end - 1, line |-> line .. line + 3,
       parts |-> [j \in 1 .. 2 |-> {line + PartAt(kind)[j]}],
       headers |-> [j \in DOMAIN m.headers |-> HeaderAt(m.headers[j], at + Where(m, 3, j))],
       body |-> head .. end - 1, chunks |-> chunks, payload |-> payload,
       trailers |-> [j \in DOMAIN m.trailers |-> TrailerAt(m.trailers[j], at + Where(m, 8, j))]]

Init ==
  /\ kind \in {"request", "response"}
  /\ text = <<>> /\ sent = <<>>
  /\ store = None /\ gap = 0 /\ indices = <<>>
  /\ pos = 0 /\ count = 0 /\ last = Idle

Send ==
  /\ store = None /\ Len(sent) < MaxMessages
  /\ \E m \in Shapes :
       /\ sent # <<>> => Len(text) + Len(Written(m, 9)) <= MaxTokens
       /\ text' = text \o Written(m, 9)
       /\ sent' = Append(sent, Layout(m, Len(text)))
  /\ UNCHANGED <<kind, store, gap, indices, pos, count, last>>

(* The transcript holds the first n tokens and a byte of something else,    *)
(* which the view leaves out.                                               *)
Begin ==
  /\ store = None
  /\ \E n \in 0 .. Len(text) : \E g \in 0 .. n :
       /\ store' = SubSeq(text, 1, g) \o <<"foreign">> \o SubSeq(text, g + 1, n)
       /\ gap' = g
       /\ indices' = NewFromIter(<<Rg(0, g), Rg(g + 1, n + 1)>>)
  /\ UNCHANGED <<kind, text, sent, pos, count, last>>

(* Iterator::next: the position moves on only past a message that parses.   *)
Return(res) ==
  /\ last' = res
  /\ IF res \in {None, Err, Panic} THEN UNCHANGED <<pos, count>>
     ELSE pos' = pos + RsLen(res.view) /\ count' = count + 1

NextMessage ==
  /\ store # None /\ last # Panic
  /\ Return(IF pos >= RsLen(indices) THEN None
            ELSE ParseMessage(kind, Expect(indices, Rg(pos, RsLen(indices)))))
  /\ UNCHANGED <<kind, text, sent, store, gap, indices>>

Step ==
  \/ Send \/ Begin \/ NextMessage

Spec == Init /\ [][Step]_vars
-----------------------------------------------------------------------------
Place(offsets) == {IF p < gap THEN p ELSE p + 1 : p \in offsets}
Is(view, offsets) == Normal(view) /\ Values(view) = Place(offsets)
Yielded == last \notin {Idle, None, Err, Panic}

HeadersAre(headers, at) ==
  /\ Len(headers) = Len(at)
  /\ \A j \in DOMAIN at :
       /\ Is(headers[j].view, at[j].all)
       /\ Is(headers[j].name, at[j].name) /\ Is(headers[j].value, at[j].value)

BodyIs(body, m) ==
  /\ Is(body.view, m.body)
  /\ body.chunks = None => Framing(m.shape) = "length"
  /\ body.chunks # None =>
       /\ Framing(m.shape) = "chunked" /\ Len(body.chunks) = Len(m.chunks)
       /\ \A j \in DOMAIN m.chunks : Is(body.chunks[j], m.chunks[j])
  /\ HeadersAre(body.trailers, m.trailers)
  /\ (body.content # None) = (Has(m.shape, "ct", "json") /\ m.payload # {})
  /\ body.content # None =>
       /\ Is(body.content.view, m.payload)
       /\ \A d \in Documents : DocumentText(d) = PayloadOf(m.shape)
                               => ShowsTree(store, body.content.root, d.tree)

(* Every element of every message of a transcript is found at the indices   *)
(* of the store where the sender's bytes of it are, whatever the view       *)
(* leaves out and whatever came before; so each message ends where the next *)
(* begins (types.rs: each type "with span tracking").  The first line is    *)
(* not, if an empty line precedes it (see README).                          *)
SpansExact ==
  Yielded =>
    LET m == sent[count]
    IN  /\ Is(last.view, m.whole)
        /\ ~m.shape.blank => Is(last.line, m.line)
        /\ \A j \in 1 .. 2 : Is(last.parts[j], m.parts[j])
        /\ HeadersAre(last.headers, m.headers)
        /\ (last.body = None) = (m.body = {})
        /\ last.body # None => BodyIs(last.body, m)

(* What redaction leaves shows the framing and no more: types.rs:284, "the  *)
(* indices of the request excluding the target, headers and body"; of a     *)
(* header, name and whitespace; and the content of a body is what the       *)
(* sender had to send, without the framing of its chunks.                   *)
RedactionExact ==
  Yielded =>
    LET shape == sent[count].shape
        rest == IF kind = "request" THEN <<"GET", "ver", "crlf">> ELSE LineOf(shape)
    IN  /\ Bytes(store, WithoutData(kind, last)) =
             (IF shape.blank THEN <<"crlf">> ELSE <<>>) \o rest \o <<"crlf">>
        /\ kind = "request" /\ ~shape.blank => Bytes(store, WithoutTarget(last)) = rest
        /\ \A j \in DOMAIN last.headers :
             Bytes(store, WithoutValue(last.headers[j])) =
               HeaderTokens([shape.headers[j] EXCEPT !.value = <<>>])
        /\ last.body # None => ContentData(last.body) = PayloadOf(shape)
        /\ last.body # None /\ last.body.content # None =>
             \A d \in Documents : DocumentText(d) = PayloadOf(shape)
                                  => RedactsTree(store, last.body.content.root, d.tree)

(* The iterator refuses no message that arrived whole and is framed in a    *)
(* way it supports, yields none that is cut off, and ends with the last.    *)
(* Only a transcript that ends within the data of a chunk makes it panic.   *)
NothingRefused ==
  LET whole == {j \in DOMAIN sent : sent[j].whole \subseteq 0 .. RsLen(indices) - 1}
      m == sent[count + 1]
      cut == {p \in m.whole : p >= RsLen(indices)}
  IN  /\ Yielded => count \in whole
      /\ last = None => \A j \in DOMAIN sent : j > count => Min(sent[j].whole) >= RsLen(indices)
      /\ last = Err => cut # {} \/ ~Supported(m.shape)
      /\ last = Panic => \E j \in DOMAIN m.chunks : Min(cut) \in m.chunks[j]
=============================================================================
