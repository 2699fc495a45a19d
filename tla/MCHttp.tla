-------------------------------- MODULE MCHttp --------------------------------
(* Messages with up to two chunks, whose data may look like the end of a    *)
(* line, up to four headers and two trailers; one of any of these shapes,   *)
(* or more that are short enough, one of which may be in chunks.            *)
EXTENDS Http

H(name, value, ws) == [name |-> name, value |-> value, ws |-> ws]
Chunked == H("te", <<"chunked">>, FALSE)
Json == H("ct", <<"json">>, FALSE)
Plain == H("x", <<"v">>, TRUE)

Number == [rule |-> "number", chars |-> <<"n", "n">>, elems |-> <<>>]
String(lead, chars) == [rule |-> "string", lead |-> lead, chars |-> chars, elems |-> <<>>]
Array(elems) == [rule |-> "array", elems |-> elems]
Pair(key, value) == [rule |-> "pair", elems |-> <<String(<<>>, <<key>>), value>>]
Object(pairs) == [rule |-> "object", elems |-> pairs]

SomeDocuments ==
  {[pad |-> <<"crlf">>, tree |-> Number],
   [pad |-> <<>>, tree |-> Array(<<Object(<<>>), String(<<"ws">>, <<"a", "ws">>)>>)],
   [pad |-> <<"ws">>,
    tree |-> Object(<<Pair("a", String(<<"ws">>, <<"b">>)), Pair("b", Array(<<Number>>))>>)]}

SomeTexts == {DocumentText(d) : d \in SomeDocuments}
SomePayloads == SomeTexts \cup {<<"n", "crlf", "n">>}
Lengths == {Len(p) : p \in SomePayloads}

SomeHeaders ==
  {<<>>, <<Chunked>>, <<H("te", <<"gzip">>, FALSE)>>, <<H("cl", <<"0">>, TRUE)>>,
   <<H("cl", <<"1">>, FALSE), Plain, Chunked, Json>>}
    \cup {<<H("x", <<>>, FALSE), Json, H("cl", <<ToString(n)>>, TRUE)>> : n \in Lengths}

(* A document in two chunks; the gap of the view parts it anywhere. *)
C(data, ext) == [data |-> data, ext |-> ext]
Halves(p) ==
  LET k == Len(p) \div 2 IN <<C(SubSeq(p, 1, k), FALSE), C(SubSeq(p, k + 1, Len(p)), TRUE)>>

SomeChunks ==
  {<<>>, <<C(<<"crlf">>, TRUE)>>} \cup {Halves(p) : p \in SomeTexts}

SomeTrailers == {<<>>, <<Plain, H("x", <<>>, FALSE)>>}
=============================================================================
