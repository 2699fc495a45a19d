--------------------------------- MODULE Json ---------------------------------
(***************************************************************************)
(* The JSON documents of spansy: the grammar (src/spansy/src/json/json.pest)*)
(* as the parser generated from it reads it, the views json/span.rs selects *)
(* for its rules, and the redactions of json/types.rs.  A token "q" is a    *)
(* quotation mark, "n" a digit; "ws" and "crlf" are whitespace.             *)
(***************************************************************************)
EXTENDS View

CONSTANT Err   (* Result::Err                                               *)

White == {"ws", "crlf"}
At(bytes, i) == IF i < Len(bytes) THEN bytes[i + 1] ELSE None

(* The first offset from i on whose token is not in, or is, a set.          *)
Past(bytes, i, tokens) == Min({k \in i .. Len(bytes) : At(bytes, k) \notin tokens})
Skip(bytes, i) == Past(bytes, i, White)

(* A match: the rule, its span, the matches within, and where it ends.      *)
Match(rule, span, elems, end) == [rule |-> rule, span |-> span, elems |-> elems, end |-> end]

(* string within quoted_string, from the quotation mark at i.  The grammar  *)
(* skips whitespace before the string as it does between any two tokens.    *)
Closed(start, ends) ==
  IF ends = {} THEN Err ELSE Match("string", Rg(start, Min(ends)), <<>>, Min(ends) + 1)

MatchString(bytes, i) ==
  LET start == Skip(bytes, i + 1)
  IN  Closed(start, {k \in start .. Len(bytes) - 1 : At(bytes, k) = "q"})

RECURSIVE MatchValue(_, _)

MatchNumber(bytes, i) ==
  LET end == Past(bytes, i, {"n"}) IN Match("number", Rg(i, end), <<>>, end)

PairOf(i, key, value) ==
  IF value = Err THEN Err ELSE Match("pair", Rg(i, value.end), <<key, value>>, value.end)

AfterKey(bytes, i, key, colon) ==
  IF At(bytes, colon) # ":" THEN Err
  ELSE PairOf(i, key, MatchValue(bytes, Skip(bytes, colon + 1)))

AfterQuote(bytes, i, key) ==
  IF key = Err THEN Err ELSE AfterKey(bytes, i, key, Skip(bytes, key.end))

MatchPair(bytes, i) ==
  IF At(bytes, i) # "q" THEN Err ELSE AfterQuote(bytes, i, MatchString(bytes, i))

MatchElem(bytes, i, close) ==
  IF close = "}" THEN MatchPair(bytes, i) ELSE MatchValue(bytes, i)

(* The elements of an array or object after `elems`, up to the bracket.     *)
RECURSIVE MatchElems(_, _, _, _)
AfterElem(bytes, next, close, elems) ==
  CASE At(bytes, next) = close -> [elems |-> elems, end |-> next + 1]
    [] At(bytes, next) = "," -> MatchElems(bytes, Skip(bytes, next + 1), close, elems)
    [] OTHER -> Err

AddElem(bytes, close, elems, elem) ==
  IF elem = Err THEN Err
  ELSE AfterElem(bytes, Skip(bytes, elem.end), close, Append(elems, elem))

MatchElems(bytes, i, close, elems) ==
  IF elems = <<>> /\ At(bytes, i) = close THEN [elems |-> <<>>, end |-> i + 1]
  ELSE AddElem(bytes, close, elems, MatchElem(bytes, i, close))

Nest(i, rule, within) ==
  IF within = Err THEN Err ELSE Match(rule, Rg(i, within.end), within.elems, within.end)

MatchNested(bytes, i, rule, close) ==
  Nest(i, rule, MatchElems(bytes, Skip(bytes, i + 1), close, <<>>))

MatchValue(bytes, i) ==
  CASE At(bytes, i) = "q" -> MatchString(bytes, i)
    [] At(bytes, i) = "n" -> MatchNumber(bytes, i)
    [] At(bytes, i) = "[" -> MatchNested(bytes, i, "array", "]")
    [] At(bytes, i) = "{" -> MatchNested(bytes, i, "object", "}")
    [] OTHER -> Err

(* from_pair of every type: the span of the match in the document's view.   *)
RECURSIVE FromPair(_, _)
FromPair(view, match) ==
  [rule |-> match.rule, view |-> Expect(view, match.span),
   elems |-> [j \in DOMAIN match.elems |-> FromPair(view, match.elems[j])]]

(* parse: one value, and nothing but whitespace around it.                  *)
Document(view, bytes, value) ==
  IF value = Err THEN Err
  ELSE IF Skip(bytes, value.end) # Len(bytes) THEN Err
  ELSE [view |-> view, root |-> FromPair(view, value)]

ParseBytes(view, bytes) == Document(view, bytes, MatchValue(bytes, Skip(bytes, 0)))
ParseJson(store, view) == ParseBytes(view, Bytes(store, view))
-----------------------------------------------------------------------------
(* KeyValue::without_value, Array::without_values, Object::without_pairs.   *)
PairWithoutValue(pair) == Subview(pair.view, Without(pair.view, pair.elems[2].view))

ArrayWithoutValues(array) ==
  LET bracket(k) == Iter(Expect(array.view, Rg(k, k + 1)))
  IN  Subview(array.view, Collect(Union(bracket(0), bracket(RsLen(array.view) - 1))))

ObjectWithoutPairs(object) ==
  Subview(object.view,
    FoldLeft(LAMBDA rest, pair : Without(rest, pair.view), object.view, object.elems))

WithoutPart(value) ==
  CASE value.rule = "pair" -> PairWithoutValue(value)
    [] value.rule = "array" -> ArrayWithoutValues(value)
    [] value.rule = "object" -> ObjectWithoutPairs(value)
-----------------------------------------------------------------------------
(* What a document is: a tree, and its text.  A string has `lead`, the      *)
(* whitespace it begins with, apart from its other characters.              *)
Quoted(s) == <<"q">> \o s.lead \o s.chars \o <<"q">>

RECURSIVE TextOf(_)
TextOf(tree) ==
  LET joined == FlattenSeq([j \in DOMAIN tree.elems |->
                  (IF j = 1 THEN <<>> ELSE <<",">>) \o TextOf(tree.elems[j])])
  IN  CASE tree.rule = "number" -> tree.chars
        [] tree.rule = "string" -> Quoted(tree)
        [] tree.rule = "pair" -> TextOf(tree.elems[1]) \o <<":", "ws">> \o TextOf(tree.elems[2])
        [] tree.rule = "array" -> <<"[">> \o joined \o <<"]">>
        [] tree.rule = "object" -> <<"{">> \o joined \o <<"crlf", "}">>

(* What a view of it shows: of a string, neither the quotation marks nor    *)
(* the whitespace it begins with (see README).                              *)
Shown(tree) == IF tree.rule = "string" THEN tree.chars ELSE TextOf(tree)

(* What a redaction leaves of it. *)
Redacted(tree) ==
  LET commas == [j \in 1 .. Len(tree.elems) - 1 |-> ","]
      key == tree.elems[1]
      value == tree.elems[2]
  IN  CASE tree.rule = "array" -> <<"[", "]">>
        [] tree.rule = "object" -> <<"{">> \o commas \o <<"crlf", "}">>
        [] tree.rule = "pair" ->
             TextOf(key) \o <<":", "ws">>
               \o IF value.rule = "string" THEN <<"q">> \o value.lead \o <<"q">> ELSE <<>>

RECURSIVE ShowsTree(_, _, _)
ShowsTree(store, value, tree) ==
  /\ value.rule = tree.rule /\ Bytes(store, value.view) = Shown(tree)
  /\ Len(value.elems) = Len(tree.elems)
  /\ \A j \in DOMAIN tree.elems : ShowsTree(store, value.elems[j], tree.elems[j])

RECURSIVE RedactsTree(_, _, _)
RedactsTree(store, value, tree) ==
  /\ value.rule \in {"pair", "array", "object"} =>
       Bytes(store, WithoutPart(value)) = Redacted(tree)
  /\ \A j \in DOMAIN tree.elems : RedactsTree(store, value.elems[j], tree.elems[j])
=============================================================================
