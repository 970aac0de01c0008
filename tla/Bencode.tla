------------------------------ MODULE Bencode ------------------------------
(***************************************************************************)
(* The bencode decoder and encoder (internal/bencode: decode.go,           *)
(* encode.go, value.go, limits.go) as operators on sequences of bytes.     *)
(* A value is a record whose one field says its type.  Decoding at         *)
(* position p gives the value and the position behind it, or the error.    *)
(* The operators are recursive, as the decoder is: they are for TLC.       *)
(***************************************************************************)
EXTENDS Lengths, Sequences, SequencesExt, TLC

CONSTANTS
  MaxStringLength,  \* limits.go
  MaxNestingDepth   \* limits.go

Minus  == 45
Zero   == 48
Digit  == Zero .. 57
Colon  == 58
SmallD == 100
SmallE == 101
SmallI == 105
SmallL == 108

(* The four types of value. *)
ByteString(s) == [string |-> s]
Integer(n)    == [integer |-> n]
List(l)       == [list |-> l]
Dictionary(d) == [dictionary |-> d]

IsByteString(v) == DOMAIN v = {"string"}
IsInteger(v)    == DOMAIN v = {"integer"}
IsList(v)       == DOMAIN v = {"list"}
IsDictionary(v) == DOMAIN v = {"dictionary"}

Decoded(v, p) == [err |-> "nil", value |-> v, pos |-> p]
Err(e)        == [err |-> e]
Failed(r)     == r.err # "nil"

-----------------------------------------------------------------------------
(* Decoding *)

(* readString: the position of the first b from p on, or 0. *)
ReadUntil(s, p, b) ==
  LET found == {q \in p .. Len(s) : s[q] = b} IN
  IF found = {} THEN 0 ELSE Min(found)

Number(digits) == FoldLeft(LAMBDA n, c : 10 * n + c - Zero, 0, digits)

Negative(text)  == text # <<>> /\ Head(text) = Minus
Unsigned(text)  == IF Negative(text) THEN Tail(text) ELSE text
ValidIntegerStringMutant(text) ==   \* a bug: leading zeros are accepted
  /\ Unsigned(text) # <<>>
  /\ ~(Negative(text) /\ Unsigned(text) = <<Zero>>)
  /\ ToSet(Unsigned(text)) \subseteq Digit
ValidIntegerString(text) ==
  /\ Unsigned(text) # <<>>
  /\ ~(Negative(text) /\ Unsigned(text) = <<Zero>>)
  /\ Len(Unsigned(text)) > 1 => Head(Unsigned(text)) # Zero
  /\ ToSet(Unsigned(text)) \subseteq Digit

ParseInt(text) == IF Negative(text) THEN -Number(Tail(text)) ELSE Number(text)

DecodeInteger(s, p) ==
  LET end  == ReadUntil(s, p + 1, SmallE)
      text == SubSeq(s, p + 1, end - 1)
  IN  CASE end = 0                   -> Err("ErrUnexpectedEOF")
        [] ~ValidIntegerString(text) -> Err("ErrInvalidInteger")
        [] ~InRange(ParseInt(text))  -> Err("ErrInvalidInteger")
        [] OTHER                     -> Decoded(Integer(ParseInt(text)), end + 1)

(* The length is any run of digits: leading zeros are accepted here. *)
DecodeByteString(s, p) ==
  LET end  == ReadUntil(s, p, Colon)
      text == SubSeq(s, p, end - 1)
      n    == Number(text)
  IN  CASE end = 0                        -> Err("ErrUnexpectedEOF")
        [] ~(ToSet(text) \subseteq Digit) -> Err("ErrInvalidStringLen")
        [] n > MaxInt                     -> Err("ErrInvalidStringLen")
        [] n > MaxStringLength            -> Err("ErrLimitExceeded")
        [] end + n > Len(s)               -> Err("ErrUnexpectedEOF")
        [] OTHER -> Decoded(ByteString(SubSeq(s, end + 1, end + n)), end + n + 1)

(* Byte-wise order of keys. *)
Before(a, b) ==
  \E n \in 0 .. Len(b) - 1 :
    /\ n <= Len(a)
    /\ SubSeq(a, 1, n) = SubSeq(b, 1, n)
    /\ n = Len(a) \/ a[n + 1] < b[n + 1]

(* The keys of a dictionary must ascend; last holds the key before, if any. *)
Ascends(last, key) == last # <<>> => Before(last[1], key)

RECURSIVE DecodeValue(_, _, _), Items(_, _, _, _), Entries(_, _, _, _, _, _)

Items(s, p, depth, list) ==
  IF p > Len(s) THEN Err("ErrUnexpectedEOF")
  ELSE IF s[p] = SmallE THEN Decoded(List(list), p + 1)
  ELSE LET r == DecodeValue(s, p, depth) IN
       IF Failed(r) THEN r ELSE Items(s, r.pos, depth, Append(list, r.value))

(* A bug: the span starts at the key. *)
SpanMutant(key, value, p) == [start |-> p, end |-> value.pos]
(* Where the value of a key stands: from behind the key to behind the value. *)
Span(key, value, p) == [start |-> key.pos, end |-> value.pos]

(* decodeDictionary and decodeDictionaryWithSpans are the same loop. *)
Entries(s, p, depth, dict, spans, last) ==
  IF p > Len(s) THEN Err("ErrUnexpectedEOF")
  ELSE IF s[p] = SmallE
  THEN [err |-> "nil", value |-> Dictionary(dict), pos |-> p + 1, spans |-> spans]
  ELSE LET k == DecodeValue(s, p, depth)
           v == DecodeValue(s, k.pos, depth)
       IN  CASE Failed(k)                        -> k
             [] ~IsByteString(k.value)           -> Err("ErrNonStringKey")
             [] ~Ascends(last, k.value.string)   -> Err("ErrUnsortedKeys")
             [] Failed(v)                        -> v
             [] OTHER ->
                  Entries(s, v.pos, depth, (k.value.string :> v.value) @@ dict,
                          (k.value.string :> Span(k, v, p)) @@ spans,
                          <<k.value.string>>)

Nested(depth) == depth + 1
DecodeList(s, p, depth) ==
  IF Nested(depth) > MaxNestingDepth THEN Err("ErrLimitExceeded")
  ELSE Items(s, p + 1, Nested(depth), <<>>)
DecodeDictionary(s, p, depth) ==
  IF Nested(depth) > MaxNestingDepth THEN Err("ErrLimitExceeded")
  ELSE Entries(s, p + 1, Nested(depth), <<>>, <<>>, <<>>)

DecodeValue(s, p, depth) ==
  CASE p > Len(s)     -> Err("ErrUnexpectedEOF")
    [] s[p] = SmallI  -> DecodeInteger(s, p)
    [] s[p] = SmallL  -> DecodeList(s, p, depth)
    [] s[p] = SmallD  -> DecodeDictionary(s, p, depth)
    [] s[p] \in Digit -> DecodeByteString(s, p)
    [] OTHER          -> Err("ErrInvalidTypeMarker")

AtEnd(s, r) == r.pos > Len(s)

DecodeStrict(s) ==
  LET r == DecodeValue(s, 1, 0) IN
  IF ~Failed(r) /\ ~AtEnd(s, r) THEN Err("ErrTrailingData") ELSE r

DecodeWithSpans(s) ==
  CASE s = <<>>            -> Err("ErrUnexpectedEOF")
    [] Head(s) # SmallD    -> Err("ErrInvalidTypeMarker")
    [] OTHER               -> DecodeDictionary(s, 1, 0)

-----------------------------------------------------------------------------
(* Encoding *)

RECURSIVE Decimal(_), Encode(_)

Decimal(n) ==
  IF n < 10 THEN <<Zero + n>> ELSE Append(Decimal(n \div 10), Zero + (n % 10))

EncodeByteString(s) == Decimal(Len(s)) \o <<Colon>> \o s

EncodeInteger(n) ==
  <<SmallI>> \o (IF n < 0 THEN <<Minus>> \o Decimal(-n) ELSE Decimal(n)) \o <<SmallE>>

(* A bug: the keys are written in the order of a map, here the opposite one. *)
SortedMutant(keys) == Reverse(SetToSortSeq(keys, Before))
Sorted(keys) == SetToSortSeq(keys, Before)

Encode(v) ==
  CASE IsByteString(v) -> EncodeByteString(v.string)
    [] IsInteger(v)    -> EncodeInteger(v.integer)
    [] IsList(v)       -> <<SmallL>> \o FlattenSeq([i \in DOMAIN v.list |->
                                                       Encode(v.list[i])]) \o <<SmallE>>
    [] IsDictionary(v) ->
         LET keys == Sorted(DOMAIN v.dictionary) IN
         <<SmallD>> \o FlattenSeq([i \in DOMAIN keys |->
                         EncodeByteString(keys[i]) \o Encode(v.dictionary[keys[i]])])
                    \o <<SmallE>>

=============================================================================
