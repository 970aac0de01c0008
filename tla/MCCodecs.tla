------------------------------ MODULE MCCodecs ------------------------------
(* Codecs with the constants of the model-checking run. *)
EXTENDS Codecs

(* Bytes of the inputs: the names of the keys, "x", "h", "/", "." *)
Str(b)     == <<49, 58, b>>             \* a string of one byte
LongStr(b) == <<48>> \o Str(b)          \* the same with a leading zero
Int1(n)    == <<105, 48 + n, 101>>
MinusOne   == <<105, 45, 49, 101>>
Biggest    == <<105, 49, 50, 55, 101>>  \* 127
Hashed(n)  == Decimal(n) \o <<58>> \o [k \in 1 .. n |-> 104]

(* Everything a bencoded value is put together from, malformed parts too. *)
AnyTokens ==
  { <<100>>, <<101>>, <<108>>, Int1(0), MinusOne, <<105, 48>>, <<105, 49>>, <<105, 45>>,
    <<48>>, Str(97), Str(98), <<48, 58>> }

Info(length, name, pieceLength, pieces) ==
  <<100>> \o Str(108) \o length \o Str(110) \o name
          \o Str(112) \o pieceLength \o Str(115) \o pieces \o <<101>>
File(before, info, after) ==
  <<100>> \o before \o Str(105) \o info \o <<101>> \o after

(* An entry nobody reads, in the dictionary that ends the file. *)
WithEntry(file, entry) == SubSeq(file, 1, Len(file) - 1) \o Str(122) \o entry \o <<101>>

Announced  == Str(97) \o Str(120)
Plain      == Info(Int1(3), Str(120), Int1(2), Hashed(4))
FivePieces == File(Announced, Info(Int1(9), Str(120), Int1(2), Hashed(10)), <<>>)

(* Dictionaries of two keys, in and out of order. *)
Pairs ==
  LET keys   == {<<48, 58>>, Str(97), Str(98), LongStr(97), Int1(0),
                 <<50, 58, 97, 98>>}
      values == {<<48, 58>>, MinusOne, <<108, 101>>,
                 <<100>> \o Str(97) \o Int1(0) \o <<101>>}
  IN  {<<100>> \o k \o v \o l \o w \o <<101>> : k, l \in keys, v, w \in values}

(* Torrents of every length, and files that differ from a good one in one part. *)
AnyFiles ==
  {<<>>, FivePieces} \cup Pairs
  \cup {File(Announced, Info(l, n, p, h), <<>>) :
          l \in {Int1(0), Int1(1), Int1(2), Int1(3), MinusOne, Biggest},
          n \in {Str(120), LongStr(120), Str(46), Str(47), <<48, 58>>, Int1(1)},
          p \in {Int1(0), Int1(1), Int1(2), Biggest},
          h \in {Hashed(0), Hashed(1), Hashed(2), Hashed(4), Hashed(6)}}
  \cup {File(b, Plain, <<>>) :
          b \in {<<>>, Str(97) \o Int1(0), LongStr(97) \o LongStr(120),
                 Announced \o Str(98) \o <<108, 108>> \o Str(120) \o <<101, 101>>,
                 Announced \o Str(98) \o <<108>> \o Str(120) \o <<101>>,
                 Announced \o Str(98) \o Int1(0),
                 Announced \o Str(97) \o Str(120)}}
  \cup {WithEntry(File(Announced, info, <<>>), Int1(0)) :
          info \in {WithEntry(Plain, e) :
                     e \in {<<108>> \o Str(120) \o MinusOne \o <<101>>,
                           <<100>> \o LongStr(97) \o Biggest \o <<101>>}}}
  \cup {File(Announced, Int1(0), <<>>), File(Announced, Plain, <<101>>), Int1(0)}
=============================================================================
