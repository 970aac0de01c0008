------------------------------ MODULE Metainfo ------------------------------
(***************************************************************************)
(* Reading a .torrent file (internal/metainfo: parse.go, torrent.go,       *)
(* infohash.go): the file's bytes are decoded, taken apart, checked and    *)
(* turned into a torrent, or rejected.  The keys of the format are         *)
(* shortened to one letter each, which keeps their order; a hash of bytes  *)
(* is the bytes themselves.                                                *)
(***************************************************************************)
EXTENDS Bencode

CONSTANTS
  HashSize,  \* bytes of a piece hash (20)
  Files,     \* files that may be read
  Tokens,    \* what a file still being written may be extended by
  MaxBytes   \* bound: bytes of an extended file

VARIABLES
  data,     \* the bytes of the file
  torrent   \* what Parse made of them

fileVars == <<data, torrent>>

AnnounceKey     == <<97>>    \* "announce"
AnnounceListKey == <<98>>    \* "announce-list"
InfoKey         == <<105>>   \* "info"
LengthKey       == <<108>>   \* "length"
NameKey         == <<110>>   \* "name"
PieceLengthKey  == <<112>>   \* "piece length"
PiecesKey       == <<115>>   \* "pieces"

Dot        == 46
Separators == {47, 92}

(* GetString and GetInt succeed. *)
HasString(d, key) == key \in DOMAIN d /\ IsByteString(d[key])
HasInt(d, key)    == key \in DOMAIN d /\ IsInteger(d[key])

-----------------------------------------------------------------------------
(* Parse *)

ParseAnnounceList(root) ==
  AnnounceListKey \in DOMAIN root =>
    /\ IsList(root[AnnounceListKey])
    /\ \A tier \in ToSet(root[AnnounceListKey].list) :
         IsList(tier) /\ \A url \in ToSet(tier.list) : IsByteString(url)

ParseInfo(info) ==
  /\ HasString(info, NameKey)
  /\ HasInt(info, PieceLengthKey)
  /\ HasString(info, PiecesKey)
  /\ Len(info[PiecesKey].string) % HashSize = 0
  /\ HasInt(info, LengthKey)

ComputeInfoHash(info) == Encode(Dictionary(info))

Torrent(info) ==
  [name         |-> info[NameKey].string,
   pieceLength  |-> info[PieceLengthKey].integer,
   totalLength  |-> info[LengthKey].integer,
   pieceCount   |-> Len(info[PiecesKey].string) \div HashSize,
   infoHash     |-> ComputeInfoHash(info)]
NoTorrent == <<>>

CrossCheckInfoHash(span, hash) == SubSeq(data, span.start, span.end - 1) = hash

ValidateName(name) ==
  /\ name # <<>>
  /\ ToSet(name) \cap Separators = {}
  /\ Head(name) # Dot

Validate(t) ==
  /\ ValidLengths(t)
  /\ ValidateName(t.name)

Accepts(r) ==
  /\ ~Failed(r) /\ AtEnd(data, r)
  /\ LET root == r.value.dictionary
         info == root[InfoKey].dictionary
     IN  /\ HasString(root, AnnounceKey)
         /\ ParseAnnounceList(root)
         /\ InfoKey \in DOMAIN root /\ IsDictionary(root[InfoKey])
         /\ ParseInfo(info)
         /\ CrossCheckInfoHash(r.spans[InfoKey], ComputeInfoHash(info))
         /\ Validate(Torrent(info))

Parse ==
  LET r == DecodeWithSpans(data) IN
  /\ torrent = NoTorrent
  /\ Accepts(r)
  /\ torrent' = Torrent(r.value.dictionary[InfoKey].dictionary)
  /\ UNCHANGED data

-----------------------------------------------------------------------------
FileInit == data \in Files /\ torrent = NoTorrent

(* The file grows while the decoder finds it truncated. *)
Extend ==
  /\ DecodeStrict(data).err = "ErrUnexpectedEOF"
  /\ \E t \in Tokens :
       /\ Len(data) + Len(t) <= MaxBytes
       /\ data' = data \o t
  /\ UNCHANGED torrent

FileNext == Extend \/ Parse

-----------------------------------------------------------------------------
(* Properties.  All but PiecesCoverTheFile are about the bytes, before Parse. *)
Unread == torrent = NoTorrent

(* Byte k is a padding zero: it stands in a run of zeros at the beginning of the
   length of a string, with more digits behind.  (No string of the inputs holds a
   digit, so a run of digits before a colon is a length.) *)
Padding(s, k) ==
  \E p \in 1 .. k, q \in k + 2 .. Len(s) :
    /\ \A j \in p .. k : s[j] = Zero
    /\ p > 1 => s[p - 1] \notin Digit
    /\ \A j \in k + 1 .. q - 1 : s[j] \in Digit
    /\ s[q] = Colon
Unpadded(s) == FlattenSeq([k \in DOMAIN s |-> IF Padding(s, k) THEN <<>> ELSE <<s[k]>>])

(* "The encoder is canonical and the decoder lossless" (architecture.md): what
   is decoded encodes again to the bytes it was read from, but for the leading
   zeros of string lengths, which decodeByteString accepts.  Those of integers
   are no exception (validateIntegerString). *)
DecoderIsLossless ==
  LET r == DecodeStrict(data) IN
  Unread /\ ~Failed(r) =>
                /\ Encode(r.value) = Unpadded(data)
                /\ DecodeStrict(Encode(r.value)).value = r.value

(* The byte ranges that DecodeWithSpans records hold exactly the values it
   returns, so that hashing the range hashes the value. *)
SpansHoldTheValues ==
  LET r == DecodeWithSpans(data) IN
  Unread /\ ~Failed(r) =>
    \A key \in DOMAIN r.spans :
      LET v == DecodeStrict(SubSeq(data, r.spans[key].start, r.spans[key].end - 1)) IN
      ~Failed(v) /\ v.value = r.value.dictionary[key]

(* "Piece count is derived and cross-checked" (architecture.md): the pieces of
   an accepted torrent cover the file exactly, the last one not empty, as long
   as the lengths do not overflow. *)
PiecesCoverTheFile ==
  torrent # NoTorrent /\ InRange(torrent.totalLength + torrent.pieceLength - 1) =>
    CoversTheFile(torrent)

(* The bytes of the value of "info", found without spans: what stands before its
   key is a dictionary once it is closed, and what stands behind the value is one
   once it is opened. *)
Decodes(s) == ~Failed(DecodeStrict(s))
InfoBytes(s) ==
  UNION {{SubSeq(s, i, j) : j \in {j \in i .. Len(s) - 1 :
            /\ Decodes(SubSeq(s, i, j))
            /\ Decodes(<<SmallD>> \o SubSeq(s, j + 1, Len(s)))}} :
         i \in {i \in 4 .. Len(s) - 1 :
            /\ SubSeq(s, i - 1, i - 1) = InfoKey
            /\ \E k \in 2 .. i - 1 :
                 /\ Decodes(SubSeq(s, 1, k - 1) \o <<SmallE>>)
                 /\ DecodeStrict(SubSeq(s, k, i - 1)) = Decoded(ByteString(InfoKey), i - k + 1)}}

(* The info hash names the bytes that are in the file, as another client that
   hashes the file sees them: of an accepted file it is the hash of exactly the
   bytes of its info dictionary, and crossCheckInfoHash rejects a file for one
   reason only, a padded length inside that dictionary.  (A range, an order of
   keys or a number that the decoder or the encoder gets wrong would make it
   reject good files, or hash other bytes.) *)
InfoHashNamesTheFile ==
  LET r    == DecodeWithSpans(data)
      root == r.value.dictionary
      hash == ComputeInfoHash(root[InfoKey].dictionary)
  IN
  /\ Unread /\ ~Failed(r) /\ AtEnd(data, r)
  /\ InfoKey \in DOMAIN root /\ IsDictionary(root[InfoKey])
  => \E raw \in InfoBytes(data) :
       /\ InfoBytes(data) = {raw}
       /\ CrossCheckInfoHash(r.spans[InfoKey], hash) <=> Unpadded(raw) = raw
       /\ Accepts(r) => Torrent(root[InfoKey].dictionary).infoHash = raw
=============================================================================
