------------------------------- MODULE Lengths -------------------------------
(***************************************************************************)
(* The lengths of a torrent (internal/metainfo: validate in parse.go,      *)
(* LastPieceLength in torrent.go), with the int64 arithmetic they are      *)
(* computed in: addition wraps around, division truncates.                 *)
(***************************************************************************)
EXTENDS Integers

CONSTANT MaxInt   \* the largest integer of the machine (2^63 - 1)

ASSUME MaxIntAssumption == MaxInt \in Nat

InRange(n) == -MaxInt - 1 <= n /\ n <= MaxInt
Wrap(n) == IF n > MaxInt THEN n - 2 * (MaxInt + 1) ELSE n
Quotient(n, d) == IF n < 0 THEN -((-n) \div d) ELSE n \div d

ExpectedMutant(t) ==     \* a bug: the short last piece is forgotten
  Quotient(t.totalLength, t.pieceLength)
Expected(t) ==
  Quotient(Wrap(t.totalLength + t.pieceLength - 1), t.pieceLength)

ValidLengths(t) ==
  /\ t.pieceLength > 0
  /\ t.totalLength > 0
  /\ t.pieceCount = Expected(t)

LastPieceLength(t) ==
  IF t.totalLength % t.pieceLength = 0 THEN t.pieceLength
  ELSE t.totalLength % t.pieceLength

(* The pieces cover the file exactly, the last one not empty. *)
CoversTheFile(t) ==
  /\ t.pieceCount > 0
  /\ LastPieceLength(t) \in 1 .. t.pieceLength
  /\ (t.pieceCount - 1) * t.pieceLength + LastPieceLength(t) = t.totalLength
=============================================================================
