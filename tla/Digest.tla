------------------------------- MODULE Digest -------------------------------
(***************************************************************************)
(* The checksum of a scanned file: Scanner::compute_checksums reads the    *)
(* file in pieces and gives each to the engines; the engines of SHA-256    *)
(* and MD5 (the same code, but for the order of the length bytes) collect  *)
(* them into blocks and pad the last one.                                  *)
(*                                                                         *)
(* The compression function is not modelled: the state of an engine is the *)
(* sequence of the blocks it has compressed, which says more than any      *)
(* digest.  Bytes are what the properties tell apart: the bytes of the     *)
(* file, the padding, and the length of the message.                       *)
(***************************************************************************)
EXTENDS Integers, Sequences

CONSTANTS
  Files,        \* the contents, sequences of bytes (numbers)
  BlockSize,    \* 64
  LengthSize,   \* the bytes of a block that hold the length (8)
  MaxPiece      \* bytes read at a time (65536)

ASSUME DigestAssumption ==
  /\ Files \subseteq Seq(Nat)
  /\ {BlockSize, LengthSize, MaxPiece} \subseteq Nat \ {0}
  /\ LengthSize < BlockSize

VARIABLES
  step,     \* "open", "read", "mark", "pad"; "stored", "lost" or "refused" at the end
  content,  \* the file
  given,    \* how many of its bytes have been given to the engine
  broken,   \* did a read fail
  buffer,   \* buffer_, of buffer_length_ bytes
  blocks    \* state_

digest == <<step, content, given, broken, buffer, blocks>>

(* 0x80, zero, and a byte of the length of a message of n bytes.           *)
Mark == -1
Zero == -2
LengthByte(n) == -3 - n

Settled == {"stored", "lost", "refused"}

DigestTypeOK ==
  /\ step \in {"open", "read", "mark", "pad"} \cup Settled
  /\ content \in Files
  /\ given \in 0 .. Len(content)
  /\ broken \in BOOLEAN
  /\ buffer \in Seq(Int) /\ Len(buffer) < BlockSize
  /\ \A i \in 1 .. Len(blocks) : blocks[i] \in Seq(Int) /\ Len(blocks[i]) = BlockSize

DigestInit ==
  /\ step = "open"
  /\ content \in Files
  /\ given = 0
  /\ broken = FALSE
  /\ buffer = << >>
  /\ blocks = << >>

-----------------------------------------------------------------------------
(* The engine                                                              *)

(* Mutant: as much is copied as there is.                                  *)
FillUnbounded(piece) == Len(piece)

(* The bytes that fill up the buffer, if there is something in it.         *)
Fill(piece) ==
  IF Len(buffer) = 0 THEN 0
  ELSE IF Len(piece) < BlockSize - Len(buffer) THEN Len(piece)
  ELSE BlockSize - Len(buffer)

(* update: then whole blocks are taken from the piece, and what is left of *)
(* it goes to the buffer.                                                  *)
Cut(piece) ==
  LET filled == buffer \o SubSeq(piece, 1, Fill(piece))
      whole == (Len(piece) - Fill(piece)) \div BlockSize
      begin(i) == Fill(piece) + (i - 1) * BlockSize + 1
      tail == SubSeq(piece, begin(whole + 1), Len(piece))
      full == Len(filled) = BlockSize
  IN  [blocks |-> (IF full THEN <<filled>> ELSE << >>) \o
                  [i \in 1 .. whole |-> SubSeq(piece, begin(i), begin(i + 1) - 1)],
       rest |-> IF tail # << >> THEN tail ELSE IF full THEN << >> ELSE filled]

Update(piece) ==
  /\ blocks' = blocks \o Cut(piece).blocks
  /\ buffer' = Cut(piece).rest

-----------------------------------------------------------------------------
(* Scanner::compute_checksums                                              *)

Open ==
  /\ step = "open"
  /\ step' \in {"read", "refused"}
  /\ UNCHANGED <<content, given, broken, buffer, blocks>>

(* Mutant: the end of the file is not noticed.                             *)
AfterAnyRead(n) == "read"

AfterRead(n) == IF n = MaxPiece THEN "read" ELSE "mark"

(* Fewer bytes than were asked for, none perhaps, are read at the end of   *)
(* the file or when an error occurs.  The loop takes both for the end.     *)
ReadPiece ==
  /\ step = "read"
  /\ \E n \in 0 .. MaxPiece :
       /\ given + n <= Len(content)
       /\ given' = given + n
       /\ broken' = (n < MaxPiece /\ given' < Len(content))
       /\ Update(SubSeq(content, given + 1, given + n))
       /\ step' = AfterRead(n)
  /\ UNCHANGED content

(* finalize, which pads with calls of update.                              *)
PutMark ==
  /\ step = "mark"
  /\ Update(<<Mark>>)
  /\ step' = "pad"
  /\ UNCHANGED <<content, given, broken>>

(* Mutant: the length is written as soon as there is room for it.          *)
RoomForLength == Len(buffer) <= BlockSize - LengthSize

PlaceForLength == Len(buffer) = BlockSize - LengthSize

PutZero ==
  /\ step = "pad"
  /\ ~PlaceForLength
  /\ Update(<<Zero>>)
  /\ UNCHANGED <<step, content, given, broken>>

(* A checksum that cannot be inserted is only logged.                      *)
PutLength ==
  /\ step = "pad"
  /\ PlaceForLength
  /\ Update([i \in 1 .. LengthSize |-> LengthByte(given)])
  /\ step' \in {"stored", "lost"}
  /\ UNCHANGED <<content, given, broken>>

DigestNext == Open \/ ReadPiece \/ PutMark \/ PutZero \/ PutLength

DigestSpec == DigestInit /\ [][DigestNext]_digest /\ WF_digest(DigestNext)

-----------------------------------------------------------------------------
(* Properties                                                              *)

(* The blocks one after the other.                                         *)
Message ==
  [i \in 1 .. Len(blocks) * BlockSize |->
     blocks[((i - 1) \div BlockSize) + 1][((i - 1) % BlockSize) + 1]]

(* What is stored is the digest of the file, padded as RFC 1321 and FIPS   *)
(* 180-4 say (a mark, the fewest zeros that fill up a block, the length),  *)
(* however the file was cut into pieces; after a read that failed it is    *)
(* the digest of the bytes before the failure.                             *)
DigestIsOfTheFile ==
  step = "stored" =>
    /\ broken \/ given = Len(content)
    /\ \E zeros \in 0 .. BlockSize - 1 :
         Message = SubSeq(content, 1, given) \o <<Mark>> \o [i \in 1 .. zeros |-> Zero] \o
                   [i \in 1 .. LengthSize |-> LengthByte(given)]

(* Hashing a file ends; padding stops at the place of the length.          *)
HashingEnds == <>(step \in Settled)

-----------------------------------------------------------------------------
(* The inductive invariant                                                 *)

(* Blocks and what is left over are the sequence s, cut.                   *)
IsStream(bl, bu, s) ==
  /\ bl \in Seq(Seq(Int)) /\ bu \in Seq(Int) /\ s \in Seq(Int)
  /\ Len(s) = Len(bl) * BlockSize + Len(bu)
  /\ \A b \in 1 .. Len(bl) :
       Len(bl[b]) = BlockSize /\ \A k \in 1 .. BlockSize : bl[b][k] = s[(b - 1) * BlockSize + k]
  /\ \A k \in 1 .. Len(bu) : bu[k] = s[Len(bl) * BlockSize + k]

Told == SubSeq(content, 1, given)
Zeros(z) == [i \in 1 .. z |-> Zero]
Lengths(n) == [i \in 1 .. LengthSize |-> LengthByte(n)]
Padded(z) == Told \o <<Mark>> \o Zeros(z)

(* With n bytes in the buffer there are no more zeros than must be: they   *)
(* began at the place of the length, or behind it in the block before.     *)
ZerosFit(z, n) ==
  IF n > BlockSize - LengthSize THEN z < n - (BlockSize - LengthSize) ELSE z < n + LengthSize

(* What the engine has been given is in the blocks and in the buffer.      *)
StreamInv ==
  /\ step \in {"open", "read", "mark", "refused"} => IsStream(blocks, buffer, Told)
  /\ step = "pad" => \E z \in 0 .. BlockSize - 1 :
                       ZerosFit(z, Len(buffer)) /\ IsStream(blocks, buffer, Padded(z))
  /\ step \in {"stored", "lost"} =>
       \E z \in 0 .. BlockSize - 1 :
         buffer = << >> /\ IsStream(blocks, << >>, Padded(z) \o Lengths(given))

EndInv == step \in {"mark", "pad", "stored", "lost"} => broken \/ given = Len(content)

DigestInv == DigestTypeOK /\ StreamInv /\ EndInv

=============================================================================
