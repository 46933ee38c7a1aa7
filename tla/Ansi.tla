-------------------------------- MODULE Ansi --------------------------------
(***************************************************************************)
(* Ansi: the conversion between Windows-1252, whose strings are sequences  *)
(* of bytes, and UTF-8, whose strings are sequences of characters given by *)
(* their Unicode numbers, or by -b for a byte b that is not part of any.   *)
(***************************************************************************)
EXTENDS Integers, Sequences, SequencesExt, FiniteSets

(* _utf8Lookup: what the bytes from 16#80 to 16#9F stand for, 0 for        *)
(* nothing; those above are the characters with the same numbers.          *)
Utf8Lookup ==
    <<8364, 0, 8218, 402, 8222, 8230, 8224, 8225, 710, 8240, 352, 8249, 338, 0, 381, 0,
      0, 8216, 8217, 8220, 8221, 8226, 8211, 8212, 732, 8482, 353, 8250, 339, 0, 382, 376>>

CharacterOf(byte) == IF byte \in 128 .. 159 THEN Utf8Lookup[byte - 127] ELSE byte

(* The characters up to a zero, where there is one. *)
UpToZero(s) ==
    LET zeros == {i \in DOMAIN s : s[i] = 0}
    IN  IF zeros = {} THEN s ELSE SubSeq(s, 1, (CHOOSE i \in zeros : \A j \in zeros : i <= j) - 1)

(* The overload for a char* and its length, which goes on behind a zero:   *)
(* the characters of one byte after the other.  Bytes without a character  *)
(* become nothing, and 0 is not one of those.                              *)
Character(byte) ==
    IF byte # 0 /\ CharacterOf(byte) = 0 THEN <<>> ELSE <<CharacterOf(byte)>>

toUtf8OfLength(bytes) ==
    LET written[i \in 0 .. Len(bytes)] ==
            IF i = 0 THEN <<>> ELSE written[i - 1] \o Character(bytes[i])
    IN  written[Len(bytes)]

(* The overload for std::string. *)
toUtf8(bytes) == toUtf8OfLength(UpToZero(bytes))

(* _ansiLookup, in which one entry differs from the other table: the byte  *)
(* of the double dagger is that of the dagger.                             *)
Dagger == 8224
DoubleDagger == 8225

AnsiCharacters == (ToSet(Utf8Lookup) \ {0}) \cup 160 .. 255

(* Mutation: a table for the upper half of Latin-1 only. *)
ByteOfLatin(c) == IF c < 128 \/ c \in 160 .. 255 THEN c ELSE 63

ByteOf(c) ==
    CASE c < 128 -> c
      [] c = DoubleDagger -> 134
      [] c \in AnsiCharacters \ {DoubleDagger} ->
            CHOOSE byte \in 128 .. 255 : CharacterOf(byte) = c
      [] OTHER -> 63

(* For strings without stray bytes; what has no byte becomes a question    *)
(* mark.                                                                   *)
toAnsi(s) == [i \in DOMAIN UpToZero(s) |-> ByteOf(s[i])]
=============================================================================
