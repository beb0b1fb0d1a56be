------------------------------ MODULE DataEncrypt -----------------------------
(***************************************************************************)
(* CDataEncrypt's two ways to hide a text and to get it back               *)
(* (src/deamon/DataEncrypt.cpp and algorighm/base64.cpp): AES with padding *)
(* and base64, and noise put between the characters.                       *)
(*                                                                         *)
(* A text is a sequence of character codes without NUL, as a C string is.  *)
(* Of AES only counts that deciphering a whole number of blocks gives back *)
(* what was enciphered, so here it is a permutation of bytes.              *)
(* A base64 character stands as its index in the alphabet.                 *)
(***************************************************************************)
EXTENDS Naturals, Sequences

CONSTANTS
  BlockSize,  \* of the cipher, 16 in the code
  Texts,      \* the texts
  Noise,      \* what rand() % 100 + 1 gives
  Cipher, Decipher

Bytes == 0..255
Chars == 1..255

ASSUME DataEncryptAssumption ==
  /\ BlockSize \in Chars
  /\ Texts \subseteq Seq(Chars)
  /\ Noise \subseteq Chars
  /\ Cipher \in [Bytes -> Bytes] /\ Decipher \in [Bytes -> Bytes]
  /\ \A b \in Bytes : Decipher[Cipher[b]] = b

VARIABLES
  at,    \* "text", "encrypted", "decrypted", "encoded" or "decoded"
  text,  \* the text in question
  data   \* what became of it

encryptVars == <<at, text, data>>

EncryptInit == at = "text" /\ text \in Texts /\ data = <<>>

-------------------------------------------------------------------------------
(* Padding: as many characters as are missing, each of that code. *)

\* Seeded fault: none when the block is full.
PaddingMissing(t) == (BlockSize - (Len(t) % BlockSize)) % BlockSize

Padding(t) == BlockSize - (Len(t) % BlockSize)

Pad(t) == t \o [k \in 1..Padding(t) |-> Padding(t)]

\* k is the position that find_last_not_of(last) finds.
IsLastOther(s, k) ==
  s[k] # s[Len(s)] /\ \A j \in (k + 1)..Len(s) : s[j] = s[Len(s)]

\* That position, or 0.
LastOther(s) ==
  IF \E k \in DOMAIN s : IsLastOther(s, k)
  THEN CHOOSE k \in DOMAIN s : IsLastOther(s, k)
  ELSE 0

\* All trailing characters that are the same go, unless there is no other.
Unpad(s) == IF LastOther(s) = 0 THEN s ELSE SubSeq(s, 1, LastOther(s))

-------------------------------------------------------------------------------
(* Base64: groups of three bytes, of four characters. *)

Fill == 64  \* the character '='

Encode64(s) ==
  LET fills == (3 - (Len(s) % 3)) % 3
      byte(k) == IF k <= Len(s) THEN s[k] ELSE 0
      size == 4 * ((Len(s) + fills) \div 3)
      digit(k) ==
        LET g == 3 * ((k - 1) \div 4)
        IN CASE k % 4 = 1 -> byte(g + 1) \div 4
             [] k % 4 = 2 -> (byte(g + 1) % 4) * 16 + (byte(g + 2) \div 16)
             [] k % 4 = 3 -> (byte(g + 2) % 16) * 4 + (byte(g + 3) \div 64)
             [] k % 4 = 0 -> byte(g + 3) % 64
  IN [k \in 1..size |-> IF k > size - fills THEN Fill ELSE digit(k)]

\* Without a character the result is NULL, which DecryptA_ECB takes for "".
Decode64(e) ==
  LET fills == IF Len(e) = 0 \/ e[Len(e)] # Fill THEN 0
               ELSE IF e[Len(e) - 1] = Fill THEN 2 ELSE 1
      byte(k) ==
        LET g == 4 * ((k - 1) \div 3)
        IN CASE k % 3 = 1 -> ((e[g + 1] * 4) % 256) + (e[g + 2] \div 16)
             [] k % 3 = 2 -> ((e[g + 2] * 16) % 256) + (e[g + 3] \div 4)
             [] k % 3 = 0 -> ((e[g + 3] * 64) % 256) + e[g + 4]
  IN [k \in 1..(3 * (Len(e) \div 4) - fills) |-> byte(k)]

\* AesRoundSize(size, BlockSize).
AesRoundSize(size) ==
  IF size % BlockSize = 0 THEN size
                          ELSE (size \div BlockSize) * BlockSize + BlockSize

\* AesEncryptECB and AesDecryptECB, of whole blocks.
AesEncryptECB(s) == [k \in 1..AesRoundSize(Len(s)) |-> Cipher[s[k]]]
AesDecryptECB(s) == [k \in 1..Len(s) |-> Decipher[s[k]]]

-------------------------------------------------------------------------------
(* Noise: a character that tells where it is, then pairs. *)

\* Seeded fault: the noise is always put first.
InterleaveFirst(t, where, noise) ==
  [k \in 1..(2 * Len(t) + 1) |->
    IF k = 1 THEN where ELSE IF k % 2 = 0 THEN noise[k \div 2] ELSE t[k \div 2]]

\* With 1 the noise comes before each character, with 2 after it.
Interleave(t, where, noise) ==
  [k \in 1..(2 * Len(t) + 1) |->
    IF k = 1 THEN where
    ELSE IF (k % 2 = 0) = (where = 1) THEN noise[k \div 2] ELSE t[k \div 2]]

\* The loop of N_SimpleDecode: it keeps every second character.
KeepSecond(s) ==
  CASE Len(s) > 0 /\ s[1] = 1 -> [k \in 1..((Len(s) - 1) \div 2) |-> s[2 * k + 1]]
    [] Len(s) > 0 /\ s[1] = 2 -> [k \in 1..(Len(s) \div 2) |-> s[2 * k]]
    [] OTHER -> <<>>

-------------------------------------------------------------------------------
(* The operations. *)

EncryptA_ECB ==
  /\ at = "text" /\ at' = "encrypted"
  /\ data' = IF text = <<>> THEN <<>> ELSE Encode64(AesEncryptECB(Pad(text)))
  /\ UNCHANGED text

DecryptA_ECB ==
  /\ at = "encrypted" /\ at' = "decrypted"
  /\ data' = IF data = <<>> THEN <<>> ELSE Unpad(AesDecryptECB(Decode64(data)))
  /\ UNCHANGED text

SimpleEncode ==
  /\ at = "text" /\ at' = "encoded"
  /\ \E where \in {1, 2}, noise \in [1..Len(text) -> Noise] :
       data' = Interleave(text, where, noise)
  /\ UNCHANGED text

SimpleDecode ==
  /\ at = "encoded" /\ at' = "decoded"
  /\ data' = KeepSecond(data)
  /\ UNCHANGED text

EncryptNext == EncryptA_ECB \/ DecryptA_ECB \/ SimpleEncode \/ SimpleDecode

EncryptSpec == EncryptInit /\ [][EncryptNext]_encryptVars

-------------------------------------------------------------------------------
(* Properties. *)

\* The text ends like its own padding.
Ambiguous(t) == t # <<>> /\ t[Len(t)] = Padding(t)

\* What is encrypted decrypts to itself, unless the text ends in the character
\* whose code is the number of characters that were padded: then the end of
\* the text goes with the padding, or, if it holds no other character, the
\* padding stays.
DecryptionInverts ==
  at = "decrypted" =>
    data = CASE ~Ambiguous(text) -> text
             [] Ambiguous(text) /\ LastOther(text) > 0 ->
                  SubSeq(text, 1, LastOther(text))
             [] OTHER -> Pad(text)

\* The noise goes out again wherever it was put and whatever it was.
DecodingInverts == at = "decoded" => data = text
===============================================================================
