\* A text is hidden and got back once.
SPECIFICATION EncryptSpec
CONSTANTS
  BlockSize = 16
  Texts <- MCTexts
  Noise = {1}
  Cipher <- MCCipher
  Decipher <- MCDecipher
INVARIANTS
  DecryptionInverts
  DecodingInverts
CHECK_DEADLOCK FALSE
