----------------------------- MODULE MCDataEncrypt ----------------------------
(* Module DataEncrypt with the code's block of 16 and texts of up to 18       *)
(* characters: any two, of which each of the 16 that may be padding, after up *)
(* to 16 that are the same.  Shorter than a block, full and longer, a text    *)
(* ends like its own padding in one, in two or in no characters.              *)
EXTENDS DataEncrypt

MCEnds == UNION {[1..n -> (1..16) \cup {97}] : n \in 0..2}
MCTexts == {[k \in 1..n |-> 97] \o end : n \in 0..16, end \in MCEnds}
MCCipher == [b \in Bytes |-> (7 * b + 3) % 256]
MCDecipher == [b \in Bytes |-> (183 * (b + 253)) % 256]
===============================================================================
