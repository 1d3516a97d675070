-------------------------------- MODULE Keys --------------------------------
(***************************************************************************)
(* Keys and connection strings (keys.cpp).                                 *)
(*                                                                         *)
(* A key text is a text somebody chose (a member of Chosen) or a z-base-32 *)
(* text, the sequence of its letters' places in kAlphabet; the empty text  *)
(* is <<>>.  A connection string is such a text, either bare or behind     *)
(* "hs://" and four more characters, of which only the first is looked at: *)
(* `mode` is "s" for "s000" and "0" for "0000".                            *)
(*                                                                         *)
(* SHA-256 and the key pair of a seed are libsodium's and hyperdht's: any  *)
(* functions without collisions.                                           *)
(***************************************************************************)
EXTENDS Integers, Sequences

CONSTANTS
    AccSize,      \* where the accumulators of the z32 codec wrap around: 2^32
    KeyBytes,     \* bytes of a seed and of a public key: 32
    Chosen,       \* key texts that are not z-base-32
    SixthIsS,     \* those of them whose sixth character is an s
    Digest,       \* SHA-256 of a chosen text
    PublicKey,    \* the public key of a seed
    Nobody        \* any other digest or public key: nobody's that matters

Byte   == 0..255
Letter == 0..31

\* A seed, a digest or a public key.
RawKeys == [1..KeyBytes -> Byte]

\* An accumulator holds at least a byte and what is left of one, 12 bits.
ASSUME KeysAssumption ==
    /\ AccSize \in Nat \ {0} /\ AccSize % 4096 = 0
    /\ KeyBytes \in Nat \ {0}
    /\ SixthIsS \subseteq Chosen
    /\ \A k \in Chosen : k \notin Seq(Letter)
    /\ Digest \in [Chosen -> RawKeys]
    /\ PublicKey \in [DOMAIN PublicKey -> RawKeys]
    /\ Nobody \in RawKeys /\ Nobody \notin DOMAIN PublicKey
    /\ \A s \in DOMAIN PublicKey : PublicKey[s] # Nobody
    /\ \A k, l \in Chosen : Digest[k] = Digest[l] => k = l
    /\ \A s, t \in DOMAIN PublicKey : PublicKey[s] = PublicKey[t] => s = t

Sha256(key)   == IF key \in Chosen THEN Digest[key] ELSE Nobody
KeyPair(seed) == IF seed \in DOMAIN PublicKey THEN PublicKey[seed] ELSE Nobody

-----------------------------------------------------------------------------
(* The codecs                                                              *)

\* Nothing read yet.
NoBits == [acc |-> 0, bits |-> 0, out |-> <<>>]

\* One byte of z32_encode: the letters that are complete with it go out.
EncodeByte(st, byte) ==
    LET acc  == (st.acc * 2^8 + byte) % AccSize
        bits == st.bits + 8
    IN  [acc  |-> acc,
         bits |-> bits % 5,
         out  |-> st.out \o [k \in 1..(bits \div 5) |->
                                (acc \div 2^(bits - 5 * k)) % 32]]

\* The loop of z32_encode.
Encoded(data) ==
    LET after[k \in 0..Len(data)] ==
          IF k = 0 THEN NoBits ELSE EncodeByte(after[k - 1], data[k])
    IN  after[Len(data)]

\* Mutant: the bits of the last letter are dropped.
Z32EncodeNoTail(data) == Encoded(data).out

\* z32_encode: the bits that are left over are the top of one more letter.
Z32Encode(data) ==
    LET end == Encoded(data)
    IN  IF end.bits > 0
        THEN Append(end.out, (end.acc * 2^(5 - end.bits)) % 32)
        ELSE end.out

\* One letter of z32_decode: a byte that is complete with it goes out.
DecodeLetter(st, letter) ==
    LET acc  == (st.acc * 2^5 + letter) % AccSize
        bits == st.bits + 5
    IN  IF bits < 8
        THEN [acc |-> acc, bits |-> bits, out |-> st.out]
        ELSE [acc |-> acc, bits |-> bits - 8,
              out |-> Append(st.out, (acc \div 2^(bits - 8)) % 256)]

\* The loop of z32_decode.
Decoded(text) ==
    LET after[k \in 0..Len(text)] ==
          IF k = 0 THEN NoBits ELSE DecodeLetter(after[k - 1], text[k])
    IN  after[Len(text)]

\* z32_decode: the bytes, in a set that is empty for a text with a character
\* outside the alphabet.
Z32Decode(key) == IF key \in Chosen THEN {} ELSE {Decoded(key).out}

\* to_hex and from_hex: two digits for a byte, the upper one first.
ToHex(data) ==
    [k \in 1..(2 * Len(data)) |->
        IF k % 2 = 1 THEN data[(k + 1) \div 2] \div 16 ELSE data[k \div 2] % 16]
FromHex(hex) ==
    IF Len(hex) % 2 # 0
    THEN {}
    ELSE {[k \in 1..(Len(hex) \div 2) |-> hex[2 * k - 1] * 16 + hex[2 * k]]}

-----------------------------------------------------------------------------
(* Connection strings                                                      *)

Bare(key)      == [scheme |-> FALSE, mode |-> "", key |-> key]
Url(mode, key) == [scheme |-> TRUE, mode |-> mode, key |-> key]

\* The sixth character of a key is an s: place 22 of kAlphabet.
SixthS(key) ==
    IF key \in Chosen THEN key \in SixthIsS ELSE Len(key) >= 6 /\ key[6] = 22

\* parse_url: the key without the prefix, and whether the string says that it
\* is a secure one; it never says that it is not.  The sixth character is
\* looked at whether or not there is a prefix.
ParseUrl(text) ==
    [key    |-> text.key,
     secure |-> IF text.scheme THEN text.mode = "s" ELSE SixthS(text.key)]

\* make_url
MakeUrl(secure, key) == Url(IF secure THEN "s" ELSE "0", key)
=============================================================================
