------------------------------- MODULE Envelope -------------------------------
(***************************************************************************)
(* A value on its way into a column of the database and back: the bytes    *)
(* its encryption is bound to, the envelope they make with the key's id,   *)
(* and the text that is stored, which something else may have altered or   *)
(* an older program may have written.                                      *)
(*                                                                         *)
(* Bytes and the digits of base 64 have their real widths; the fields of   *)
(* the envelope have fewer bytes.  A character is a digit with the         *)
(* alphabets that have it.  AES-GCM is ideal: it opens what was sealed,    *)
(* under the same key, nonce and additional data, and nothing else.        *)
(***************************************************************************)
EXTENDS Naturals, Sequences, SequencesExt

CONSTANTS
    Rows,        \* identities of values: purpose, environment, key, version
    Plaintexts,  \* in UTF-8, each a sequence of bytes
    Malformed,   \* bytes that are not text, which an older program sealed
    KidOf,       \* the id that is derived from each master key
    Ivs, Bytes,  \* the nonces, and the bytes of a ciphertext, that are tried
    KID_BYTES, IV_BYTES, TAG_BYTES, MaxBytes,
    Absent

VARIABLES sealed,  \* what AES-GCM was given, and gave
          written, \* the text that was put in the column
          stored,  \* and the one that is there
          opened   \* what became of it

vars == <<sealed, written, stored, opened>>

-----------------------------------------------------------------------------
(* codec.ts: base 64, in the alphabet of URLs and in the standard one.     *)

Digit(v) == <<v, "both">>
Url == [v \in 0..63 |-> IF v < 62 THEN Digit(v) ELSE <<v, "url">>]
Standard == [v \in 0..63 |-> IF v < 62 THEN Digit(v) ELSE <<v, "standard">>]
Pad == <<64, "pad">>
Foreign == <<65, "none">>

UrlTable == Range(Url)
EitherTable == Range(Url) \union Range(Standard)

Unreadable == [ok |-> FALSE, bytes |-> <<>>]
WithoutPadding(text) == SubSeq(text, 1, SelectLastInSeq(text, LAMBDA c : c # Pad))

(* The byte that starts at the bit 8 * (j - 1): parts of two digits.       *)
ByteAt(body, j) ==
    LET bit == 8 * (j - 1)
        first == bit \div 6 + 1
    IN  ((body[first][1] * 64 + body[first + 1][1]) \div 2^(4 - (bit % 6))) % 256

(* The bits of the last digit that no byte uses.                           *)
Spare(body) == (6 * Len(body)) % 8
Canonical(body) == body = <<>> \/ (body[Len(body)][1] % 2^Spare(body)) = 0

decodeWith(text, table) ==
    LET body == WithoutPadding(text)
        padding == Len(text) - Len(body)
    IN  IF /\ padding <= 2 /\ (Len(body) % 4) # 1
           /\ padding > 0 => (Len(text) % 4) = 0
           /\ Range(body) \subseteq table
           /\ Canonical(body)
        THEN [ok |-> TRUE, bytes |-> [j \in 1..((Len(body) * 3) \div 4) |-> ByteAt(body, j)]]
        ELSE Unreadable

(* Three bytes make four digits; past the end there are zeros.             *)
DigitAt(bytes, i) ==
    LET at(j) == IF j <= Len(bytes) THEN bytes[j] ELSE 0
        j == 3 * ((i - 1) \div 4)
        triple == at(j + 1) * 65536 + at(j + 2) * 256 + at(j + 3)
    IN  (triple \div 2^(18 - 6 * ((i - 1) % 4))) % 64
encodeWith(bytes, alphabet, pad) ==
    LET n == (4 * Len(bytes) + 2) \div 3
    IN  [i \in 1..n |-> alphabet[DigitAt(bytes, i)]]
        \o (IF pad THEN [i \in 1..((3 - (Len(bytes) % 3)) % 3) |-> Pad] ELSE <<>>)

(* A decoder that is not told to keep it takes a leading mark for a sign of  *)
(* the encoding.                                                             *)
BYTE_ORDER_MARK == <<239, 187, 191>>
decodeUtf8(bytes) ==
    IF IsPrefix(BYTE_ORDER_MARK, bytes) THEN SubSeq(bytes, 4, Len(bytes)) ELSE bytes

toHex(bytes) ==
    [i \in 1..(2 * Len(bytes)) |->
        IF (i % 2) = 1 THEN bytes[(i + 1) \div 2] \div 16 ELSE bytes[i \div 2] % 16]
FromHex(digits) == [i \in 1..(Len(digits) \div 2) |-> 16 * digits[2 * i - 1] + digits[2 * i]]

-----------------------------------------------------------------------------
(* aad.ts: what an encryption is bound to.                                 *)

MAGIC == <<112, 114>>
AAD_VERSION == 1
U16(n) == <<n \div 256, n % 256>>
U32(n) == <<n \div 2^24, (n \div 2^16) % 256, (n \div 256) % 256, n % 256>>

encodeFieldBare(value) == value  \* A field without its length.
encodeField(value) == U16(Len(value)) \o value
buildSecretValueAad(row) ==
    MAGIC \o <<AAD_VERSION>>
    \o encodeField(row.purpose) \o encodeField(row.environment) \o encodeField(row.key)
    \o U32(row.version)

(* What the constants are to be.                                           *)
LayoutFits ==
    /\ {KID_BYTES, IV_BYTES, TAG_BYTES} \subseteq Nat \ {0} /\ Bytes \subseteq 0..255
    /\ \A k \in DOMAIN KidOf : Len(KidOf[k]) = KID_BYTES
    /\ \A r \in Rows : /\ \A f \in {r.purpose, r.environment, r.key} : Len(f) \in 1..65535
                       /\ r.version \in Nat

-----------------------------------------------------------------------------
(* envelope.ts: version, algorithm, key id, nonce, ciphertext.             *)

V0 == 0
V1 == 1
ALG_AES_256_GCM == 1
V1_HEADER == 2 + KID_BYTES + IV_BYTES
V0_HEADER == 1 + IV_BYTES

FormatError == [state |-> "CryptoFormatError"]

parseV1(b) ==
    IF Len(b) < V1_HEADER + TAG_BYTES \/ b[2] # ALG_AES_256_GCM THEN FormatError
    ELSE [state |-> "parsed", version |-> V1, kid |-> toHex(SubSeq(b, 3, 2 + KID_BYTES)),
          iv |-> SubSeq(b, 3 + KID_BYTES, V1_HEADER),
          ciphertext |-> SubSeq(b, V1_HEADER + 1, Len(b))]
parseV0(b) ==
    IF Len(b) < V0_HEADER + TAG_BYTES THEN FormatError
    ELSE [state |-> "parsed", version |-> V0, kid |-> <<>>,
          iv |-> SubSeq(b, 2, V0_HEADER), ciphertext |-> SubSeq(b, V0_HEADER + 1, Len(b))]

parseEnvelope(blob) ==
    LET d == decodeWith(blob, UrlTable) IN
    IF ~d.ok \/ d.bytes = <<>> THEN FormatError
    ELSE CASE d.bytes[1] = V1 -> parseV1(d.bytes)
           [] d.bytes[1] = V0 -> parseV0(d.bytes)
           [] OTHER -> FormatError

formatEnvelope(kid, iv, ciphertext) ==
    encodeWith(<<V1, ALG_AES_256_GCM>> \o FromHex(kid) \o iv \o ciphertext, Url, FALSE)

-----------------------------------------------------------------------------
(* index.ts: sealing and opening.                                          *)

NoAad == <<>>
Unopened == [state |-> "unopened"]

Init ==
    /\ sealed = Absent /\ written = <<>> /\ stored = <<>>
    /\ opened = Unopened

(* What AES-GCM answers: any tag, after as many bytes as the plaintext has *)
(* (one that is repeated stands for all).                                  *)
Seal(key, aad, plaintext, kind) ==
    \E iv \in Ivs, byte \in Bytes, tag \in [1..TAG_BYTES -> Bytes] :
        sealed' = [key |-> key, iv |-> iv, aad |-> aad, plaintext |-> plaintext,
                   ciphertext |-> [i \in 1..Len(plaintext) |-> byte] \o tag, kind |-> kind]

encryptSecretValue(key, row, plaintext) ==
    /\ sealed = Absent
    /\ Len(plaintext) <= MaxBytes
    /\ Seal(key, buildSecretValueAad(row), plaintext, row)
    /\ written' = formatEnvelope(toHex(KidOf[key]), sealed'.iv, sealed'.ciphertext)
    /\ stored' = written'
    /\ UNCHANGED opened

(* The program before this one bound a value to nothing.                   *)
WriteLegacy(key, plaintext) ==
    /\ sealed = Absent
    /\ Seal(key, NoAad, plaintext, Absent)
    /\ written' = encodeWith(<<V0>> \o sealed'.iv \o sealed'.ciphertext, Url, FALSE)
    /\ stored' = written'
    /\ UNCHANGED opened

(* A character is replaced, the text is cut, or it is longer.              *)
Meddle ==
    /\ sealed # Absent /\ stored = written /\ opened = Unopened
    /\ LET any == {Digit(0), Digit(16), Url[63], Standard[63], Pad, Foreign} IN
       \/ \E i \in DOMAIN stored, c \in any : stored' = [stored EXCEPT ![i] = c]
       \/ \E n \in 0..(Len(stored) - 1) : stored' = SubSeq(stored, 1, n)
       \/ \E c \in any : stored' = Append(stored, c)
    /\ UNCHANGED <<sealed, written, opened>>

gcmOpens(key, iv, aad, ciphertext) ==
    /\ key = sealed.key /\ iv = sealed.iv /\ aad = sealed.aad /\ ciphertext = sealed.ciphertext

finish ==
    IF sealed.plaintext \in Malformed THEN [state |-> "DecryptFailedError"]
    ELSE [state |-> "read", plaintext |-> decodeUtf8(sealed.plaintext)]

Open1(p, ring, row) ==
    LET entries == {k \in Range(ring) : toHex(KidOf[k]) = p.kid} IN
    IF entries = {} THEN [state |-> "UnknownKeyError", kid |-> p.kid]
    ELSE IF \E k \in entries : gcmOpens(k, p.iv, buildSecretValueAad(row), p.ciphertext)
    THEN finish
    ELSE [state |-> "DecryptFailedError"]

Open0(p, ring, allowLegacyV0) ==
    IF ~allowLegacyV0 THEN FormatError
    ELSE IF \E k \in Range(ring) : gcmOpens(k, p.iv, NoAad, p.ciphertext) THEN finish
    ELSE [state |-> "DecryptFailedError"]

decryptSecretValue(row, ring, allowLegacyV0) ==
    LET p == parseEnvelope(stored) IN
    /\ sealed # Absent /\ opened = Unopened
    /\ opened' = [row |-> row, ring |-> Range(ring), legacy |-> allowLegacyV0,
                  outcome |-> IF p.state # "parsed" THEN p
                              ELSE IF p.version = V1 THEN Open1(p, ring, row)
                              ELSE Open0(p, ring, allowLegacyV0)]
    /\ UNCHANGED <<sealed, written, stored>>

(* Rings: the active key, and retired ones.                                *)
Rings == {r \in UNION {[1..n -> DOMAIN KidOf] : n \in 1..2} : IsInjective(r)}

Next ==
    \/ \E k \in DOMAIN KidOf :
          \/ \E r \in Rows, p \in Plaintexts : encryptSecretValue(k, r, p)
          \/ \E p \in Plaintexts \union Malformed : WriteLegacy(k, p)
    \/ Meddle
    \/ \E r \in Rows, ring \in Rings, v0 \in BOOLEAN : decryptSecretValue(r, ring, v0)

Spec == Init /\ [][Next]_vars

-----------------------------------------------------------------------------
(* A text that was altered is not read as if it were the one written,      *)
(* however it was: not cut, not relabelled as the older format, and not    *)
(* with bits that no byte uses ("two distinct strings decoding to          *)
(* identical bytes is exactly the ambiguity this whole layer is built to   *)
(* avoid", codec.ts:133-136).  Padding alone may come and go.              *)
AlteredIsNotRead ==
    opened # Unopened /\ opened.outcome.state = "read" => WithoutPadding(stored) = written

(* What is read is read as the row that it was sealed for, by a ring that  *)
(* has its key; it is its plaintext, but for a byte order mark that starts *)
(* it; and a value of the older program is read where that was asked for.  *)
(* The other way round, such an opening does not fail, and without the key *)
(* it names the key that is missing.                                       *)
OpensAsSealed ==
    opened # Unopened =>
        LET known == sealed.key \in opened.ring
            own == IF sealed.kind = Absent THEN opened.legacy ELSE opened.row = sealed.kind
        IN  /\ opened.outcome.state = "read" =>
                   /\ known /\ own
                   /\ \E mark \in {<<>>, BYTE_ORDER_MARK} :
                          mark \o opened.outcome.plaintext = sealed.plaintext
            /\ stored = written /\ own /\ known /\ sealed.plaintext \notin Malformed =>
                   opened.outcome.state = "read"
            /\ stored = written /\ sealed.kind # Absent /\ ~known =>
                   opened.outcome = [state |-> "UnknownKeyError", kid |-> toHex(KidOf[sealed.key])]

(* Key material is the same bytes in either alphabet, padded or not        *)
(* (decodeBase64Flexible, codec.ts:193-203).                               *)
AlphabetsAgree ==
    sealed # Absent /\ opened = Unopened /\ stored = written =>
        \A alphabet \in {Url, Standard}, pad \in BOOLEAN :
            decodeWith(encodeWith(sealed.ciphertext, alphabet, pad), EitherTable)
                = [ok |-> TRUE, bytes |-> sealed.ciphertext]
=============================================================================
