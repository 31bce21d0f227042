---- MODULE Cryptography ----
(* Keys of elliptic_common.cpp and elliptic_secp256k1.cpp: children, extended keys, texts, blind
   signatures. The curve is a group of prime order whose points are named by their multiple of the
   generator, with an x coordinate a point shares with its negative. A number is a word that may
   reach beyond the order; hashes mix their arguments into a word; a sum of control is the hash's
   name with its argument. A throw is Refused, or the empty set for an extended key or a secret; in
   arithmetic 0, which is neither secret nor point. *)
EXTENDS Integers, Sequences, SequencesExt

CONSTANTS
    Order,        \* of the group, a prime
    KeyWord,      \* the words: 0..KeyWord-1, beyond the order
    DepthWord,    \* 2^8: what depth is counted modulo
    Magic,        \* BTC_EXT_PUB_MAGIC; the private one is Magic + 1
    Version       \* 0x80, the first byte of a private key's text

ASSUME KeysAssumption ==
  /\ {Order, KeyWord, DepthWord, Magic, Version} \subseteq Nat
  /\ Order > 2 /\ KeyWord > Order /\ DepthWord > 0

Refused == <<"refused">>
Point(k) == IF k = 0 THEN Refused ELSE <<"point", k>>

\* The x coordinate and the parity of y.
XOf(k) == IF 2 * k < Order THEN 2 * k ELSE 2 * (Order - k)
IsOdd(k) == 2 * k > Order
HasX(x, odd) == {k \in 1..Order - 1 : XOf(k) = x /\ IsOdd(k) = odd}

Mod(x) == x % Order
Reciprocal(x) == IF x = 0 THEN 0 ELSE CHOOSE y \in 1..Order - 1 : Mod(x * y) = 1
\* secp256k1_ec_privkey_tweak_mul and _add, and those of a point.
Times(x, y) == IF y >= Order THEN 0 ELSE Mod(x * y)
Plus(x, y) == IF x = 0 \/ y = 0 \/ y >= Order THEN 0 ELSE Mod(x + y)

\* The words a hash makes of numbers.
Hashed(numbers) == FoldLeft(LAMBDA h, n : (3 * h * h + n + 1) % KeyWord, 1, numbers)
Bits(b) == IF b THEN 3 ELSE 2
Packed(P) == <<Bits(IsOdd(P[2])), XOf(P[2])>>
----
(* Keys and their children.  regenerate() takes any word for a secret. *)

PublicOf(secret) == IF secret = 0 \/ secret >= Order THEN Refused ELSE Point(secret)

GenerateFromSeed(seed, offset) == Mod(seed + offset)

PrivateChild(secret, offset) ==
  GenerateFromSeed(secret, Hashed(Packed(PublicOf(secret)) \o <<offset>>))

AddTo(P, digest) == IF digest >= Order THEN Refused ELSE Point(Mod(P[2] + digest))

PublicChild(P, offset) == AddTo(P, Hashed(Packed(P) \o <<offset>>))

Fingerprint(P) == Hashed(<<2>> \o Packed(P))
----
(* Extended keys: a secret or a point, with a chain and where it is. *)

Extended(key, chain, child, parent, depth) ==
  [key |-> key, chain |-> chain, child |-> child, fp |-> parent, depth |-> depth % DepthWord]

ExtendedPublic(x) == [x EXCEPT !.key = PublicOf(x.key)]

DerivationHash(first, key, chain, i) ==
  [left |-> Hashed(<<chain, first, key, i>>), right |-> Hashed(<<chain, first, key, i, 1>>)]

\* private_derive_rest()
DeriveRest(x, l, i) ==
  LET key == Mod(l.left + x.key)
  IN  IF l.left >= Order \/ key = 0 THEN {}
      ELSE {Extended(key, l.right, i, Fingerprint(PublicOf(x.key)), x.depth + 1)}

PublicMessage(P, chain, i) == DerivationHash(Packed(P)[1], Packed(P)[2], chain, i)

PrivateNormal(x, i) == DeriveRest(x, PublicMessage(PublicOf(x.key), x.chain, i), i)
PrivateHardened(x, i) == DeriveRest(x, DerivationHash(0, x.key, x.chain, i), i)
PrivateDerived(x, i) == IF i < 0 THEN PrivateHardened(x, i) ELSE PrivateNormal(x, i)

PublicNormal(x, i) ==
  LET l == PublicMessage(x.key, x.chain, i)
      key == IF l.left >= Order THEN Refused ELSE Point(Mod(x.key[2] + l.left))
  IN  IF key = Refused THEN {}
      ELSE {Extended(key, l.right, i, Fingerprint(x.key), x.depth + 1)}
PublicDerived(x, i) == IF i < 0 THEN {} ELSE PublicNormal(x, i)

----
(* Texts, as bytes of base58. The reader of extended keys fills its buffer and never looks at the
   sum: its loop goes on while i <= size - CheckSize. *)

SumOf(hash, bytes) == <<hash, bytes>>
CheckSize == 1
BufferSize == 7

ToText(bytes, hash) == Append(bytes, SumOf(hash, bytes))

SerializePublic(x) == <<Magic, x.depth, x.fp, x.child, x.chain>> \o Packed(x.key)
SerializePrivate(x) == <<Magic + 1, x.depth, x.fp, x.child, x.chain, 0, x.key>>

ParseExtended(text) ==
  [j \in 1..BufferSize |-> IF j <= Len(text) /\ j - 1 <= Len(text) - CheckSize THEN text[j] ELSE 0]

PublicFromText(text) ==
  LET b == ParseExtended(text)
      found == HasX(b[7], b[6] = 3)
  IN  IF b[1] # Magic \/ found = {} THEN {}
      ELSE {Extended(Point(CHOOSE k \in found : TRUE), b[5], b[4], b[3], b[2])}
PrivateFromText(text) ==
  LET b == ParseExtended(text)
  IN  IF b[1] # Magic + 1 THEN {} ELSE {Extended(b[7], b[5], b[4], b[3], b[2])}

\* to_base58() and from_base58() of public_key, to_base58() and generate_from_base58() of
\* private_key, which takes either sum.
KeyText(P, hash) == ToText(Packed(P), hash)
KeyFromText(text, hash) ==
  LET key == Front(text)
      found == HasX(key[2], key[1] = 3)
  IN  IF Last(text) # SumOf(hash, key) \/ found = {} THEN Refused
      ELSE Point(CHOOSE k \in found : TRUE)
SecretText(secret) == ToText(<<Version, secret>>, "sha256 twice")
SecretFromText(text) ==
  IF Len(text) < 3 \/ Last(text) \notin {SumOf(h, Front(text)) : h \in {"sha256", "sha256 twice"}}
  THEN {}
  ELSE {text[2]}
----
(* Blind signatures: alice hides a hash, bob signs it, alice unhides it. 0 stands for a throw. *)

KeyOf(found, none) == IF found = {} THEN none ELSE (CHOOSE x \in found : TRUE).key
Hidden(alice, i) == [n \in 0..3 |-> KeyOf(PrivateHardened(alice, 4 * i + n), 0)]
Scalar(P) == IF P = Refused THEN 0 ELSE P[2]
PublicPair(bob, i) == [n \in 0..1 |-> Scalar(KeyOf(PublicNormal(bob, 2 * i + n), Refused))]

BlindHash(alice, hash, i) == LET h == Hidden(alice, i) IN Plus(Times(h[0], hash), h[1])

\* compute_p() and compute_q(), of the signer
BlindSign(bob, blinded, i) ==
  LET p == Reciprocal(KeyOf(PrivateNormal(bob, 2 * i), 0))
      q == Times(KeyOf(PrivateNormal(bob, 2 * i + 1), 0), p)
  IN  Plus(Times(p, blinded), q)

ComputeK(a, c, p) == Times(p, Reciprocal(Times(a, c)))
ComputeT(h, pq) ==
  LET hidden == Plus(Plus(Times(pq[0], Times(Reciprocal(h[2]), h[3])), pq[1]), h[1])
      k == ComputeK(h[0], h[2], pq[0])
  IN  IF k = 0 THEN 0 ELSE Times(hidden, Reciprocal(Times(XOf(k), h[0])))
BlindPublicKey(alice, bobPublic, i) == ComputeT(Hidden(alice, i), PublicPair(bobPublic, i))

\* secp256k1_ecdsa_recover(): the point that signed, or 0.
Recover(r, s, odd, hash) ==
  LET found == HasX(r, odd)
  IN  IF found = {} \/ s = 0 THEN 0
      ELSE LET R == CHOOSE k \in found : TRUE IN Times(Mod(s * R - hash), Reciprocal(r))

Canonicalize(s) == IF 2 * s <= Order THEN s ELSE Order - s

\* unblind_signature(): tries which of the points with this x gives it.
Unblind(alice, bobPublic, signature, hash, i) ==
  LET h == Hidden(alice, i)
      pq == PublicPair(bobPublic, i)
      k == ComputeK(h[0], h[2], pq[0])
      T == ComputeT(h, pq)
      s == Canonicalize(Plus(Times(h[2], signature), h[3]))
      right == {odd \in BOOLEAN : Recover(XOf(k), s, odd, hash) = T}
  IN  IF k = 0 \/ T = 0 \/ s \in {0, Order} \/ right = {} THEN {}
      ELSE {[r |-> XOf(k), s |-> s, odd |-> CHOOSE odd \in right : TRUE]}
----
(* Properties. *)

\* child() of a public key is the public key of child() of its secret, unless the hash is beyond the
\* order, which the one refuses and the other reduces.
ChildrenAreTwins(secret, offset) ==
  LET P == PublicOf(secret)
      child == PublicChild(P, offset)
  IN  \/ child = PublicOf(PrivateChild(secret, offset))
      \/ child = Refused /\ Hashed(Packed(P) \o <<offset>>) >= Order

\* derive_child() of the public part is the public part of derive_child(), or refused with it; a
\* hardened child (i < 0) has a secret only.
DerivedAreTwins(x, i) ==
  PublicDerived(ExtendedPublic(x), i) =
      IF i < 0 THEN {} ELSE {ExtendedPublic(d) : d \in PrivateDerived(x, i)}

\* An extended key's text gives it back at every depth and is refused as that of the other sort; a
\* key's own text is read under its own sum only.
TextsReturn(x) ==
  LET pub == ExtendedPublic(x)
      privateText == ToText(SerializePrivate(x), "sha256 twice")
      publicText == ToText(SerializePublic(pub), "sha256 twice")
  IN  /\ PrivateFromText(privateText) = {x} /\ PublicFromText(publicText) = {pub}
      /\ PrivateFromText(publicText) = {} /\ PublicFromText(privateText) = {}
      /\ SecretFromText(SecretText(x.key)) = {x.key}
      /\ \A made, read \in {"sha256", "ripemd160"} :
            KeyFromText(KeyText(pub.key, made), read) = IF made = read THEN pub.key ELSE Refused

\* What bob signed blindly is, unblinded, a low-s signature of the hash by the key
\* blind_public_key() names.
UnblindedIsSigned(alice, bob, hash, i) ==
  LET pub == ExtendedPublic(bob)
      blinded == BlindHash(alice, hash, i)
      signed == BlindSign(bob, blinded, i)
      T == BlindPublicKey(alice, pub, i)
      whole == Unblind(alice, pub, signed, hash, i)
  IN  blinded # 0 /\ signed # 0 /\ T # 0 /\ Plus(Times(Hidden(alice, i)[2], signed), Hidden(alice, i)[3]) # 0
      => \E w \in whole : 2 * w.s <= Order /\ Recover(w.r, w.s, w.odd, hash) = T

----
(* blowfish.cpp (schedule, rounds, modes) and aes.cpp (texts in pieces, padded texts, files). A word
   is the set of its bits, a block two words, a text a sequence of blocks. F has one table instead
   of four. For OpenSSL's cipher any that can be undone will do; these rounds are taken. *)

CONSTANTS
    WordBits,     \* the bits of a word
    LastP,        \* the rounds + 1, odd: m_auiP is indexed by 0..LastP
    MaxKey        \* 56: how much of a key is used

ASSUME CiphersAssumption == LastP \in Nat /\ LastP % 2 = 1 /\ MaxKey \in Nat \ {0}

CipherWords == SUBSET WordBits
a ^^ b == (a \ b) \union (b \ a)
ZeroBlock == <<{}, {}>>
Xor(b, c) == <<b[1] ^^ c[1], b[2] ^^ c[2]>>
----
(* The rounds.  A schedule is [P, S]. *)

\* One round changes the half that the next one looks at.
RoundOf(S, block, key) == <<(block[2] ^^ S[block[1]]) ^^ key, block[1]>>

\* Fault: the last key but one is not applied.
EncryptBlockShort(k, block) ==
  LET b == FoldLeft(LAMBDA at, i : RoundOf(k.S, at, k.P[i]),
                    <<block[1] ^^ k.P[0], block[2]>>, [i \in 1..LastP - 2 |-> i])
  IN  <<b[2] ^^ k.P[LastP], b[1]>>

\* All keys from the first to the last, and the halves change places.
EncryptBlock(k, block) ==
  LET b == FoldLeft(LAMBDA at, i : RoundOf(k.S, at, k.P[i]),
                    <<block[1] ^^ k.P[0], block[2]>>, [i \in 1..LastP - 1 |-> i])
  IN  <<b[2] ^^ k.P[LastP], b[1]>>

DecryptBlock(k, block) ==
  LET b == FoldLeft(LAMBDA at, i : RoundOf(k.S, at, k.P[LastP - i]),
                    <<block[1] ^^ k.P[LastP], block[2]>>, [i \in 1..LastP - 1 |-> i])
  IN  <<b[2] ^^ k.P[0], b[1]>>

\* start(): the key repeated over the tables; then each two words of P and S become the cipher of a
\* block of zeros.
Schedule(initial, key) ==
  LET n == IF Len(key) > MaxKey THEN MaxKey ELSE Len(key)
      keyed == [initial EXCEPT !.P = [i \in 0..LastP |-> @[i] ^^ key[1 + (i % n)]]]
      reflected == FoldLeft(
          LAMBDA at, i : LET b == EncryptBlock(at.k, at.b)
                         IN  [k |-> [at.k EXCEPT !.P[2 * i] = b[1], !.P[2 * i + 1] = b[2]], b |-> b],
          [k |-> keyed, b |-> ZeroBlock], [i \in 1..(LastP + 1) \div 2 |-> i - 1])
      words == SetToSeq(CipherWords)
  IN  FoldLeft(LAMBDA at, i : LET b == EncryptBlock(at.k, at.b)
                              IN  [k |-> [at.k EXCEPT !.S[words[2 * i - 1]] = b[1], !.S[words[2 * i]] = b[2]], b |-> b],
               reflected, [i \in 1..Len(words) \div 2 |-> i]).k
----
(* The modes: of a text, and the chain that is left; a call of blowfish begins with the chain of
   start(). *)

EncryptStep(k, mode, at, block) ==
  LET b == CASE mode = "CBC" -> EncryptBlock(k, Xor(block, at.chain))
             [] mode = "CFB" -> Xor(block, EncryptBlock(k, at.chain))
             [] mode = "ECB" -> EncryptBlock(k, block)
  IN  [out |-> Append(at.out, b), chain |-> b]

DecryptStep(k, mode, at, block) ==
  LET b == CASE mode = "CBC" -> Xor(DecryptBlock(k, block), at.chain)
             [] mode = "CFB" -> Xor(block, EncryptBlock(k, at.chain))
             [] mode = "ECB" -> DecryptBlock(k, block)
  IN  [out |-> Append(at.out, b), chain |-> block]

Begun(chain) == [out |-> <<>>, chain |-> chain]
Encrypt(k, mode, chain, text) == FoldLeft(LAMBDA at, b : EncryptStep(k, mode, at, b), Begun(chain), text)
Decrypt(k, mode, chain, text) == FoldLeft(LAMBDA at, b : DecryptStep(k, mode, at, b), Begun(chain), text)
----
(* aes.cpp: a text is a sequence of words; the unpadded encoder throws unless they fill blocks. *)

Blocks(words) == [i \in 1..Len(words) \div 2 |-> <<words[2 * i - 1], words[2 * i]>>]
WordsOf(blocks) == FoldLeft(LAMBDA w, b : w \o b, <<>>, blocks)

\* aes_encoder::encode() and aes_decoder::decode(): the context keeps the chain.
EncodePiece(k, at, piece) ==
  LET r == Encrypt(k, "CBC", at.chain, piece) IN [out |-> at.out \o r.out, chain |-> r.chain]
DecodePiece(k, at, piece) ==
  LET r == Decrypt(k, "CBC", at.chain, piece) IN [out |-> at.out \o r.out, chain |-> r.chain]

\* aes_encrypt() and aes_decrypt() of a vector: one or two words are added that tell how many; the
\* empty set is a throw.
Padding(n) == [i \in 1..n |-> {w \in WordBits : w < n}]
AesEncrypt(k, iv, words) == Encrypt(k, "CBC", iv, Blocks(words \o Padding(2 - (Len(words) % 2)))).out

AesDecrypt(k, iv, blocks) ==
  LET words == WordsOf(Decrypt(k, "CBC", iv, blocks).out)
      told == {n \in 1..2 : Len(words) >= n /\ Padding(n) = SubSeq(words, Len(words) - n + 1, Len(words))}
  IN  IF told = {} THEN {} ELSE {SubSeq(words, 1, Len(words) - (CHOOSE n \in told : TRUE))}

\* aes_save() writes the sum of the key with what it encrypted; aes_load() requires that sum.
AesFile(name, k, iv, words) ==
  LET cipher == AesEncrypt(k, iv, words) IN [check |-> <<name, cipher>>, cipher |-> cipher]
AesLoad(name, k, iv, file) ==
  IF file.check # <<name, file.cipher>> THEN {} ELSE AesDecrypt(k, iv, file.cipher)
----
(* Properties. *)

\* What is encrypted in one of the modes is decrypted to what it was.
DecryptedReturns(k, mode, chain, text) ==
  Decrypt(k, mode, chain, Encrypt(k, mode, chain, text).out).out = text

\* A changed block spoils itself and, where blocks are chained, the next one; no other.
DamageStays(k, mode, chain, text, i, block) ==
  \A sent \in {Encrypt(k, mode, chain, text).out} :
    \A got \in {Decrypt(k, mode, chain, [sent EXCEPT ![i] = block]).out} :
      \A j \in DOMAIN text : got[j] # text[j] => j = i \/ (mode # "ECB" /\ j = i + 1)

\* A text encoded in some pieces and decoded in others comes out whole.
PiecesJoin(k, text, cut, other) ==
  \A begun \in {EncodePiece(k, Begun(ZeroBlock), SubSeq(text, 1, cut))} :
    \A sent \in {EncodePiece(k, begun, SubSeq(text, cut + 1, Len(text))).out} :
      \A read \in {DecodePiece(k, Begun(ZeroBlock), SubSeq(sent, 1, other))} :
        DecodePiece(k, read, SubSeq(sent, other + 1, Len(sent))).out = text

\* A file gives back what was saved under its key, and nothing under another key or when a block was
\* changed.
FileIsSealed(k, iv, words, other, block) ==
  \A file \in {AesFile("key", k, iv, words)} :
      /\ AesLoad("key", k, iv, file) = {words}
      /\ AesLoad("other", other, iv, file) = {}
      /\ block # file.cipher[1] => AesLoad("key", k, iv, [file EXCEPT !.cipher[1] = block]) = {}
====
