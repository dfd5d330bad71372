----------------------- MODULE EncryptedColumn_proofs -----------------------
(***************************************************************************)
(* Theorems about EncryptedColumn for every set of keys, salts and values, *)
(* whatever the lengths of their JSON texts.                               *)
(***************************************************************************)
EXTENDS EncryptedColumn, TLAPS

(* Every ciphertext that can be in the column is decrypted by the backends  *)
(* with the identity of its key and by no other.                           *)
Faithful(ct) ==
  \A b \in Backend :
    Decrypts(b, ct) <=> Identity(KindOf(ct.key), ct.key.secret) = Identity(b.kind, b.secret)

MadeBy(b, ct) == Identity(KindOf(ct.key), ct.key.secret) = Identity(b.kind, b.secret)

ServiceOK(bs) ==
  /\ bs \in Seq(Backend)
  /\ bs # <<>>
  /\ \A i, j \in DOMAIN bs : bs[i].id = bs[j].id => i = j

TextOK(t) ==
  \/ t \in {E!NullText, E!NotBase64, E!TooShort}
  \/ /\ t.kind = "envelope"
     /\ Faithful(t.ct)

AuthorOK ==
  author # NoService =>
    /\ ServiceOK(author)
    /\ \/ text = E!NullText
       \/ /\ text.kind = "envelope"
          /\ text.version = 1
          /\ text.id = author[1].id
          /\ MadeBy(author[1], text.ct)

Inv ==
  /\ svc # NoService => ServiceOK(svc)
  /\ TextOK(text)
  /\ AuthorOK

-----------------------------------------------------------------------------
(* Formats.                                                                *)

(* The shortest token, of an empty value, has 100 bytes: a salted ciphertext*)
(* always reaches MIN_SALTED_LENGTH.                                       *)
LEMMA TokenLengthBound ==
  ASSUME NEW n \in Nat
  PROVE  TokenLength(n) \in Nat /\ TokenLength(n) >= 100
  <1>1. n \div 16 \in Nat
    OBVIOUS
  <1>. DEFINE q == n \div 16
  <1>. HIDE DEF q
  <1>2. q \in Nat
    BY <1>1 DEF q
  <1>3. (1 + 8 + 16 + 16 * (q + 1) + 32 + 2) \div 3 >= 25
    BY <1>2
  <1>4. (1 + 8 + 16 + 16 * (q + 1) + 32 + 2) \div 3 \in Nat
    BY <1>2
  <1>5. TokenLength(n) = 4 * ((1 + 8 + 16 + 16 * (q + 1) + 32 + 2) \div 3)
    BY DEF TokenLength, q
  <1>. DEFINE d == (1 + 8 + 16 + 16 * (q + 1) + 32 + 2) \div 3
  <1>. HIDE DEF d
  <1>6. d \in Nat /\ d >= 25 /\ TokenLength(n) = 4 * d
    BY <1>3, <1>4, <1>5 DEF d
  <1>. QED BY <1>6

(* A backend is of one of the four kinds.                                   *)
LEMMA BackendKinds ==
  ASSUME NEW b \in Backend
  PROVE  /\ b.kind \in {"passphrase", "fernetKey", "aesGcm", "custom"}
         /\ b.id \in Nat
  <1>1. CustomId \subseteq Nat
    BY ColumnAssumption
  <1>2. CASE b \in [kind : {"passphrase"}, secret : Passphrase, id : {BACKEND_FERNET}]
    BY <1>2 DEF BACKEND_FERNET
  <1>3. CASE b \in [kind : {"fernetKey"}, secret : FernetKey, id : {BACKEND_FERNET}]
    BY <1>3 DEF BACKEND_FERNET
  <1>4. CASE b \in [kind : {"aesGcm"}, secret : AesKey, id : {BACKEND_AES_GCM}]
    BY <1>4 DEF BACKEND_AES_GCM
  <1>5. CASE b \in [kind : {"custom"}, secret : CustomKey, id : CustomId]
    BY <1>1, <1>5
  <1>. QED BY <1>2, <1>3, <1>4, <1>5 DEF Backend

(* What a passphrase backend writes: always recognised as salted, opened    *)
(* by that passphrase only.                                                 *)
LEMMA SaltedFaithful ==
  ASSUME NEW p, NEW s \in Salt, NEW v \in Value, NEW ct,
         ct = CiphertextOf(SALT_MARKER, 1 + SALT_LENGTH + TokenLength(Length[v]), s,
                           PerOpKey(p, s), v)
  PROVE  Faithful(ct) /\ Identity(KindOf(ct.key), ct.key.secret) = Identity("passphrase", p)
  <1>1. Length[v] \in Nat
    BY ColumnAssumption
  <1>2. IsSalted(ct)
    BY <1>1, TokenLengthBound
       DEF IsSalted, CiphertextOf, SALT_MARKER, SALT_LENGTH, MIN_SALTED_LENGTH
  <1>3. ct.key = KeyTerm("hkdf", p, s) /\ ct.salt = s
    BY DEF CiphertextOf, PerOpKey
  <1>4. Identity(KindOf(ct.key), ct.key.secret) = Identity("passphrase", p)
    BY <1>3 DEF KindOf, KeyTerm, Identity
  <1>5. ASSUME NEW b \in Backend
        PROVE  Decrypts(b, ct) <=> Identity("passphrase", p) = Identity(b.kind, b.secret)
    <2>1. CASE b.kind = "passphrase"
      <3>1. Decrypts(b, ct) <=> KeyTerm("hkdf", p, s) = KeyTerm("hkdf", b.secret, s)
        BY <1>2, <1>3, <2>1
           DEF Decrypts, FernetDecrypts, DecryptsSalted, DecryptsLegacy, PerOpKey
      <3>. QED BY <3>1, <2>1 DEF KeyTerm, Identity
    <2>2. CASE b.kind = "fernetKey"
      BY <1>2, <2>2 DEF Decrypts, FernetDecrypts, DecryptsSalted, DecryptsLegacy, Identity
    <2>3. CASE b.kind = "aesGcm"
      BY <1>3, <2>3 DEF Decrypts, AesGcmDecrypts, OwnKey, KeyTerm, Identity
    <2>4. CASE b.kind = "custom"
      BY <1>3, <2>4 DEF Decrypts, OwnKey, KeyTerm, Identity
    <2>. QED BY <2>1, <2>2, <2>3, <2>4, BackendKinds
  <1>. QED BY <1>4, <1>5 DEF Faithful

(* What a release without salts wrote: taken for a legacy token, opened by  *)
(* the same passphrase only.                                                *)
LEMMA LegacyTokenFaithful ==
  ASSUME NEW p, NEW v \in Value, NEW ct, ct = Token(OldReleaseKey(p), v)
  PROVE  Faithful(ct) /\ Identity(KindOf(ct.key), ct.key.secret) = Identity("passphrase", p)
  <1>1. Length[v] \in Nat
    BY ColumnAssumption
  <1>2. ~IsSalted(ct) /\ ct.first >= 43 /\ ct.length > 0
    BY <1>1, TokenLengthBound
       DEF IsSalted, Token, CiphertextOf, SALT_MARKER, TOKEN_FIRST_BYTE
  <1>3. ct.key = KeyTerm("pbkdf2", p, NoSalt)
    BY DEF Token, CiphertextOf, OldReleaseKey
  <1>4. Identity(KindOf(ct.key), ct.key.secret) = Identity("passphrase", p)
    BY <1>3 DEF KindOf, KeyTerm, Identity
  <1>5. ASSUME NEW b \in Backend
        PROVE  Decrypts(b, ct) <=> Identity("passphrase", p) = Identity(b.kind, b.secret)
    <2>1. CASE b.kind = "passphrase"
      <3>1. Decrypts(b, ct)
              <=> KeyTerm("pbkdf2", p, NoSalt) = KeyTerm("pbkdf2", b.secret, NoSalt)
        BY <1>2, <1>3, <2>1
           DEF Decrypts, FernetDecrypts, DecryptsSalted, DecryptsLegacy, LegacyKey,
               OldReleaseKey
      <3>. QED BY <3>1, <2>1 DEF KeyTerm, Identity
    <2>2. CASE b.kind = "fernetKey"
      BY <1>2, <1>3, <2>2
         DEF Decrypts, FernetDecrypts, DecryptsSalted, DecryptsLegacy, LegacyKey,
             KeyTerm, Identity
    <2>3. CASE b.kind = "aesGcm"
      BY <1>3, <2>3 DEF Decrypts, AesGcmDecrypts, OwnKey, KeyTerm, Identity
    <2>4. CASE b.kind = "custom"
      BY <1>3, <2>4 DEF Decrypts, OwnKey, KeyTerm, Identity
    <2>. QED BY <2>1, <2>2, <2>3, <2>4, BackendKinds
  <1>. QED BY <1>4, <1>5 DEF Faithful

(* What a backend with a Fernet key writes: opened by that key only.        *)
LEMMA DirectTokenFaithful ==
  ASSUME NEW k, NEW v \in Value, NEW ct, ct = Token(KeyTerm("direct", k, NoSalt), v)
  PROVE  Faithful(ct) /\ Identity(KindOf(ct.key), ct.key.secret) = Identity("fernetKey", k)
  <1>1. Length[v] \in Nat
    BY ColumnAssumption
  <1>2. ~IsSalted(ct) /\ ct.first >= 43 /\ ct.length > 0
    BY <1>1, TokenLengthBound
       DEF IsSalted, Token, CiphertextOf, SALT_MARKER, TOKEN_FIRST_BYTE
  <1>3. ct.key = KeyTerm("direct", k, NoSalt)
    BY DEF Token, CiphertextOf
  <1>4. Identity(KindOf(ct.key), ct.key.secret) = Identity("fernetKey", k)
    BY <1>3 DEF KindOf, KeyTerm, Identity
  <1>5. ASSUME NEW b \in Backend
        PROVE  Decrypts(b, ct) <=> Identity("fernetKey", k) = Identity(b.kind, b.secret)
    <2>1. CASE b.kind = "passphrase"
      BY <1>2, <1>3, <2>1
         DEF Decrypts, FernetDecrypts, DecryptsSalted, DecryptsLegacy,
             LegacyKey, OldReleaseKey, KeyTerm, Identity
    <2>2. CASE b.kind = "fernetKey"
      <3>1. Decrypts(b, ct)
              <=> KeyTerm("direct", k, NoSalt) = KeyTerm("direct", b.secret, NoSalt)
        BY <1>2, <1>3, <2>2
           DEF Decrypts, FernetDecrypts, DecryptsSalted, DecryptsLegacy, LegacyKey
      <3>. QED BY <3>1, <2>2 DEF KeyTerm, Identity
    <2>3. CASE b.kind = "aesGcm"
      BY <1>3, <2>3 DEF Decrypts, AesGcmDecrypts, OwnKey, KeyTerm, Identity
    <2>4. CASE b.kind = "custom"
      BY <1>3, <2>4 DEF Decrypts, OwnKey, KeyTerm, Identity
    <2>. QED BY <2>1, <2>2, <2>3, <2>4, BackendKinds
  <1>. QED BY <1>4, <1>5 DEF Faithful

(* A ciphertext under a key that is neither derived nor a Fernet key.       *)
LEMMA OwnFaithful ==
  ASSUME NEW kind \in {"aesGcm", "custom", "garbage"}, NEW k, NEW ct,
         ct.key = KeyTerm(kind, k, NoSalt),
         kind = "aesGcm" => ct.length >= MIN_CIPHERTEXT_LENGTH
  PROVE  Faithful(ct) /\ Identity(KindOf(ct.key), ct.key.secret) = Identity(kind, k)
  <1>1. Identity(KindOf(ct.key), ct.key.secret) = Identity(kind, k)
    BY DEF KindOf, KeyTerm, Identity
  <1>2. ASSUME NEW b \in Backend
        PROVE  Decrypts(b, ct) <=> Identity(kind, k) = Identity(b.kind, b.secret)
    <2>1. CASE b.kind \in {"passphrase", "fernetKey"}
      <3>1. LegacyKey(b).derivation \in {"pbkdf2", "direct"}
        BY DEF LegacyKey, OldReleaseKey, KeyTerm
      <3>2. PerOpKey(b.secret, ct.salt).derivation = "hkdf"
        BY DEF PerOpKey, KeyTerm
      <3>3. ct.key.derivation = kind
        BY DEF KeyTerm
      <3>4. ct.key # LegacyKey(b) /\ ct.key # PerOpKey(b.secret, ct.salt)
        BY <3>1, <3>2, <3>3
      <3>5. ~Decrypts(b, ct)
        BY <2>1, <3>4 DEF Decrypts, FernetDecrypts, DecryptsSalted, DecryptsLegacy
      <3>6. Identity(kind, k).kind = kind /\ Identity(b.kind, b.secret).kind = b.kind
        BY DEF Identity
      <3>. QED BY <3>5, <3>6, <2>1
    <2>2. CASE b.kind = "aesGcm"
      <3>1. Decrypts(b, ct) <=> /\ ct.length >= MIN_CIPHERTEXT_LENGTH
                                /\ KeyTerm(kind, k, NoSalt) = KeyTerm("aesGcm", b.secret, NoSalt)
        BY <2>2 DEF Decrypts, AesGcmDecrypts, OwnKey
      <3>. QED BY <3>1, <2>2 DEF KeyTerm, Identity
    <2>3. CASE b.kind = "custom"
      <3>1. Decrypts(b, ct)
              <=> KeyTerm(kind, k, NoSalt) = KeyTerm("custom", b.secret, NoSalt)
        BY <2>3 DEF Decrypts, OwnKey
      <3>. QED BY <3>1, <2>3 DEF KeyTerm, Identity
    <2>. QED BY <2>1, <2>2, <2>3, BackendKinds
  <1>. QED BY <1>1, <1>2 DEF Faithful

(* sync_decrypt inverts sync_encrypt, for values of every length, and a     *)
(* backend with another key refuses.                                       *)
THEOREM RoundTrip ==
  ASSUME NEW b \in Backend, NEW v \in Value, NEW ct \in Encryptions(b, v)
  PROVE  Faithful(ct) /\ MadeBy(b, ct) /\ Decrypts(b, ct)
  <1>1. CASE b.kind = "passphrase"
    <2>1. PICK s \in Salt :
            ct = CiphertextOf(SALT_MARKER, 1 + SALT_LENGTH + TokenLength(Length[v]), s,
                              PerOpKey(b.secret, s), v)
      BY <1>1 DEF Encryptions, FernetEncryptions
    <2>. QED BY <2>1, <1>1, SaltedFaithful DEF MadeBy, Faithful
  <1>2. CASE b.kind = "fernetKey"
    <2>1. ct = Token(KeyTerm("direct", b.secret, NoSalt), v)
      BY <1>2 DEF Encryptions, FernetEncryptions, LegacyKey
    <2>. QED BY <2>1, <1>2, DirectTokenFaithful DEF MadeBy, Faithful
  <1>3. CASE b.kind = "aesGcm"
    <2>1. PICK x \in NonceByte :
            ct = CiphertextOf(x, NONCE_LENGTH + Length[v] + 16, NoSalt, OwnKey(b), v)
      BY <1>3 DEF Encryptions, AesGcmEncryptions
    <2>2. ct.length >= MIN_CIPHERTEXT_LENGTH
      BY <2>1, ColumnAssumption DEF CiphertextOf, MIN_CIPHERTEXT_LENGTH, NONCE_LENGTH
    <2>3. ct.key = KeyTerm("aesGcm", b.secret, NoSalt)
      BY <2>1, <1>3 DEF CiphertextOf, OwnKey
    <2>. QED BY <2>2, <2>3, <1>3, OwnFaithful DEF MadeBy, Faithful
  <1>4. CASE b.kind = "custom"
    <2>1. PICK x \in NonceByte :
            ct = CiphertextOf(x, 1 + Length[v], NoSalt, OwnKey(b), v)
      BY <1>4 DEF Encryptions, CustomEncryptions
    <2>2. ct.key = KeyTerm("custom", b.secret, NoSalt)
      BY <2>1, <1>4 DEF CiphertextOf, OwnKey
    <2>3. Faithful(ct) /\ Identity(KindOf(ct.key), ct.key.secret) = Identity("custom", b.secret)
      BY <2>2, OwnFaithful
    <2>. QED BY <2>3, <1>4 DEF MadeBy, Faithful
  <1>. QED BY <1>1, <1>2, <1>3, <1>4, BackendKinds

-----------------------------------------------------------------------------
(* The invariant.                                                          *)

(* An empty column and no service satisfy the invariant.                    *)
LEMMA InitInv == Init => Inv
  BY DEF Init, Inv, TextOK, AuthorOK, ServiceOK

(* What the constructor accepts has conforming backends and unique ids.     *)
LEMMA ConstructInv ==
  ASSUME Inv, NEW bs \in Lists, Construct(bs)
  PROVE  Inv'
  <1>1. PICK n \in 1..MaxBackends : bs \in [1..n -> Backend \cup {Misfit}]
    BY DEF Lists
  <1>2. n \in Nat /\ n >= 1 /\ DOMAIN bs = 1..n
    BY <1>1, ColumnAssumption
  <1>3. ASSUME Accepts(bs)
        PROVE  ServiceOK(bs)
    <2>1. \A i \in 1..n : bs[i] \in Backend
      BY <1>1, <1>2, <1>3 DEF Accepts
    <2>2. bs \in Seq(Backend) /\ bs # <<>>
      BY <2>1, <1>1, <1>2
    <2>. QED BY <2>2, <1>3 DEF ServiceOK, Accepts
  <1>. QED BY <1>3 DEF Construct, Inv, TextOK, AuthorOK

(* A write leaves a text that its own primary backend opens.                *)
LEMMA WriteInv ==
  ASSUME Inv, NEW v \in Value, Write(v)
  PROVE  Inv'
  <1>1. ServiceOK(svc) /\ svc # NoService
    BY DEF Inv, Write
  <1>2. svc[1] \in Backend
    BY <1>1 DEF ServiceOK
  <1>3. PICK ct \in Encryptions(svc[1], v) :
          text' = E!BuildEnvelope(E!ENVELOPE_VERSION_1, svc[1].id, ct)
    BY DEF Write
  <1>4. Faithful(ct) /\ MadeBy(svc[1], ct)
    BY <1>2, <1>3, RoundTrip
  <1>5. /\ text'.kind = "envelope" /\ text'.version = 1
        /\ text'.id = svc[1].id /\ text'.ct = ct
    BY <1>3 DEF E!BuildEnvelope, E!ENVELOPE_VERSION_1
  <1>. QED BY <1>1, <1>4, <1>5 DEF Write, Inv, TextOK, AuthorOK

(* A damaged text is opened by no backend.                                  *)
LEMMA DamagedFaithful ==
  ASSUME NEW t \in Damaged
  PROVE  TextOK(t)
  <1>1. CASE t \in {E!NotBase64, E!TooShort}
    BY <1>1 DEF TextOK
  <1>2. CASE t \notin {E!NotBase64, E!TooShort}
    <2>1. PICK version \in {1, 2}, id \in {1, 2, 3}, first \in {SALT_MARKER, 42, 43},
              length \in {1, MIN_CIPHERTEXT_LENGTH, MIN_SALTED_LENGTH}, v \in Value :
            t = E!BuildEnvelope(version, id, CiphertextOf(first, length, NoSalt, Garbage, v))
      BY <1>2 DEF Damaged
    <2>2. t.kind = "envelope" /\ t.ct.key = KeyTerm("garbage", NoSalt, NoSalt)
      BY <2>1 DEF E!BuildEnvelope, CiphertextOf, Garbage
    <2>3. Faithful(t.ct)
      BY <2>2, OwnFaithful
    <2>. QED BY <2>2, <2>3 DEF TextOK
  <1>. QED BY <1>1, <1>2

(* Every step keeps the invariant.                                          *)
LEMMA NextInv ==
  ASSUME Inv, [Next]_vars
  PROVE  Inv'
  <1>1. CASE \E bs \in Lists : Construct(bs)
    BY <1>1, ConstructInv
  <1>2. CASE \E v \in Value : Write(v)
    BY <1>2, WriteInv
  <1>3. CASE WriteNull
    BY <1>3 DEF WriteNull, Inv, TextOK, AuthorOK
  <1>4. ASSUME NEW p \in Passphrase, NEW v \in Value, OldReleaseWrite(p, v)
        PROVE  Inv'
    <2>1. text'.kind = "envelope" /\ text'.ct = Token(OldReleaseKey(p), v)
      BY <1>4 DEF OldReleaseWrite, E!BuildEnvelope
    <2>2. Faithful(text'.ct)
      BY <2>1, LegacyTokenFaithful
    <2>. QED BY <1>4, <2>1, <2>2 DEF OldReleaseWrite, Inv, TextOK, AuthorOK
  <1>5. CASE Damage
    BY <1>5, DamagedFaithful DEF Damage, Inv, AuthorOK
  <1>6. CASE UNCHANGED vars
    BY <1>6 DEF vars, Inv, TextOK, AuthorOK
  <1>. QED BY <1>1, <1>2, <1>3, <1>4, <1>5, <1>6 DEF Next

(* The services, the text and its author are always consistent.             *)
THEOREM Invariant == Spec => []Inv
  BY InitInv, NextInv, PTL DEF Spec

(* Whatever the constructor was given, a service has backends only, and     *)
(* the column a text of one of the four kinds.                             *)
THEOREM ColumnTypes == Spec => []TypeOK
  <1>1. Inv => TypeOK
    BY DEF Inv, ServiceOK, AuthorOK, TextOK, TypeOK, E!NullText, E!NotBase64, E!TooShort
  <1>. QED BY <1>1, Invariant, PTL

-----------------------------------------------------------------------------
(* Dispatch and the properties.                                            *)

(* With unique ids, the dispatch map finds every backend under its id.      *)
LEMMA DispatchOfUnique ==
  ASSUME NEW bs, ServiceOK(bs), NEW i \in DOMAIN bs
  PROVE  /\ bs[i] \in Backend
         /\ bs[i].id \in DispatchIds(bs)
         /\ Dispatch(bs, bs[i].id) = bs[i]
  <1>1. bs[i] \in Backend /\ DOMAIN bs \subseteq Nat
    BY DEF ServiceOK
  <1>2. \A k \in DOMAIN bs :
          (bs[k].id = bs[i].id /\ \A j \in DOMAIN bs : bs[j].id = bs[i].id => j <= k)
            <=> k = i
    BY <1>1 DEF ServiceOK
  <1>. QED BY <1>1, <1>2 DEF Dispatch, DispatchIds

(* A service has a primary backend.                                         *)
LEMMA PrimaryInDomain ==
  ASSUME NEW bs, ServiceOK(bs)
  PROVE  1 \in DOMAIN bs
  BY DEF ServiceOK

(* The backends of a service, seen from Envelope.                           *)
LEMMA AbstractBackends ==
  ASSUME NEW bs, ServiceOK(bs)
  PROVE  E!Backends(AbstractConfig(bs)) = {AbstractBackend(bs[i]) : i \in DOMAIN bs}
  BY PrimaryInDomain DEF E!Backends, AbstractConfig, BackendsOf

(* Seen from Envelope they have unique ids: the service is a Config.        *)
LEMMA AbstractUnique ==
  ASSUME NEW bs, ServiceOK(bs)
  PROVE  E!UniqueIds(AbstractConfig(bs))
  <1>1. ASSUME NEW i \in DOMAIN bs, NEW j \in DOMAIN bs,
               AbstractBackend(bs[i]).id = AbstractBackend(bs[j]).id
        PROVE  i = j
    BY <1>1 DEF ServiceOK, AbstractBackend
  <1>. QED BY <1>1, AbstractBackends DEF E!UniqueIds

(* The two dispatch maps have the same ids, and the same backend at each.   *)
LEMMA AbstractDispatch ==
  ASSUME NEW bs, ServiceOK(bs)
  PROVE  /\ DOMAIN E!Dispatch(AbstractConfig(bs)) = DispatchIds(bs)
         /\ \A i \in DOMAIN bs :
              E!Dispatch(AbstractConfig(bs))[bs[i].id] = AbstractBackend(bs[i])
  <1>. DEFINE B == E!Backends(AbstractConfig(bs))
  <1>1. B = {AbstractBackend(bs[i]) : i \in DOMAIN bs}
    BY AbstractBackends
  <1>2. \A i \in DOMAIN bs : AbstractBackend(bs[i]).id = bs[i].id
    BY DEF AbstractBackend
  <1>3. {b.id : b \in B} = DispatchIds(bs)
    BY <1>1, <1>2 DEF DispatchIds
  <1>4. E!Dispatch(AbstractConfig(bs))
          = [x \in {b.id : b \in B} |-> CHOOSE b \in B : b.id = x]
    BY DEF E!Dispatch
  <1>5. ASSUME NEW i \in DOMAIN bs
        PROVE  E!Dispatch(AbstractConfig(bs))[bs[i].id] = AbstractBackend(bs[i])
    <2>1. \A b \in B : b.id = bs[i].id <=> b = AbstractBackend(bs[i])
      BY <1>1, <1>2 DEF ServiceOK
    <2>2. AbstractBackend(bs[i]) \in B /\ bs[i].id \in {b.id : b \in B}
      BY <1>1, <1>2
    <2>3. (CHOOSE b \in B : b.id = bs[i].id) = AbstractBackend(bs[i])
      BY <2>1, <2>2
    <2>. QED BY <1>4, <2>2, <2>3
  <1>. QED BY <1>3, <1>4, <1>5

(* Reading an envelope, in the terms of both modules.                      *)
LEMMA ReadsEnvelope ==
  ASSUME NEW bs, ServiceOK(bs), NEW t, t.kind = "envelope", Faithful(t.ct)
  PROVE  Reads(bs, t) <=>
           E!Parses(t) /\ \E i \in DOMAIN bs : bs[i].id = t.id /\ MadeBy(bs[i], t.ct)
  <1>1. t # E!NullText
    BY DEF E!NullText
  <1>2. \A i \in DOMAIN bs : Decrypts(bs[i], t.ct) <=> MadeBy(bs[i], t.ct)
    BY DispatchOfUnique DEF Faithful, MadeBy
  <1>3. \A i \in DOMAIN bs : bs[i].id = t.id =>
          t.id \in DispatchIds(bs) /\ Dispatch(bs, t.id) = bs[i]
    BY DispatchOfUnique
  <1>4. t.id \in DispatchIds(bs) => \E i \in DOMAIN bs : bs[i].id = t.id
    BY DEF DispatchIds
  <1>. QED BY <1>1, <1>2, <1>3, <1>4 DEF Reads

(* The same of an envelope as Envelope sees it.                             *)
LEMMA ReadableEnvelope ==
  ASSUME NEW bs, ServiceOK(bs), NEW t, t.kind = "envelope"
  PROVE  E!Readable(AbstractConfig(bs), AbstractText(t)) <=>
           E!Parses(t) /\ \E i \in DOMAIN bs : bs[i].id = t.id /\ MadeBy(bs[i], t.ct)
  <1>. DEFINE a == AbstractText(t)
              by == [id |-> t.id, key |-> Identity(KindOf(t.ct.key), t.ct.key.secret)]
              D == E!Dispatch(AbstractConfig(bs))
  <1>1. /\ a.kind = "envelope" /\ a.version = t.version /\ a.id = t.id
        /\ a.ct.by = by
    BY DEF AbstractText, E!BuildEnvelope, E!Encrypt
  <1>2. a # E!NullText
    BY <1>1 DEF E!NullText
  <1>3. E!Parses(a) <=> E!Parses(t)
    BY <1>1 DEF E!Parses
  <1>4. \A i \in DOMAIN bs : bs[i].id = t.id =>
          (E!Opens(D[t.id], a.ct) <=> MadeBy(bs[i], t.ct))
    <2>1. ASSUME NEW i \in DOMAIN bs, bs[i].id = t.id
          PROVE  E!Opens(D[t.id], a.ct) <=> MadeBy(bs[i], t.ct)
      <3>1. D[t.id] = AbstractBackend(bs[i])
        BY <2>1, AbstractDispatch
      <3>2. E!Opens(D[t.id], a.ct) <=> by = AbstractBackend(bs[i])
        BY <3>1, <1>1 DEF E!Opens
      <3>. QED BY <3>2, <2>1 DEF AbstractBackend, MadeBy
    <2>. QED BY <2>1
  <1>5. t.id \in DOMAIN D <=> \E i \in DOMAIN bs : bs[i].id = t.id
    <2>1. DOMAIN D = {bs[i].id : i \in DOMAIN bs}
      BY AbstractDispatch DEF DispatchIds
    <2>. HIDE DEF D
    <2>. QED BY <2>1
  <1>6. E!Readable(AbstractConfig(bs), a) <=>
          E!Parses(t) /\ t.id \in DOMAIN D /\ E!Opens(D[t.id], a.ct)
    BY <1>1, <1>2, <1>3 DEF E!Readable
  <1>. HIDE DEF D, a
  <1>. QED BY <1>4, <1>5, <1>6 DEF a

(* Envelope, and with it every theorem about KeyRotation, abstracts the     *)
(* formats, releases and dispatch maps faithfully.                         *)
THEOREM EnvelopeIsFaithful == Spec => []AgreesWithEnvelope
  <1>1. Inv => AgreesWithEnvelope
    <2>. SUFFICES ASSUME Inv, svc # NoService
                  PROVE  /\ E!UniqueIds(AbstractConfig(svc))
                         /\ Reads(svc, text)
                              <=> E!Readable(AbstractConfig(svc), AbstractText(text))
      BY DEF AgreesWithEnvelope
    <2>1. ServiceOK(svc) /\ TextOK(text)
      BY DEF Inv
    <2>2. CASE text.kind = "envelope" /\ Faithful(text.ct)
      BY <2>1, <2>2, AbstractUnique, ReadsEnvelope, ReadableEnvelope
    <2>3. CASE text \in {E!NullText, E!NotBase64, E!TooShort}
      <3>1. AbstractText(text) = text /\ ~E!Parses(text)
        BY <2>3 DEF AbstractText, E!Parses, E!NullText, E!NotBase64, E!TooShort
      <3>. QED BY <2>1, <3>1, AbstractUnique DEF Reads, E!Readable
    <2>. QED BY <2>1, <2>2, <2>3 DEF TextOK
  <1>. QED BY <1>1, Invariant, PTL

(* With registered ids only, no service writes what it cannot read back.    *)
THEOREM OwnWrites ==
  ASSUME CustomId \subseteq Registry
  PROVE  Spec => []OwnWritesReadable
  <1>1. ASSUME NEW b \in Backend
        PROVE  b.id \in Registry
    <2>1. b.id \in {BACKEND_FERNET, BACKEND_AES_GCM} \cup CustomId
      <3>1. CASE b \in [kind : {"passphrase"}, secret : Passphrase, id : {BACKEND_FERNET}]
        BY <3>1
      <3>2. CASE b \in [kind : {"fernetKey"}, secret : FernetKey, id : {BACKEND_FERNET}]
        BY <3>2
      <3>3. CASE b \in [kind : {"aesGcm"}, secret : AesKey, id : {BACKEND_AES_GCM}]
        BY <3>3
      <3>4. CASE b \in [kind : {"custom"}, secret : CustomKey, id : CustomId]
        BY <3>4
      <3>. QED BY <3>1, <3>2, <3>3, <3>4 DEF Backend
    <2>. QED BY <2>1 DEF Registry
  <1>2. Inv => OwnWritesReadable
    <2>. SUFFICES ASSUME Inv, svc # NoService, author = svc
                  PROVE  Reads(svc, text)
      BY DEF OwnWritesReadable
    <2>1. ServiceOK(svc) /\ TextOK(text) /\ AuthorOK
      BY DEF Inv
    <2>2. CASE text = E!NullText
      BY <2>2 DEF Reads
    <2>3. CASE text # E!NullText
      <3>1. /\ text.kind = "envelope" /\ text.version = 1
            /\ text.id = svc[1].id /\ MadeBy(svc[1], text.ct)
        BY <2>1, <2>3 DEF AuthorOK
      <3>2. 1 \in DOMAIN svc /\ svc[1] \in Backend
        BY <2>1, PrimaryInDomain, DispatchOfUnique
      <3>3. E!Parses(text)
        BY <3>1, <3>2, <1>1 DEF E!Parses, E!ENVELOPE_VERSION_1
      <3>4. Faithful(text.ct)
        BY <2>1, <3>1 DEF TextOK, E!NullText, E!NotBase64, E!TooShort
      <3>. QED BY <2>1, <3>1, <3>2, <3>3, <3>4, ReadsEnvelope
    <2>. QED BY <2>2, <2>3
  <1>. QED BY <1>2, Invariant, PTL

(* A migration to a configuration that knows the old backends loses no data.*)
THEOREM Migration == Spec => MigrationKeepsData
  <1>. DEFINE Kept == (/\ svc # NoService /\ svc' # NoService
                       /\ BackendsOf(svc) \subseteq BackendsOf(svc')
                       /\ Reads(svc, text)) => Reads(svc', text)
  <1>1. Inv /\ Inv' => Kept
    <2>. SUFFICES ASSUME Inv, Inv', svc # NoService, svc' # NoService,
                         BackendsOf(svc) \subseteq BackendsOf(svc'), Reads(svc, text)
                  PROVE  Reads(svc', text)
      OBVIOUS
    <2>1. ServiceOK(svc) /\ ServiceOK(svc') /\ TextOK(text)
      BY DEF Inv
    <2>2. CASE text = E!NullText
      BY <2>2 DEF Reads
    <2>3. CASE text # E!NullText
      <3>1. E!Parses(text) /\ text.kind = "envelope"
        BY <2>3 DEF Reads, E!Parses
      <3>2. Faithful(text.ct)
        BY <2>1, <3>1 DEF TextOK, E!NullText, E!NotBase64, E!TooShort
      <3>3. PICK i \in DOMAIN svc : svc[i].id = text.id /\ MadeBy(svc[i], text.ct)
        BY <2>1, <3>1, <3>2, ReadsEnvelope
      <3>4. svc[i] \in BackendsOf(svc')
        BY DEF BackendsOf
      <3>5. PICK j \in DOMAIN svc' : svc'[j] = svc[i]
        BY <3>4 DEF BackendsOf
      <3>. QED BY <2>1, <3>1, <3>2, <3>3, <3>5, ReadsEnvelope
    <2>. QED BY <2>2, <2>3
  <1>. QED BY <1>1, Invariant, PTL DEF MigrationKeepsData
=============================================================================
