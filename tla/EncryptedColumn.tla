--------------------------- MODULE EncryptedColumn ---------------------------
(***************************************************************************)
(* One encrypted column over the life of a deployment: services are        *)
(* constructed with lists of backends, write and read the column, and are  *)
(* replaced by services with other lists.  This module has the detail that *)
(* Envelope leaves out: the constructor's checks and its dispatch map, the *)
(* ciphertext formats of FernetBackend (salted, legacy, direct key) and    *)
(* AesGcmBackend with the lengths and first bytes that tell them apart.    *)
(* AgreesWithEnvelope states that Envelope, which KeyRotation is built on, *)
(* is the right abstraction of it.                                         *)
(*                                                                         *)
(* Cryptography is abstracted: key derivation is injective and a           *)
(* ciphertext is accepted under the key that made it and no other.  A      *)
(* ciphertext is its first byte, its length, its salt, its key and the     *)
(* value inside.  A value counts through the length of its JSON text.      *)
(***************************************************************************)
EXTENDS Naturals, Sequences

CONSTANTS
  Passphrase,   \* keys given to FernetBackend that are not valid Fernet keys
  FernetKey,    \* keys given to FernetBackend that are
  AesKey,       \* keys of AesGcmBackend
  CustomKey,    \* keys of backends written by the user,
  CustomId,     \*   and the ids those report
  Salt,         \* outcomes of os.urandom
  NoSalt,       \* a ciphertext without salt
  NonceByte,    \* first bytes of AES-GCM nonces and of custom ciphertexts
  Value,        \* JSON values
  Length,       \* Length[v]: bytes of json.dumps(v)
  Misfit,       \* an object that does not conform to EncryptionBackend
  MaxBackends,  \* bound: backends given to one constructor
  NoService     \* no service is up

BACKEND_FERNET  == 1
BACKEND_AES_GCM == 2

Registry == {BACKEND_FERNET, BACKEND_AES_GCM}

Byte == 0..255

Backend ==
  [kind : {"passphrase"}, secret : Passphrase, id : {BACKEND_FERNET}]
    \cup [kind : {"fernetKey"}, secret : FernetKey, id : {BACKEND_FERNET}]
    \cup [kind : {"aesGcm"}, secret : AesKey, id : {BACKEND_AES_GCM}]
    \cup [kind : {"custom"}, secret : CustomKey, id : CustomId]

ASSUME ColumnAssumption ==
  /\ Length \in [Value -> Nat]
  /\ CustomId \subseteq Nat
  /\ NonceByte \subseteq Byte
  /\ NoSalt \notin Salt
  /\ MaxBackends \in Nat
  /\ NoService \notin Seq(Backend)
  /\ Misfit \notin Backend

(* Envelope, with the identity of a key in place of key material.           *)
KeyIdentity ==
  [kind : {"passphrase", "fernetKey", "aesGcm", "custom", "garbage"},
   secret : Passphrase \cup FernetKey \cup AesKey \cup CustomKey \cup {NoSalt}]

E == INSTANCE Envelope WITH
  Id <- Nat, Key <- KeyIdentity, Nonce <- Salt \cup {NoSalt}

-----------------------------------------------------------------------------
(* Ciphertext formats.                                                     *)

KeyTerm(derivation, secret, salt) ==
  [derivation |-> derivation, secret |-> secret, salt |-> salt]

(* HKDF over PBKDF2 with 600,000 iterations.                               *)
PerOpKey(passphrase, salt) == KeyTerm("hkdf", passphrase, salt)

(* What the releases before the salted format derived: 480,000 iterations. *)
OldReleaseKey(passphrase) == KeyTerm("pbkdf2", passphrase, NoSalt)

(* No backend has the key of a ciphertext that was cut short.               *)
Garbage == KeyTerm("garbage", NoSalt, NoSalt)

(* Mutant of LegacyKey: a passphrase is used as if it were a Fernet key.    *)
LegacyKeyUnderived(b) == KeyTerm("direct", b.secret, NoSalt)

(* _legacy_fernet of a FernetBackend.                                      *)
LegacyKey(b) ==
  IF b.kind = "passphrase" THEN OldReleaseKey(b.secret)
                           ELSE KeyTerm("direct", b.secret, NoSalt)

(* _aesgcm of an AesGcmBackend, or the key of a custom backend.             *)
OwnKey(b) == KeyTerm(b.kind, b.secret, NoSalt)

SALT_MARKER       == 1
SALT_LENGTH       == 16
MIN_SALTED_LENGTH == 1 + SALT_LENGTH + 100

NONCE_LENGTH          == 12
MIN_CIPHERTEXT_LENGTH == NONCE_LENGTH + 16

(* A Fernet token: base64url, which makes its first byte "g", of version,   *)
(* timestamp, IV, the padded AES-CBC blocks and the HMAC.                   *)
TOKEN_FIRST_BYTE == 103

TokenLength(n) == 4 * ((1 + 8 + 16 + 16 * (n \div 16 + 1) + 32 + 2) \div 3)

CiphertextOf(first, length, salt, key, v) ==
  [first |-> first, length |-> length, salt |-> salt, key |-> key, plain |-> v]

Token(key, v) ==
  CiphertextOf(TOKEN_FIRST_BYTE, TokenLength(Length[v]), NoSalt, key, v)

(* What sync_encrypt may return for v, per backend.                        *)
FernetEncryptions(b, v) ==
  IF b.kind = "passphrase"
  THEN {CiphertextOf(SALT_MARKER, 1 + SALT_LENGTH + TokenLength(Length[v]), s,
                     PerOpKey(b.secret, s), v) : s \in Salt}
  ELSE {Token(LegacyKey(b), v)}

AesGcmEncryptions(b, v) ==
  {CiphertextOf(x, NONCE_LENGTH + Length[v] + 16, NoSalt, OwnKey(b), v) : x \in NonceByte}

CustomEncryptions(b, v) ==
  {CiphertextOf(x, 1 + Length[v], NoSalt, OwnKey(b), v) : x \in NonceByte}

Encryptions(b, v) ==
  CASE b.kind \in {"passphrase", "fernetKey"} -> FernetEncryptions(b, v)
    [] b.kind = "aesGcm" -> AesGcmEncryptions(b, v)
    [] b.kind = "custom" -> CustomEncryptions(b, v)

(* Mutant of IsSalted: the boundary is off by one.                         *)
IsSaltedAbove(ct) ==
  ct.first = SALT_MARKER /\ ct.length > MIN_SALTED_LENGTH

IsSalted(ct) == ct.first = SALT_MARKER /\ ct.length >= MIN_SALTED_LENGTH

DecryptsSalted(b, ct) ==
  b.kind = "passphrase" /\ ct.key = PerOpKey(b.secret, ct.salt)

DecryptsLegacy(b, ct) == ct.key = LegacyKey(b)

(* sync_decrypt returns, with the value inside, rather than raises.  No     *)
(* token starts with a byte below 0x2B = 43.                               *)
FernetDecrypts(b, ct) ==
  IF IsSalted(ct)
  THEN DecryptsSalted(b, ct)
  ELSE ct.length > 0 /\ ct.first >= 43 /\ DecryptsLegacy(b, ct)

AesGcmDecrypts(b, ct) ==
  ct.length >= MIN_CIPHERTEXT_LENGTH /\ ct.key = OwnKey(b)

Decrypts(b, ct) ==
  CASE b.kind \in {"passphrase", "fernetKey"} -> FernetDecrypts(b, ct)
    [] b.kind = "aesGcm" -> AesGcmDecrypts(b, ct)
    [] b.kind = "custom" -> ct.key = OwnKey(b)

-----------------------------------------------------------------------------
(* The column and the services.                                            *)

VARIABLES
  svc,     \* the backends of the service that is up, the primary one first
  text,    \* the stored text of the column
  author   \* history: the backends of the service that wrote it, or NoService

vars == <<svc, text, author>>

BackendsOf(bs) == {bs[i] : i \in DOMAIN bs}

(* Mutant of Accepts: duplicate ids pass.                                  *)
AcceptsDuplicates(bs) == \A i \in DOMAIN bs : bs[i] # Misfit

(* Mutant of Accepts: only the primary backend is checked for conformance.  *)
AcceptsMisfits(bs) ==
  /\ bs[1] # Misfit
  /\ \A i, j \in DOMAIN bs :
       bs[i] # Misfit /\ bs[j] # Misfit /\ bs[i].id = bs[j].id => i = j

(* __init__ does not raise ConfigurationError.                             *)
Accepts(bs) ==
  /\ \A i \in DOMAIN bs : bs[i] # Misfit
  /\ \A i, j \in DOMAIN bs : bs[i].id = bs[j].id => i = j

(* decrypt_dispatch: of several entries with one key a dict keeps the last.*)
DispatchIds(bs) == {bs[i].id : i \in DOMAIN bs}

Dispatch(bs, id) ==
  bs[CHOOSE i \in DOMAIN bs :
       bs[i].id = id /\ \A j \in DOMAIN bs : bs[j].id = id => j <= i]

Init ==
  /\ svc = NoService
  /\ text = E!NullText
  /\ author = NoService

Lists == UNION {[1..n -> Backend \cup {Misfit}] : n \in 1..MaxBackends}

(* A process starts or restarts: EncryptedSessionService(bs[1], rest of bs).*)
Construct(bs) ==
  /\ svc' = IF Accepts(bs) THEN bs ELSE NoService
  /\ UNCHANGED <<text, author>>

(* process_bind_param of v.  bytes([version, id]) takes a byte or raises.   *)
Write(v) ==
  /\ svc # NoService
  /\ svc[1].id \in Byte
  /\ \E ct \in Encryptions(svc[1], v) :
       text' = E!BuildEnvelope(E!ENVELOPE_VERSION_1, svc[1].id, ct)
  /\ author' = svc
  /\ UNCHANGED svc

WriteNull ==
  /\ svc # NoService
  /\ text' = E!NullText
  /\ author' = svc
  /\ UNCHANGED svc

(* A release without salts, constructed with passphrase p, wrote v.         *)
OldReleaseWrite(p, v) ==
  /\ text' = E!BuildEnvelope(E!ENVELOPE_VERSION_1, BACKEND_FERNET,
                              Token(OldReleaseKey(p), v))
  /\ author' = NoService
  /\ UNCHANGED svc

(* The text was never an envelope, or is one of another format, or its      *)
(* ciphertext was cut short.                                               *)
Damaged ==
  {E!NotBase64, E!TooShort} \cup
  {E!BuildEnvelope(version, id, CiphertextOf(first, length, NoSalt, Garbage, v)) :
     version \in {1, 2}, id \in {1, 2, 3}, first \in {SALT_MARKER, 42, 43},
     length \in {1, MIN_CIPHERTEXT_LENGTH, MIN_SALTED_LENGTH}, v \in Value}

Damage ==
  /\ text' \in Damaged
  /\ author' = NoService
  /\ UNCHANGED svc

Next ==
  \/ \E bs \in Lists : Construct(bs)
  \/ \E v \in Value : Write(v)
  \/ WriteNull
  \/ \E p \in Passphrase, v \in Value : OldReleaseWrite(p, v)
  \/ Damage

Spec == Init /\ [][Next]_vars

(* process_result_value of a service with backends bs returns.             *)
Reads(bs, t) ==
  \/ t = E!NullText
  \/ /\ E!Parses(t)
     /\ t.id \in DispatchIds(bs)
     /\ Decrypts(Dispatch(bs, t.id), t.ct)

-----------------------------------------------------------------------------
(* Properties.                                                             *)

(* Every variable has its type: no service runs with a misfit.              *)
TypeOK ==
  /\ svc = NoService \/ svc \in Seq(Backend)
  /\ text.kind \in {"null", "notBase64", "tooShort", "envelope"}
  /\ author = NoService \/ author \in Seq(Backend)

(* What the models built on Envelope rely on: seen from there, a service    *)
(* has one backend per id, and whether a column can be read is decided by   *)
(* the id in its header and the identity of the key, through every format,  *)
(* release, length and damage.                                             *)
KindOf(key) ==
  CASE key.derivation \in {"hkdf", "pbkdf2"} -> "passphrase"
    [] key.derivation = "direct" -> "fernetKey"
    [] OTHER -> key.derivation

Identity(kind, secret) == [kind |-> kind, secret |-> secret]

AbstractBackend(b) == [id |-> b.id, key |-> Identity(b.kind, b.secret)]

AbstractConfig(bs) ==
  [primary |-> AbstractBackend(bs[1]),
   extras  |-> {AbstractBackend(b) : b \in BackendsOf(bs)}]

AbstractText(t) ==
  IF t.kind # "envelope" THEN t
  ELSE E!BuildEnvelope(t.version, t.id,
         E!Encrypt([id |-> t.id,
                    key |-> Identity(KindOf(t.ct.key), t.ct.key.secret)],
                   t.ct.plain, t.ct.salt))

AgreesWithEnvelope ==
  svc # NoService =>
    /\ E!UniqueIds(AbstractConfig(svc))
    /\ Reads(svc, text) <=> E!Readable(AbstractConfig(svc), AbstractText(text))

(* A service can read back what a service with the same backends wrote.  It *)
(* holds when every backend it was given has a registered id; otherwise     *)
(* the constructor accepts a service whose every write is lost.            *)
OwnWritesReadable ==
  svc # NoService /\ author = svc => Reads(svc, text)

(* The migration of Path A: replacing a service by one that was given every *)
(* backend of the first, in any order, and was accepted, leaves every column*)
(* the first could read readable, whichever release wrote it.              *)
MigrationKeepsData ==
  [][/\ svc # NoService /\ svc' # NoService
     /\ BackendsOf(svc) \subseteq BackendsOf(svc')
     /\ Reads(svc, text)
     => Reads(svc', text)]_vars
=============================================================================
