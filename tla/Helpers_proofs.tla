--------------------------- MODULE Helpers_proofs ---------------------------
(***************************************************************************)
(* Proofs about Helpers, for any plaintexts, backends and services.        *)
(***************************************************************************)
EXTENDS Helpers, TLAPS

(* What can be decrypted from the column is JSON.                          *)
ColumnIsJson == column.kind = "envelope" => column.ct.plain \in Json

(* The inductive invariant.                                                *)
Inv == blob \in Text /\ column \in Text /\ ColumnIsJson

(* What is built of a byte, a backend and bytes is an envelope.            *)
LEMMA BuildType ==
  ASSUME NEW b \in Backend, NEW id \in Id, NEW bytes \in Value, NEW n \in Nonce
  PROVE  LET t == BuildEnvelope(ENVELOPE_VERSION_1, id, Encrypt(b, bytes, n))
         IN  t \in Text /\ t.kind = "envelope" /\ t.ct.plain = bytes
BY DEF BuildEnvelope, Encrypt, Text, Envelopes, Ciphertext, ENVELOPE_VERSION_1

(* The same of what a service seals.                                       *)
LEMMA SealType ==
  ASSUME NEW b \in Backend, NEW bytes \in Value, NEW n \in Nonce
  PROVE  Seal(b, bytes, n) \in Text /\ Seal(b, bytes, n).ct.plain = bytes
BY BuildType DEF Seal, Backend

(* Damage makes no plaintext.                                              *)
LEMMA DamageType ==
  ASSUME NEW t \in Text, NEW x \in Damaged(t)
  PROVE  /\ x \in Text
         /\ x.kind = "envelope" => t.kind = "envelope" /\ x.ct = t.ct
<1>1. CASE t.kind = "envelope"
  <2>1. t \in Envelopes
    BY <1>1 DEF Text, NullText, NotBase64, TooShort
  <2> QED
    BY <1>1, <2>1 DEF Damaged, BuildEnvelope, Text, TooShort, Envelopes
<1>2. CASE t.kind # "envelope"
  BY <1>2 DEF Damaged, Text, TooShort
<1> QED
  BY <1>1, <1>2

(* Every step keeps the invariant.                                         *)
LEMMA NextInv == Inv /\ [Next]_vars => Inv'
<1> SUFFICES ASSUME Inv, [Next]_vars PROVE Inv'
  OBVIOUS
<1> USE HelpersAssumption DEF Inv, ColumnIsJson
<1>1. ASSUME NEW b \in Backend, NEW id \in Id, NEW n \in Nonce, NEW bytes \in Value,
             EncryptBytes(bytes, b, id, n), UNCHANGED column
      PROVE  Inv'
  BY <1>1, BuildType DEF EncryptBytes
<1>2. ASSUME NEW b \in Backend, NEW id \in Id, NEW n \in Nonce, NEW v \in PyValue,
             EncryptSession(v, b, id, n)
      PROVE  Inv'
  BY <1>1, <1>2 DEF EncryptSession
<1>3. ASSUME NEW b \in Backend, NEW id \in Id, NEW n \in Nonce,
             NEW str \in Json \cup RawText \cup {LoneSurrogate},
             EncryptJson(str, b, id, n)
      PROVE  Inv'
  BY <1>1, <1>3 DEF EncryptJson
<1>4. ASSUME NEW c \in Services, NEW v \in PyValue, NEW n \in Nonce, BindColumn(v, c, n)
      PROVE  Inv'
  <2>1. c.primary \in Backend
    BY DEF Config
  <2> QED
    BY <1>4, <2>1, SealType DEF BindColumn
<1>5. ASSUME NEW b \in Backend, DecryptSession(b) \/ DecryptJson(b) PROVE Inv'
  BY <1>5 DEF DecryptSession, DecryptJson
<1>6. ASSUME NEW c \in Services, ReadColumn(c) PROVE Inv'
  BY <1>6 DEF ReadColumn
<1>7. ASSUME NEW old \in Backend, NEW new \in Backend, NEW n \in Nonce,
             RotateColumn(old, new, n)
      PROVE  Inv'
  BY <1>7, SealType DEF RotateColumn, Parses
<1>8. ASSUME NEW b \in Backend, NEW bytes \in Value, NEW n \in Nonce,
             ForeignBlob(b, bytes, n)
      PROVE  Inv'
  BY <1>8, SealType DEF ForeignBlob
<1>9. CASE Damage
  BY <1>9, DamageType DEF Damage
<1>10. CASE UNCHANGED vars
  BY <1>10 DEF vars
<1> QED
  BY <1>2, <1>3, <1>4, <1>5, <1>6, <1>7, <1>8, <1>9, <1>10 DEF Next

(* Whatever is returned is a plaintext, and whatever is raised has a name.  *)
LEMMA OutcomeTypes ==
  /\ \A v \in Value \cup {Nothing} : Returns(v) \in Outcome
  /\ \A e \in LibraryErrors \cup ForeignErrors : Raises(e) \in Outcome
BY DEF Returns, Raises, Outcome

(* Reading gives an outcome, with a backend or through a service.          *)
LEMMA ReadTypes ==
  ASSUME NEW t \in Text
  PROVE  /\ \A b \in Backend : SessionOutcome(t, b) \in Outcome
         /\ \A b \in Backend : JsonOutcome(t, b) \in Outcome
         /\ \A c \in Services : ColumnOutcome(t, c) \in Outcome
<1>1. Parses(t) => t.ct.plain \in Value
  BY DEF Parses, Text, Envelopes, Ciphertext, NullText, NotBase64, TooShort
<1>2. \A c \in Services : Readable(c, t) /\ t # NullText => Parses(t)
  BY DEF Readable
<1>3. \A e \in {"DecryptionError", "SerializationError", "JSONDecodeError",
                "UnicodeDecodeError"} : Raises(e) \in Outcome
  BY OutcomeTypes DEF LibraryErrors, ForeignErrors
<1>4. \A v \in Value \cup {Nothing} : Returns(v) \in Outcome
  BY OutcomeTypes
<1>5. \A b \in Backend : SessionOutcome(t, b) \in Outcome
  BY <1>1, <1>3, <1>4 DEF SessionOutcome
<1>6. \A b \in Backend : JsonOutcome(t, b) \in Outcome
  BY <1>1, <1>3, <1>4 DEF JsonOutcome
<1>7. \A c \in Services : ColumnOutcome(t, c) \in Outcome
  BY <1>1, <1>2, <1>3, <1>4 DEF ColumnOutcome
<1> QED
  BY <1>5, <1>6, <1>7

LastInv == last \in [unserializable : BOOLEAN, outcome : Outcome]

(* Every call ends with a value or with a named error.                     *)
LEMMA LastStep == Inv /\ LastInv /\ [Next]_vars => LastInv'
<1> DEFINE Last == [unserializable : BOOLEAN, outcome : Outcome]
<1> SUFFICES ASSUME Inv, [Next]_vars, last \in Last PROVE last' \in Last
  BY DEF LastInv
<1>1. \A o \in Outcome : Result(o) => last' \in Last
  BY DEF Result
<1>2. \A e \in {"SerializationError", "StatementError"} : Rejected(e) => last' \in Last
  BY OutcomeTypes DEF Rejected, LibraryErrors, ForeignErrors
<1>3. /\ Returns(Nothing) \in Outcome
      /\ Raises("ValueError") \in Outcome
      /\ Raises("UnicodeEncodeError") \in Outcome
      /\ Raises("StatementError") \in Outcome
  BY OutcomeTypes DEF LibraryErrors, ForeignErrors
<1>4. ASSUME NEW b \in Backend, NEW id \in Id, NEW n \in Nonce, NEW bytes,
             EncryptBytes(bytes, b, id, n)
      PROVE  last' \in Last
  BY <1>1, <1>3, <1>4 DEF EncryptBytes
<1>5. ASSUME NEW b \in Backend, NEW id \in Id, NEW n \in Nonce, NEW v \in PyValue,
             EncryptSession(v, b, id, n)
      PROVE  last' \in Last
  BY <1>2, <1>4, <1>5 DEF EncryptSession
<1>6. ASSUME NEW b \in Backend, NEW id \in Id, NEW n \in Nonce,
             NEW str \in Json \cup RawText \cup {LoneSurrogate},
             EncryptJson(str, b, id, n)
      PROVE  last' \in Last
  BY <1>1, <1>3, <1>4, <1>6 DEF EncryptJson
<1>7. ASSUME NEW c \in Services, NEW v \in PyValue, NEW n \in Nonce, BindColumn(v, c, n)
      PROVE  last' \in Last
  BY <1>1, <1>2, <1>3, <1>7 DEF BindColumn
<1>8. ASSUME NEW b \in Backend, DecryptSession(b) \/ DecryptJson(b) PROVE last' \in Last
  BY <1>1, <1>8, ReadTypes DEF DecryptSession, DecryptJson, Inv
<1>9. ASSUME NEW c \in Services, ReadColumn(c) PROVE last' \in Last
  BY <1>1, <1>9, ReadTypes DEF ReadColumn, Inv
<1>10. ASSUME UNCHANGED last PROVE last' \in Last
  BY <1>10
<1> QED
  BY <1>5, <1>6, <1>7, <1>8, <1>9, <1>10
  DEF Next, RotateColumn, ForeignBlob, Damage, vars

(* Every variable keeps its type.                                          *)
THEOREM HelperTypes == Spec => []TypeOK
<1>1. Init => Inv /\ LastInv
  BY OutcomeTypes DEF Init, Inv, LastInv, ColumnIsJson, Text, NullText
<1>2. Inv /\ LastInv => TypeOK
  BY DEF Inv, LastInv, TypeOK
<1> QED
  BY <1>1, <1>2, NextInv, LastStep, PTL DEF Spec

(* Reading a column only ever fails with an error of the library.          *)
THEOREM ColumnErrors == Spec => []ColumnErrorsAreLibrary
<1>1. Init => Inv
  BY DEF Init, Inv, ColumnIsJson, Text, NullText
<1>2. Inv => ColumnErrorsAreLibrary
  <2> SUFFICES ASSUME Inv, NEW c \in Services
               PROVE  ColumnOutcome(column, c).error \in LibraryErrors \cup {"none"}
    BY DEF ColumnErrorsAreLibrary
  <2>1. Readable(c, column) /\ column # NullText => column.ct.plain \in Json
    BY DEF Readable, Parses, Inv, ColumnIsJson
  <2> QED
    BY <2>1 DEF ColumnOutcome, Returns, Raises, LibraryErrors
<1> QED
  BY <1>1, <1>2, NextInv, PTL DEF Spec

(* Helpers and services read each other's envelopes, to the same values.    *)
THEOREM HelpersInteroperate == Spec => []HelpersMatchColumn
<1>1. HelpersMatchColumn
  <2> SUFFICES ASSUME NEW t \in {blob, column}, NEW c \in Services,
                      NEW b \in Backends(c), t.kind = "envelope", t.id = b.id,
                      NEW v \in Json
               PROVE  SessionOutcome(t, b) = Returns(v) <=> ColumnOutcome(t, c) = Returns(v)
    BY DEF HelpersMatchColumn
  <2>1. \A x \in Backends(c) : x.id = t.id => x = b
    BY HelpersAssumption DEF Config, UniqueIds
  <2>2. t.id \in DOMAIN Dispatch(c) /\ Dispatch(c)[t.id] = b
    <3>1. (CHOOSE x \in Backends(c) : x.id = t.id) = b
      BY <2>1
    <3> QED
      BY <3>1 DEF Dispatch
  <2>3. t # NullText
    BY DEF NullText
  <2>4. Readable(c, t) <=> Parses(t) /\ Opens(b, t.ct)
    BY <2>2, <2>3 DEF Readable
  <2> QED
    BY <2>3, <2>4 DEF SessionOutcome, ColumnOutcome, Returns, Raises
<1> QED
  BY <1>1, PTL
=============================================================================
