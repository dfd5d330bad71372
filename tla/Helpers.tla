------------------------------ MODULE Helpers ------------------------------
(***************************************************************************)
(* The standalone helpers of serialization.py next to the column type of    *)
(* the service: who can read what the other wrote, and with which error     *)
(* each of them fails.                                                     *)
(*                                                                         *)
(* A caller holds one blob, the envelope of encrypt_session or encrypt_json,*)
(* and a database has one column, the base64 of the envelopes that services *)
(* and the rotator write.  The envelope is the same; the checks differ:     *)
(* a helper is told a backend and a backend_id separately, and reads with   *)
(* the backend it is given; a service writes the id of its primary backend  *)
(* and looks the id up to read.                                            *)
(*                                                                         *)
(* Data: what is encrypted is bytes: a JSON text, another UTF-8 text, or   *)
(* bytes that are no text.  Dumps is json.dumps, which changes what it     *)
(* writes (keys become strings, tuples lists) or rejects it.               *)
(***************************************************************************)
EXTENDS Envelope

CONSTANTS
  Json,             \* plaintexts that are JSON
  RawText,          \* plaintexts that are UTF-8, and not JSON
  RawBytes,         \* plaintexts that are not UTF-8
  PyValue,          \* values of a state or event
  Dumps,            \* Dumps[v]: their JSON
  NotSerializable,  \*   or that they have none
  LoneSurrogate,    \* a string that has no UTF-8 encoding
  Services          \* the configurations of the services

ASSUME HelpersAssumption ==
  /\ Id \subseteq Nat
  /\ Registry \subseteq 0..255
  /\ Value = Json \cup RawText \cup RawBytes
  /\ Json \cap (RawText \cup RawBytes) = {}
  /\ RawText \cap RawBytes = {}
  /\ NotSerializable \notin Json
  /\ LoneSurrogate \notin Value
  /\ Dumps \in [PyValue -> Json \cup {NotSerializable}]
  /\ Services \subseteq Config

VARIABLES
  blob,    \* the envelope a caller holds; NullText before it has one
  column,  \* the text of the column
  last     \* the outcome of the last call

vars == <<blob, column, last>>

(* The subclasses of SecureSessionError.                                   *)
LibraryErrors ==
  {"EncryptionError", "DecryptionError", "SerializationError", "ConfigurationError"}

(* The others that can be raised.  A TypeError or ValueError under a flush  *)
(* comes out of SQLAlchemy as StatementError; the errors of the library are *)
(* exempt (DontWrapMixin).                                                 *)
ForeignErrors ==
  {"ValueError", "UnicodeEncodeError", "UnicodeDecodeError", "JSONDecodeError",
   "StatementError"}

Nothing == [kind |-> "nothing"]

Returns(v) == [error |-> "none", value |-> v]

Raises(error) == [error |-> error, value |-> Nothing]

Outcome ==
  [error : {"none"}, value : Value \cup {Nothing}] \cup
  [error : LibraryErrors \cup ForeignErrors, value : {Nothing}]

(* Every variable has its type.                                            *)
TypeOK ==
  /\ blob \in Text
  /\ column \in Text
  /\ last \in [unserializable : BOOLEAN, outcome : Outcome]

Init ==
  /\ blob = NullText
  /\ column = NullText
  /\ last = [unserializable |-> FALSE, outcome |-> Returns(Nothing)]

Result(outcome) == last' = [unserializable |-> FALSE, outcome |-> outcome]

Rejected(error) == last' = [unserializable |-> TRUE, outcome |-> Raises(error)]

-----------------------------------------------------------------------------
(* Encrypting.                                                             *)

(* bytes([version, backend_id]) needs a byte.                              *)
IsByte(id) == id <= 255

(* The tail of encrypt_session and encrypt_json.                           *)
EncryptBytes(plain, b, id, n) ==
  \/ /\ IsByte(id)
     /\ blob' = BuildEnvelope(ENVELOPE_VERSION_1, id, Encrypt(b, plain, n))
     /\ Result(Returns(Nothing))
  \/ /\ ~IsByte(id)
     /\ Result(Raises("ValueError"))
     /\ UNCHANGED blob

(* encrypt_session.                                                        *)
EncryptSession(v, b, id, n) ==
  /\ \/ Dumps[v] # NotSerializable /\ EncryptBytes(Dumps[v], b, id, n)
     \/ /\ Dumps[v] = NotSerializable
        /\ Rejected("SerializationError")
        /\ UNCHANGED blob
  /\ UNCHANGED column

(* encrypt_json takes the caller's word that the string is JSON.           *)
EncryptJson(str, b, id, n) ==
  /\ \/ str # LoneSurrogate /\ EncryptBytes(str, b, id, n)
     \/ /\ str = LoneSurrogate
        /\ Result(Raises("UnicodeEncodeError"))
        /\ UNCHANGED blob
  /\ UNCHANGED column

(* Mutant of BindColumn: the value is written as a string, not as JSON.     *)
BindColumnStr(v, c, n) ==
  /\ \/ /\ IsByte(c.primary.id)
        /\ \E text \in RawText : column' = Seal(c.primary, text, n)
        /\ Result(Returns(Nothing))
     \/ /\ ~IsByte(c.primary.id)
        /\ Result(Raises("StatementError"))
        /\ UNCHANGED column
  /\ UNCHANGED blob

(* process_bind_param, in a flush of service c.                            *)
BindColumn(v, c, n) ==
  /\ \/ /\ Dumps[v] # NotSerializable /\ IsByte(c.primary.id)
        /\ column' = Seal(c.primary, Dumps[v], n)
        /\ Result(Returns(Nothing))
     \/ /\ Dumps[v] # NotSerializable /\ ~IsByte(c.primary.id)
        /\ Result(Raises("StatementError"))
        /\ UNCHANGED column
     \/ /\ Dumps[v] = NotSerializable
        /\ Rejected("StatementError")
        /\ UNCHANGED column
  /\ UNCHANGED blob

-----------------------------------------------------------------------------
(* Decrypting.                                                             *)

(* Mutant of SessionOutcome: the two header bytes are not checked.          *)
SessionOutcomeUnparsed(t, b) ==
  IF t.kind # "envelope" THEN Raises("DecryptionError")
  ELSE IF ~Opens(b, t.ct) THEN Raises("DecryptionError")
  ELSE IF t.ct.plain \in Json THEN Returns(t.ct.plain)
  ELSE Raises("SerializationError")

(* decrypt_session, with a backend, of an envelope: its id is not used.     *)
SessionOutcome(t, b) ==
  IF ~Parses(t) \/ ~Opens(b, t.ct) THEN Raises("DecryptionError")
  ELSE IF t.ct.plain \in Json THEN Returns(t.ct.plain)
  ELSE Raises("SerializationError")

(* decrypt_json returns any text.                                          *)
JsonOutcome(t, b) ==
  IF ~Parses(t) \/ ~Opens(b, t.ct) THEN Raises("DecryptionError")
  ELSE IF t.ct.plain \notin RawBytes THEN Returns(t.ct.plain)
  ELSE Raises("DecryptionError")

(* process_result_value, in service c.  json.loads is inside the try, but   *)
(* what it raises is not among the errors that are translated.             *)
ColumnOutcome(t, c) ==
  IF t = NullText THEN Returns(Nothing)
  ELSE IF ~Readable(c, t) THEN Raises("DecryptionError")
  ELSE IF t.ct.plain \in Json THEN Returns(t.ct.plain)
  ELSE IF t.ct.plain \in RawText THEN Raises("JSONDecodeError")
  ELSE Raises("UnicodeDecodeError")

(* Mutant of DecryptJson: the last outcome is an empty string, not bytes.   *)
DecryptJsonEmpty(b) ==
  /\ blob # NullText
  /\ last' = [unserializable |-> FALSE, outcome |-> [error |-> "none", value |-> NullText]]
  /\ UNCHANGED <<blob, column>>

DecryptSession(b) ==
  /\ blob # NullText
  /\ Result(SessionOutcome(blob, b))
  /\ UNCHANGED <<blob, column>>

DecryptJson(b) ==
  /\ blob # NullText
  /\ Result(JsonOutcome(blob, b))
  /\ UNCHANGED <<blob, column>>

ReadColumn(c) ==
  /\ Result(ColumnOutcome(column, c))
  /\ UNCHANGED <<blob, column>>

-----------------------------------------------------------------------------
(* What else happens to the two texts.                                     *)

(* rotate_encryption_keys: the same bytes under another backend.           *)
RotateColumn(old, new, n) ==
  /\ Parses(column)
  /\ column.id = old.id
  /\ Opens(old, column.ct)
  /\ column' = Seal(new, column.ct.plain, n)
  /\ UNCHANGED <<blob, last>>

(* An envelope from elsewhere, with any bytes in it.                       *)
ForeignBlob(b, bytes, n) ==
  /\ blob' = Seal(b, bytes, n)
  /\ UNCHANGED <<column, last>>

Damaged(t) == {TooShort} \cup
  IF t.kind = "envelope" THEN {BuildEnvelope(2, t.id, t.ct)} ELSE {}

(* A text is truncated, or comes from a later version of the format.       *)
Damage ==
  /\ \/ blob # NullText /\ blob' \in Damaged(blob) /\ UNCHANGED column
     \/ column # NullText /\ column' \in Damaged(column) /\ UNCHANGED blob
  /\ UNCHANGED last

Next ==
  \/ \E b \in Backend, id \in Id, n \in Nonce :
       \/ \E v \in PyValue : EncryptSession(v, b, id, n)
       \/ \E str \in Json \cup RawText \cup {LoneSurrogate} : EncryptJson(str, b, id, n)
  \/ \E c \in Services, v \in PyValue, n \in Nonce : BindColumn(v, c, n)
  \/ \E b \in Backend : DecryptSession(b) \/ DecryptJson(b)
  \/ \E c \in Services : ReadColumn(c)
  \/ \E old, new \in Backend, n \in Nonce : IsByte(new.id) /\ RotateColumn(old, new, n)
  \/ \E b \in Backend, bytes \in Value, n \in Nonce : IsByte(b.id) /\ ForeignBlob(b, bytes, n)
  \/ Damage

Spec == Init /\ [][Next]_vars

-----------------------------------------------------------------------------
(* Properties.                                                             *)

(* An envelope a helper made can be stored, and one from a column be handed *)
(* to a helper: decrypt_session with a backend of a service returns exactly *)
(* when the service would read the text, and the same value, whenever the   *)
(* backend_id given to the helper that wrote it is that of its backend.     *)
HelpersMatchColumn ==
  \A t \in {blob, column}, c \in Services : \A b \in Backends(c) :
    t.kind = "envelope" /\ t.id = b.id =>
      \A v \in Json : SessionOutcome(t, b) = Returns(v) <=> ColumnOutcome(t, c) = Returns(v)

(* Reading a column fails with an error of the library or not at all: only  *)
(* JSON gets into a column, and rotation and damage keep it that way.       *)
ColumnErrorsAreLibrary ==
  \A c \in Services : ColumnOutcome(column, c).error \in LibraryErrors \cup {"none"}

(* SerializationError is "raised when data cannot be serialized to JSON".   *)
UnserializableIsSerializationError ==
  last.unserializable => last.outcome.error = "SerializationError"
=============================================================================
