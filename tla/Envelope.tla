------------------------------ MODULE Envelope ------------------------------
(***************************************************************************)
(* The stored form of an encrypted column, and what reading it back gives. *)
(*                                                                         *)
(* Every encrypted column holds base64(version || backend_id || ciphertext)*)
(* (serialization.py, services/type_decorator.py) or NULL.  The data is    *)
(* abstracted to what the readers of a column tell apart:                  *)
(*   - a ciphertext remembers the backend (algorithm and key) that made it,*)
(*     the value inside and the random part that makes two encryptions of  *)
(*     one value differ; authenticated encryption means that it opens      *)
(*     under that backend only;                                            *)
(*   - a backend is its id byte and its key: two FernetBackend objects with*)
(*     different passphrases share the id and differ in the key;           *)
(*   - a text that no envelope can be read from is one of two values:      *)
(*     bytes that are not base64, or fewer than three decoded bytes.       *)
(***************************************************************************)
EXTENDS Naturals

CONSTANTS
  Id,        \* values of the backend_id byte
  Registry,  \* the ids of BACKEND_REGISTRY, known to the envelope parser
  Key,       \* key material
  Value,     \* JSON values of a state or event_data column
  Nonce      \* the random part of a ciphertext (Fernet salt and IV, GCM nonce)

ASSUME EnvelopeAssumption == Registry \subseteq Id

-----------------------------------------------------------------------------
(* Backends and ciphertexts.                                               *)

Backend == [id : Id, key : Key]

Ciphertext == [by : Backend, plain : Value, nonce : Nonce]

Encrypt(b, v, n) == [by |-> b, plain |-> v, nonce |-> n]

(* sync_decrypt of b accepts ct: it was made by the same algorithm and key. *)
Opens(b, ct) == ct.by = b

-----------------------------------------------------------------------------
(* Texts of an encrypted column.                                           *)

ENVELOPE_VERSION_1 == 1

Envelopes == [kind : {"envelope"}, version : 0..255, id : Id, ct : Ciphertext]

NullText  == [kind |-> "null"]
NotBase64 == [kind |-> "notBase64"]
TooShort  == [kind |-> "tooShort"]

Text == Envelopes \cup {NullText, NotBase64, TooShort}

(* _build_envelope puts the id it is given, whatever made the ciphertext.   *)
BuildEnvelope(version, id, ct) ==
  [kind |-> "envelope", version |-> version, id |-> id, ct |-> ct]

(* base64 decoding and _parse_envelope succeed.                            *)
Parses(t) ==
  /\ t.kind = "envelope"
  /\ t.version = ENVELOPE_VERSION_1
  /\ t.id \in Registry

(* EncryptedJSON.process_bind_param of a value that is not None, in a       *)
(* service whose primary backend is b.                                     *)
Seal(b, v, n) == BuildEnvelope(ENVELOPE_VERSION_1, b.id, Encrypt(b, v, n))

-----------------------------------------------------------------------------
(* A configured service: the primary backend, which encrypts, and the       *)
(* additional ones, which only decrypt.  __init__ rejects duplicate ids, so *)
(* a configuration that exists has none.                                   *)

Backends(c) == {c.primary} \cup c.extras

UniqueIds(c) == \A b1, b2 \in Backends(c) : b1.id = b2.id => b1 = b2

Config == {c \in [primary : Backend, extras : SUBSET Backend] : UniqueIds(c)}

(* The decrypt_dispatch map.                                               *)
Dispatch(c) ==
  [i \in {b.id : b \in Backends(c)} |-> CHOOSE b \in Backends(c) : b.id = i]

(* EncryptedJSON.process_result_value returns rather than raises.          *)
Readable(c, t) ==
  \/ t = NullText
  \/ /\ Parses(t)
     /\ t.id \in DOMAIN Dispatch(c)
     /\ Opens(Dispatch(c)[t.id], t.ct)

(* What a text stands for, whichever backend sealed it.                    *)
Contents == Value \cup {"null", "notBase64", "tooShort"}

Content(t) == IF t.kind = "envelope" THEN t.ct.plain ELSE t.kind
=============================================================================
