---------------------------- MODULE SealedVault ----------------------------
(***************************************************************************)
(* The sealed document of sealed.go and the seals of crypto.go.            *)
(*                                                                         *)
(* Cryptography is symbolic.  A seal is the record of what went into it,   *)
(* and opening one authenticates exactly when the key and the associated   *)
(* data are the ones it was made with.  A nonce is fresh for every seal    *)
(* and stored beside it, so it decides nothing and is left out.            *)
(*                                                                         *)
(* The Keys and Secrets slices are sets of entries: every listing sorts,   *)
(* and where names, slots and credentials are unique the first match of a  *)
(* scan is the only one.                                                   *)
(***************************************************************************)
EXTENDS Authenticator, FiniteSets

CONSTANTS
    Text,           \* the strings a caller or the document may hold
    JSONText,       \* what json.Marshal makes of each: bytes that are not
                    \* UTF-8 become U+FFFD
    DefaultLabel,   \* "primary"
    DataKeys,
    Values,         \* the plaintexts
    UInt32Range,    \* 2^32 in the code
    NoDoc           \* no document

\* JSON changes text at most once and never makes it empty.
ASSUME TextAssumption ==
    /\ {"", DefaultLabel} \subseteq Text
    /\ DefaultLabel # ""
    /\ JSONText \in [Text -> Text]
    /\ \A t \in Text : /\ JSONText[t] = "" <=> t = ""
                       /\ JSONText[JSONText[t]] = JSONText[t]

ASSUME RangeAssumption == UInt32Range \in Nat \ {0}

formatVersion == 1

\* A data key after zero() has overwritten its bytes.
Wiped == "wiped"
KeyBytes == DataKeys \union {Wiped}

ASSUME DataKeyAssumption == Wiped \notin DataKeys

-----------------------------------------------------------------------------
(* Seals *)

\* HKDF over the salt.  Both inputs reach the key.
deriveKEK(prf, salt) == [prf |-> prf, salt |-> salt]

seal(key, plaintext, aad) == [key |-> key, plain |-> plaintext, aad |-> aad]

\* Whether GCM authenticates box under key and aad.
opens(key, box, aad) == box.key = key /\ box.aad = aad

\* The header bound into every seal.
aadOf(v) == [format |-> v.format, rpid |-> v.rpid, uv |-> v.uv,
             entropy |-> v.entropy, salt |-> v.salt]

\* The slot is narrowed to 32 bits.  The label is not bound.
keyAAD(v, slot, cred) ==
    [header |-> aadOf(v), kind |-> "key", slot |-> slot % UInt32Range, cred |-> cred]

secretAAD(v, name) == [header |-> aadOf(v), kind |-> "secret", name |-> name]

wrapDataKey(v, dataKey, cred, prf, slot, label) ==
    [slot |-> slot, label |-> label, cred |-> cred,
     wrapped |-> seal(deriveKEK(prf, v.salt), dataKey, keyAAD(v, slot, cred))]

\* What unwrapping entry with prf returns: an error, or "nil" and entry's key.
unwrapDataKey(v, entry, prf) ==
    IF prf = NoPRF THEN "ErrNoPRF"
    ELSE IF opens(deriveKEK(prf, v.salt), entry.wrapped,
                  keyAAD(v, entry.slot, entry.cred))
         THEN "nil"
    ELSE "ErrAuthenticating"

sealSecret(v, dataKey, name, value) ==
    [name |-> name, box |-> seal(dataKey, value, secretAAD(v, name))]

openSecret(v, dataKey, entry) ==
    IF opens(dataKey, entry.box, secretAAD(v, entry.name)) THEN "nil"
    ELSE "ErrAuthenticating"

-----------------------------------------------------------------------------
(* The document *)

Headers == [format : {formatVersion}, rpid : Text, uv : BOOLEAN,
            entropy : BOOLEAN, salt : Salt]

KeyEntries ==
    [slot : Nat, label : Text, cred : CredIDs,
     wrapped : [key : [prf : PRFs, salt : Salt], plain : KeyBytes,
                aad : [header : Headers, kind : {"key"},
                       slot : 0..(UInt32Range - 1), cred : CredIDs]]]

SecretEntries ==
    [name : Text,
     box : [key : KeyBytes, plain : Values,
            aad : [header : Headers, kind : {"secret"}, name : Text]]]

Documents ==
    [format : {formatVersion}, rpid : Text, salt : Salt, uv : BOOLEAN,
     entropy : BOOLEAN, keys : SUBSET KeyEntries, secrets : SUBSET SecretEntries]

ASSUME NoDocAssumption == NoDoc \notin Documents

emptyVault(rpid, salt) ==
    [format |-> formatVersion, rpid |-> rpid, salt |-> salt, uv |-> FALSE,
     entropy |-> FALSE, keys |-> {}, secrets |-> {}]

\* Mutant: slots taken for indices.
slotIsIndex(v, slot) == slot < Cardinality(v.keys)

slotOccupied(v, slot) == \E e \in v.keys : e.slot = slot

enrolled(v, cred) == \E e \in v.keys : e.cred = cred

\* Mutant: the credential is not compared.
firstKey(v, cred) == CHOOSE e \in v.keys : TRUE

findKey(v, cred) == CHOOSE e \in v.keys : e.cred = cred

findSecret(v, name) == CHOOSE x \in v.secrets : x.name = name

names(v) == {x.name : x \in v.secrets}

credentialIDs(v) == {e.cred : e \in v.keys}

\* TRUE for UVRequired.
uvRequirement(v) == v.uv

\* The document as it comes back from json.Unmarshal of json.Marshal.  Byte
\* slices travel as base64 and integers as digits; strings as JSONText.
marshal(v) ==
    [v EXCEPT !.rpid = JSONText[@],
              !.keys = {[e EXCEPT !.label = JSONText[@]] : e \in @},
              !.secrets = {[x EXCEPT !.name = JSONText[@]] : x \in @}]

\* parseSealed accepts the document.
parseSealed(v) ==
    /\ v.format = formatVersion
    /\ DOMAIN v.salt = Positions
    /\ v.rpid # ""
    /\ \A e \in v.keys : e.slot >= 0 /\ e.cred # NoCredential
    /\ \A e, f \in v.keys : e.slot = f.slot \/ e.cred = f.cred => e = f
    /\ \A x \in v.secrets : x.name # ""
    /\ \A x, y \in v.secrets : x.name = y.name => x = y

=============================================================================
