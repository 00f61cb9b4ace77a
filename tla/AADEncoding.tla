---------------------------- MODULE AADEncoding ----------------------------
(***************************************************************************)
(* The bytes of the associated data that sealed.go builds.  SealedVault    *)
(* binds a record of fields into each seal; here the fields are encoded    *)
(* as the code encodes them, so that the record can be shown to say no     *)
(* more and no less than the bytes.                                        *)
(*                                                                         *)
(* A behaviour makes one seal after another, for any fields.               *)
(***************************************************************************)
EXTENDS Integers, Sequences

CONSTANTS
    MaxByte,    \* 255 in the code
    aadInfo,    \* the leading constant
    aadKindKey, aadKindSecret,  \* the kind tags: 1 and 2 in the code
    SaltLen,
    Lengths,    \* bound: the lengths of RP IDs and credential IDs
    NameLengths,    \* bound: the lengths of names
    Slots,      \* bound: the slots
    LabelSet

ASSUME EncodingAssumption ==
    /\ MaxByte \in Nat \ {0}
    /\ aadInfo \in Seq(0..MaxByte)
    /\ aadKindKey \in 0..MaxByte /\ aadKindSecret \in 0..MaxByte
    /\ aadKindKey # aadKindSecret
    /\ Slots \subseteq Nat

VARIABLE seal   \* what the last seal was made for

Base == MaxByte + 1
UInt32Range == Base * (Base * (Base * Base))

\* Strings shorter than 4 GiB, so that their length fits its prefix.
ASSUME LengthAssumption ==
    {SaltLen} \union Lengths \union NameLengths \subseteq 0..(UInt32Range - 1)

\* The byte strings of these lengths.
Strings(lengths) == UNION {[1..n -> 0..MaxByte] : n \in lengths}

Headers == [rpid : Strings(Lengths), uv : BOOLEAN, entropy : BOOLEAN, salt : [1..SaltLen -> 0..MaxByte]]

KeySeals == [kind : {"key"}, header : Headers, slot : Slots, cred : Strings(Lengths), label : LabelSet]
SecretSeals == [kind : {"secret"}, header : Headers, name : Strings(NameLengths)]
Seals == KeySeals \union SecretSeals

formatVersion == 1

-----------------------------------------------------------------------------
(* The encoding *)

\* The four bytes of uint32(n), most significant first: the conversion and each
\* byte's truncation drop what does not fit.
bigEndian(n) ==
    LET n1 == n \div Base
        n2 == n1 \div Base
        n3 == n2 \div Base
    IN <<n3 % Base, n2 % Base, n1 % Base, n % Base>>

\* BigEndian.AppendUint32(b, uint32(n)).
appendUint32(b, n) == b \o bigEndian(n)

\* Mutant: strings end with a NUL byte instead.
appendTerminated(b, v) == b \o v \o <<0>>

appendLenPrefixed(b, v) == appendUint32(b, Len(v)) \o v

boolByte(x) == IF x THEN 1 ELSE 0

\* sealedVault.aad.
aad(h) ==
    LET format == appendUint32(aadInfo, formatVersion)
        rpid   == appendLenPrefixed(format, h.rpid)
        flags  == rpid \o <<boolByte(h.uv), boolByte(h.entropy)>>
    IN appendLenPrefixed(flags, h.salt)

\* Mutant: key entries carry no kind tag of their own.
keyAADUntagged(h, slot, cred) ==
    appendLenPrefixed(appendUint32(Append(aad(h), aadKindSecret), slot), cred)

keyAAD(h, slot, cred) ==
    appendLenPrefixed(appendUint32(Append(aad(h), aadKindKey), slot), cred)

secretAAD(h, name) == appendLenPrefixed(Append(aad(h), aadKindSecret), name)

encode(x) ==
    IF x.kind = "key" THEN keyAAD(x.header, x.slot, x.cred) ELSE secretAAD(x.header, x.name)

-----------------------------------------------------------------------------

Init == seal \in SecretSeals

WrapKey == seal' \in KeySeals

SealSecret == seal' \in SecretSeals

Next == WrapKey \/ SealSecret

Spec == Init /\ [][Next]_seal

-----------------------------------------------------------------------------
(* Properties *)

\* What a seal made for x is meant to bind.
bound(x) ==
    IF x.kind = "key"
    THEN [header |-> x.header, kind |-> x.kind, slot |-> x.slot, cred |-> x.cred]
    ELSE [header |-> x.header, kind |-> x.kind, name |-> x.name]

\* The seals of x's kind, for key entries those whose slot fits in a uint32.
Comparable(x) ==
    IF x.kind = "key" THEN {y \in KeySeals : y.slot < UInt32Range} ELSE SecretSeals

\* "a caller-supplied string containing a NUL byte could otherwise shift the
\* meaning of every field after it" (sealed.go:115-117): within a kind, and for
\* slots below 2^32, two seals have the same associated data exactly when they
\* agree in every bound field (sealed.go:118-160).  EntriesStayPut has what
\* becomes of the other slots.
BytesSayWhatIsBound ==
    seal \in Comparable(seal) =>
       \A y \in Comparable(seal) : encode(y) = encode(seal) <=> bound(y) = bound(seal)

\* "Every seal is either a wrapped data key or a sealed secret, and the two must
\* never produce the same AAD" (sealed.go:49-50), whatever the name looks like.
KindsAreDisjoint ==
    seal.kind = "key" => \A y \in SecretSeals : encode(y) # encode(seal)

\* A slot is "Authenticated, so an entry cannot be moved between slots", and the
\* label that names it is "Authenticated" too (sealed.go:65-69): an entry moved
\* to another slot under another label has other associated data.  Either claim
\* alone would make this hold.
EntriesStayPut ==
    seal.kind = "key" =>
       \A y \in KeySeals :
          y.slot # seal.slot /\ y.label # seal.label => encode(y) # encode(seal)

=============================================================================
