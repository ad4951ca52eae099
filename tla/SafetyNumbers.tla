---------------------------- MODULE SafetyNumbers ----------------------------
(* Safety numbers (trelis-hybrid: safety_number.rs): two users derive one     *)
(* number from their identities, each from its own side, and compare what     *)
(* they see as decimal digits or as a QR string. A digest is the sequence of  *)
(* what was hashed, ordered lexicographically: any total order may stand for  *)
(* that of the hash values.                                                   *)
EXTENDS Naturals, Sequences, FiniteSets

CONSTANTS
    SigningIds, KemIds,     \* numbers for the two halves of an identity key
    DeviceLists,            \* device lists as callers pass them, in any order
    Threads,
    FingerprintBytes,       \* fingerprints, as byte strings of one length
    Sextets,                \* characters an arriving QR string may hold; 64 is no Base64 character
    DisplayBytes,           \* bytes of it that are shown (30 of 32)
    DisplayDigits           \* as that many digits (60)

ASSUME NumberAssumption == SigningIds \union KemIds \subseteq Nat /\ DeviceLists \subseteq Seq(Nat)
(* With the version byte a fingerprint is a whole number of groups of three.  *)
ASSUME CodeAssumption ==
    /\ Sextets \subseteq Nat /\ DisplayBytes \in Nat /\ DisplayDigits \in Nat
    /\ FingerprintBytes \subseteq Seq(0 .. 255)
    /\ \E n \in {Len(f) : f \in FingerprintBytes} :
          n % 3 = 2 /\ DisplayBytes <= n /\ \A f \in FingerprintBytes : Len(f) = n

VARIABLE compared           \* what was compared last, or NotCompared

NotCompared == [none |-> "compared"]
Identities == {<< s, k >> : s \in SigningIds, k \in KemIds}

-----------------------------------------------------------------------------
Before(s, t) ==
    \/ Len(s) < Len(t) /\ SubSeq(t, 1, Len(s)) = s
    \/ \E i \in DOMAIN s \intersect DOMAIN t :
          s[i] < t[i] /\ \A j \in 1 .. i - 1 : s[j] = t[j]

hash_identity(key) == key

sort_unstable(s) == CHOOSE t \in [DOMAIN s -> {s[i] : i \in DOMAIN s}] :
    /\ \A i, j \in DOMAIN t : i < j => t[i] <= t[j]
    /\ \A x \in {s[i] : i \in DOMAIN s} : Cardinality({i \in DOMAIN s : s[i] = x}) = Cardinality({i \in DOMAIN t : t[i] = x})

(* The devices in the order they were passed in.                              *)
hash_identity_with_devices_mutant(key, devices) == hash_identity(key) \o devices

hash_identity_with_devices(key, devices) == hash_identity(key) \o sort_unstable(devices)

Pair(a, b) == IF Before(a, b) THEN << a, b >> ELSE << b, a >>

number_new(a, b) == [context |-> "trelis-safety-number-v1", of |-> Pair(hash_identity(a), hash_identity(b)), thread |-> 0]

number_with_history_sync(a, b, thread) ==
    [context |-> "trelis-safety-number-sync-v1", of |-> Pair(hash_identity(a), hash_identity(b)), thread |-> thread]

number_with_device_set(a, b, devices_a, devices_b) ==
    [context |-> "trelis-safety-number-device-set-v1", thread |-> 0,
     of |-> Pair(hash_identity_with_devices(a, devices_a), hash_identity_with_devices(b, devices_b))]

Views == [entry : {"plain"}, a : Identities, b : Identities, thread : {0}, devices_a : {<< >>}, devices_b : {<< >>}]
    \union [entry : {"sync"}, a : Identities, b : Identities, thread : Threads, devices_a : {<< >>}, devices_b : {<< >>}]
    \union [entry : {"devices"}, a : Identities, b : Identities, thread : {0}, devices_a : DeviceLists, devices_b : DeviceLists]

number(v) ==
    CASE v.entry = "plain"   -> number_new(v.a, v.b)
      [] v.entry = "sync"    -> number_with_history_sync(v.a, v.b, v.thread)
      [] v.entry = "devices" -> number_with_device_set(v.a, v.b, v.devices_a, v.devices_b)

Derived == [v \in Views |-> number(v)]

-----------------------------------------------------------------------------
(* The QR string: a version byte and the fingerprint, in groups of three      *)
(* bytes, four characters each. A character is its value.                     *)
Four(x, y, z) == << x \div 4, ((x % 4) * 16) + (y \div 16), ((y % 16) * 4) + (z \div 64), z % 64 >>

base64_url_encode(data) ==
    LET full == Len(data) \div 3
        From(i) == ((i - 1) \div 4) * 3
        Char(i) == Four(data[From(i) + 1], data[From(i) + 2], data[From(i) + 3])[((i - 1) % 4) + 1]
        head == [i \in 1 .. 4 * full |-> Char(i)]
        rest == SubSeq(data, 3 * full + 1, Len(data))
    IN  head \o (CASE Len(rest) = 0 -> << >>
                   [] Len(rest) = 1 -> SubSeq(Four(rest[1], 0, 0), 1, 2)
                   [] Len(rest) = 2 -> SubSeq(Four(rest[1], rest[2], 0), 1, 3))

NoBytes == << 256 >>

(* Bytes come from pairs of characters, and a u8 drops what does not fit. A   *)
(* single character at the end is not looked at.                              *)
base64_url_decode(s) ==
    LET full == Len(s) \div 4
        rest == Len(s) % 4
        count == 3 * full + (IF rest = 0 THEN 0 ELSE rest - 1)
        read == IF rest = 1 THEN Len(s) - 1 ELSE Len(s)
        At(i) == ((i - 1) \div 3) * 4 + ((i - 1) % 3) + 1
        Byte(i) == CASE i % 3 = 1 -> s[At(i)] * 4 + (s[At(i) + 1] \div 16)
                     [] i % 3 = 2 -> ((s[At(i)] * 16) % 256) + (s[At(i) + 1] \div 4)
                     [] i % 3 = 0 -> ((s[At(i)] * 64) % 256) + s[At(i) + 1]
    IN  IF \E i \in 1 .. read : s[i] > 63 THEN NoBytes
        ELSE [i \in 1 .. count |-> Byte(i)]

to_qr_string(fingerprint) == base64_url_encode(<< 1 >> \o fingerprint)

FingerprintSize == Len(CHOOSE f \in FingerprintBytes : TRUE)

from_qr_string(s) ==
    LET data == base64_url_decode(s)
    IN  IF data = NoBytes \/ Len(data) # FingerprintSize + 1 \/ data[1] # 1 THEN NoBytes ELSE Tail(data)

(* The digits by repeated division of the big-endian bytes.                   *)
Divide(data) ==
    LET Rem[i \in 0 .. Len(data)] == IF i = 0 THEN 0 ELSE (Rem[i - 1] * 256 + data[i]) % 10
    IN  [quotient |-> [i \in 1 .. Len(data) |-> (Rem[i - 1] * 256 + data[i]) \div 10], digit |-> Rem[Len(data)]]

bytes_to_decimal(bytes, num_digits) ==
    LET Steps[i \in 0 .. num_digits] ==
          IF i = 0 THEN [quotient |-> bytes, digit |-> 0] ELSE Divide(Steps[i - 1].quotient)
    IN  [i \in 1 .. num_digits |-> Steps[num_digits + 1 - i].digit]

-----------------------------------------------------------------------------
NumberInit == compared = NotCompared

CompareNumbers(v, w) == compared' = [kind |-> "number", v |-> v, w |-> w, same |-> Derived[v] = Derived[w]]

(* A string made from a fingerprint, with one character changed, or with some *)
(* lost or added at its end.                                                  *)
Added == UNION {{<< c >>, << c, d >>, << c, d, c >>} : c \in Sextets, d \in Sextets}

QrStrings(f) ==
    LET s == to_qr_string(f)
    IN  {s} \union {[s EXCEPT ![i] = c] : i \in DOMAIN s, c \in Sextets}
        \union {SubSeq(s, 1, n) : n \in 0 .. Len(s) - 1}
        \union {s \o r : r \in Added}

ScanQr(f, s) == compared' = [kind |-> "qr", of |-> f, string |-> s, read |-> from_qr_string(s)]

ShowDigits(f) == compared' = [kind |-> "display", of |-> f, digits |-> bytes_to_decimal(SubSeq(f, 1, DisplayBytes), DisplayDigits)]

NumberNext ==
    /\ compared = NotCompared
    /\ \/ \E v, w \in Views : CompareNumbers(v, w)
       \/ \E f \in FingerprintBytes : \E s \in QrStrings(f) : ScanQr(f, s)
       \/ \E f \in FingerprintBytes : ShowDigits(f)

NumberSpec == NumberInit /\ [][NumberNext]_compared

-----------------------------------------------------------------------------
(* Two users see one number exactly if they used the same entry point on the  *)
(* same two identities, whole and each with the same devices, whichever of    *)
(* them comes first and in whatever order devices are listed. (new,           *)
(* new_with_history_sync, new_with_device_set)                                *)
Count(s, x) == Cardinality({i \in DOMAIN s : s[i] = x})
SameDevices(s, t) == \A x \in {s[i] : i \in DOMAIN s} \union {t[i] : i \in DOMAIN t} : Count(s, x) = Count(t, x)
SameUser(i, d, j, e) == i = j /\ SameDevices(d, e)

NumbersAgreeIff ==
    compared # NotCompared /\ compared.kind = "number" =>
        LET v == compared.v  w == compared.w IN
        compared.same <=>
            /\ v.entry = w.entry /\ v.thread = w.thread
            /\ \/ SameUser(v.a, v.devices_a, w.a, w.devices_a) /\ SameUser(v.b, v.devices_b, w.b, w.devices_b)
               \/ SameUser(v.a, v.devices_a, w.b, w.devices_b) /\ SameUser(v.b, v.devices_b, w.a, w.devices_a)

(* A QR string reads as a fingerprint only if it begins with the string of    *)
(* that fingerprint, and that string does; the digits shown are the low ones  *)
(* of the number. (to_qr_string, from_qr_string, bytes_to_decimal)            *)
InBase(k, s) ==
    LET V[i \in 0 .. Len(s)] == IF i = 0 THEN 0 ELSE V[i - 1] * k + s[i] IN V[Len(s)]
PowerOfTen(n) ==
    LET P[i \in 0 .. n] == IF i = 0 THEN 1 ELSE P[i - 1] * 10 IN P[n]

CodesReadBack ==
    compared # NotCompared =>
        /\ compared.kind = "qr" =>
              LET s == compared.string  read == compared.read IN
              /\ read # NoBytes => LET t == to_qr_string(read) IN
                    Len(s) \in {Len(t), Len(t) + 1} /\ SubSeq(s, 1, Len(t)) = t
              /\ s = to_qr_string(compared.of) => read = compared.of
        /\ compared.kind = "display" =>
              InBase(10, compared.digits) = InBase(256, SubSeq(compared.of, 1, DisplayBytes)) % PowerOfTen(DisplayDigits)

NumbersIdentifyPairs == NumbersAgreeIff /\ CodesReadBack
=============================================================================
