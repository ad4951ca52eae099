----------------------------- MODULE WireFormat -----------------------------
(* How values become bytes: the Encoder and Decoder of crates/trelis-wire,   *)
(* and the layouts of messages and keys that the other crates write and      *)
(* parse by hand.  A byte is a digit below Radix, a length is LengthBytes of *)
(* them, and a usize is no wider than a length, as on wasm32.  A key or a    *)
(* number is one byte here, and every byte is a key.                         *)
EXTENDS Integers, Sequences
LOCAL INSTANCE SequencesExt

CONSTANTS
    Radix,          \* byte values; 256 in the code
    LengthBytes,    \* bytes of a length; 4 in the code
    WireCalls,      \* the calls of a writer: [call, value], a uint with its width
    Capacities,     \* the buffers it has
    Payloads,       \* the ciphertexts of messages
    MaxCalls        \* bound on the calls of a writer

VARIABLES
    writer,     \* the Encoder: [buf, pos, ok]
    written,    \* its calls so far
    reader,     \* the Decoder, once it has a buffer: [buf, pos]
    got,        \* what its calls returned
    parsed      \* a message as bytes, where it came from, what was parsed

byte_vars == <<writer, written, reader, got, parsed>>

UsizeMax == Radix ^ LengthBytes - 1
Eof == [error |-> "UnexpectedEof"]
Unsupported == [error |-> "unsupported"]
Malformed == [error |-> "MalformedMessage"]
Panic == [error |-> "panic"]
Ok(v) == [value |-> v]

to_le_bytes(v, width) == [k \in 1..width |-> (v \div Radix ^ (k - 1)) % Radix]
from_le_bytes(b) ==
    LET Value[k \in 0..Len(b)] ==
            IF k = 0 THEN 0 ELSE Value[k - 1] + b[k] * Radix ^ (k - 1)
    IN Value[Len(b)]

(* The slice b[from..to]. *)
slice(b, from, to) ==
    IF from <= to /\ to <= Len(b) THEN Ok(SubSeq(b, from + 1, to)) ELSE Panic

PROTOCOL_VERSION == 1
CIPHER_SUITE == 1
header_to_bytes == <<PROTOCOL_VERSION, CIPHER_SUITE>>
header_from_bytes(b) == IF b = header_to_bytes THEN Ok(b) ELSE Unsupported
-----------------------------------------------------------------------------
(* Encoder.  A write that does not fit changes nothing, but for the length   *)
(* that write_length_prefixed has written by then.                           *)
write_bytes(e, data) ==
    IF Len(e.buf) - e.pos < Len(data) THEN [e EXCEPT !.ok = FALSE]
    ELSE [e EXCEPT !.pos = @ + Len(data),
                   !.buf = [k \in DOMAIN e.buf |->
                       IF k \in (e.pos + 1)..(e.pos + Len(data)) THEN data[k - e.pos]
                       ELSE e.buf[k]]]
write_uint(e, v, width) == write_bytes(e, to_le_bytes(v, width))
write_header(e) == write_bytes(e, header_to_bytes)
write_length_prefixed(e, data) ==
    LET prefixed == write_uint(e, Len(data), LengthBytes)
    IN IF prefixed.ok THEN write_bytes(prefixed, data) ELSE prefixed

(* Decoder: each read gives where it went on and what it returned.           *)
Moved(d, n, result) == [to |-> [d EXCEPT !.pos = @ + n], result |-> result]
read_bytes(d, n) ==
    IF Len(d.buf) - d.pos < n THEN Moved(d, 0, Eof)
    ELSE Moved(d, n, slice(d.buf, d.pos, d.pos + n))
read_uint(d, width) ==
    LET r == read_bytes(d, width)
    IN IF r.result = Eof THEN r ELSE Moved(d, width, Ok(from_le_bytes(r.result.value)))
read_header(d) ==
    LET r == read_bytes(d, 2)
    IN IF r.result = Eof THEN r ELSE Moved(d, 2, header_from_bytes(r.result.value))
read_length_prefixed(d) ==
    LET r == read_uint(d, LengthBytes)
    IN IF r.result = Eof THEN r ELSE read_bytes(r.to, r.result.value)

Writes(e, c) ==
    CASE c.call = "bytes" -> write_bytes(e, c.value)
      [] c.call = "header" -> write_header(e)
      [] c.call = "length prefixed" -> write_length_prefixed(e, c.value)
      [] c.call = "uint" -> write_uint(e, c.value, c.width)
Reads(d, c) ==
    CASE c.call = "bytes" -> read_bytes(d, Len(c.value))
      [] c.call = "header" -> read_header(d)
      [] c.call = "length prefixed" -> read_length_prefixed(d)
      [] c.call = "uint" -> read_uint(d, c.width)
-----------------------------------------------------------------------------
(* Messages.  A field is fixed and checked, fixed and skipped when read, or  *)
(* holds a value, which for a reason is one of those known or the last; a    *)
(* layout may end with a length and that many bytes, and may refuse any      *)
(* other length than its own.                                                *)
Fixed(bytes) == [kind |-> "fixed", bytes |-> bytes]
Skipped(bytes) == [kind |-> "skipped", bytes |-> bytes]
Holds(byte) == [kind |-> "holds", bytes |-> <<byte>>]
Reason(byte) == [kind |-> "reason", bytes |-> <<byte>>]
from_byte(byte) == IF byte \in {0, 1} THEN byte ELSE Radix - 1
layout(fields, tail, exact) == [fields |-> fields, tail |-> tail, exact |-> exact]

FieldBytes(fields) == FlattenSeq([k \in DOMAIN fields |-> fields[k].bytes])
HeaderFields ==
    LET Length(n) == Skipped(to_le_bytes(n, LengthBytes)) IN
    <<Fixed(<<PROTOCOL_VERSION>>), Fixed(<<CIPHER_SUITE>>), Length(6 + 3 * LengthBytes),
      Holds(2), Length(1), Holds(3), Length(1), Holds(4), Holds(0)>>
RatchetMessage == layout(Append(HeaderFields, Holds(5)), TRUE, FALSE)
EncryptedMessage == layout(<<Holds(1), Holds(2), Holds(0)>>, TRUE, FALSE)
StateHeader == layout(<<Fixed(<<3>>), Fixed(<<1>>), Holds(1)>>, FALSE, FALSE)
InitialMessage == layout(<<Holds(2), Holds(4)>>, FALSE, TRUE)
HybridPreKeyBundle == layout(<<Holds(2), Holds(3), Holds(0), Holds(4)>>, FALSE, TRUE)
HybridKemPublicKey == layout(<<Holds(1), Holds(3)>>, FALSE, TRUE)
HybridEncapsulation == layout(<<Holds(4), Holds(3)>>, FALSE, TRUE)
HybridIdentityPublicKey == layout(<<Holds(3), Holds(5)>>, FALSE, TRUE)
HybridOneTimeKey == layout(<<Holds(0), Holds(3)>>, FALSE, TRUE)
SessionWatermark == layout(<<Holds(1), Holds(0)>>, FALSE, FALSE)
CompromiseNotice == layout(<<Holds(2), Holds(1), Reason(1), Holds(3), Holds(4)>>, FALSE, TRUE)
Layouts ==
    {RatchetMessage, EncryptedMessage, StateHeader, InitialMessage, HybridPreKeyBundle,
     HybridKemPublicKey, HybridEncapsulation, HybridIdentityPublicKey, HybridOneTimeKey,
     SessionWatermark, CompromiseNotice}

to_bytes(l, ciphertext) ==
    FieldBytes(l.fields) \o
    (IF l.tail THEN to_le_bytes(Len(ciphertext), LengthBytes) \o ciphertext ELSE << >>)

(* What a field reads at its place, if that is not refused.                  *)
Start(l, k) == Len(FieldBytes(SubSeq(l.fields, 1, k - 1)))
FieldRead(l, k, b) == SubSeq(b, Start(l, k) + 1, Start(l, k) + Len(l.fields[k].bytes))
Supported(l, b) == \A k \in DOMAIN l.fields :
    l.fields[k].kind = "fixed" => FieldRead(l, k, b) = l.fields[k].bytes

(* The end of a ciphertext; on a 32-bit target the sum can pass usize.       *)
end_of_mutant(offset, len) == (offset + len) % (UsizeMax + 1)   \* wrapping
end_of(offset, len) == IF offset + len > UsizeMax THEN UsizeMax + 1 ELSE offset + len

(* The message: the fields that hold a value, and the ciphertext.            *)
from_bytes(l, b) ==
    LET size == Len(FieldBytes(l.fields))
        offset == IF l.tail THEN size + LengthBytes ELSE size
    IN IF Len(b) < offset \/ (l.exact /\ Len(b) # offset) THEN Malformed
       ELSE IF ~ Supported(l, b) THEN Unsupported
       ELSE LET end == IF l.tail THEN end_of(offset, from_le_bytes(SubSeq(b, size + 1, offset)))
                       ELSE offset
                ciphertext == slice(b, offset, end)
            IN IF end > UsizeMax \/ Len(b) < end THEN Malformed
               ELSE IF ciphertext = Panic THEN Panic
               ELSE Ok([fields |-> [k \in DOMAIN l.fields |->
                           LET read == FieldRead(l, k, b) IN
                           CASE l.fields[k].kind = "holds" -> [l.fields[k] EXCEPT !.bytes = read]
                             [] l.fields[k].kind = "reason" -> Reason(from_byte(read[1]))
                             [] OTHER -> l.fields[k]],
                        ciphertext |-> ciphertext.value])

(* A share of retained keys is a thread, a count as wide as two lengths, as  *)
(* many keys, a time and a signature, which is all that may be left.  A key  *)
(* is an id, the key, a sequence number and a time.  The count is read as a  *)
(* usize, which drops its upper half.                                        *)
RetainedKey == layout(<<Holds(1), Holds(2), Holds(3), Holds(4)>>, FALSE, TRUE)
COUNT_BYTES == 2 * LengthBytes
SERIALISED_SIZE == Len(FieldBytes(RetainedKey.fields))
HistoryKeyShareMessage(n) ==
    [thread_id |-> 1, keys |-> [k \in 1..n |-> to_bytes(RetainedKey, << >>)], shared_at |-> 2,
     signature |-> 3]
share_to_bytes(m) ==
    <<m.thread_id>> \o to_le_bytes(Len(m.keys), COUNT_BYTES) \o FlattenSeq(m.keys)
        \o <<m.shared_at, m.signature>>
share_from_bytes(b) ==
    LET offset == 1 + COUNT_BYTES
        count == from_le_bytes(SubSeq(b, 2, offset)) % (UsizeMax + 1)
        end == offset + count * SERIALISED_SIZE
        Key(k) == slice(b, offset + (k - 1) * SERIALISED_SIZE, offset + k * SERIALISED_SIZE)
    IN IF Len(b) < offset + 1 \/ end + 1 > UsizeMax \/ Len(b) < end + 1 THEN Malformed
       ELSE IF \E k \in 1..count : Key(k) = Panic THEN Panic
       ELSE IF Len(b) # end + 2 THEN Malformed
       ELSE Ok([thread_id |-> b[1], keys |-> [k \in 1..count |-> Key(k).value],
                shared_at |-> b[end + 1], signature |-> b[end + 2]])
-----------------------------------------------------------------------------
NoBuffer == [buf |-> << >>, pos |-> -1]
NotParsed == [kind |-> "nothing"]
ByteInit ==
    /\ \E n \in Capacities : writer = [buf |-> [k \in 1..n |-> 0], pos |-> 0, ok |-> TRUE]
    /\ written = << >>
    /\ reader = NoBuffer
    /\ got = << >>
    /\ parsed = NotParsed

(* The writer stops at the first call that returns None.                     *)
Write(c) ==
    /\ reader = NoBuffer /\ parsed = NotParsed
    /\ writer.ok /\ Len(written) < MaxCalls
    /\ writer' = Writes(writer, c)
    /\ written' = Append(written, c)
    /\ UNCHANGED <<reader, got, parsed>>

(* What arrives of bytes: cut short, extended, or with one byte altered.     *)
Arrivals(b) ==
    {SubSeq(b, 1, n) : n \in 0..Len(b)}
        \cup {[b EXCEPT ![k] = v] : k \in DOMAIN b, v \in {0, 1, Radix - 1}}
        \cup {Append(b, v) : v \in {0, Radix - 1}}

HandOver ==
    /\ reader = NoBuffer /\ written # << >>
    /\ \E b \in Arrivals(writer.buf) : reader' = [buf |-> b, pos |-> 0]
    /\ UNCHANGED <<writer, written, got, parsed>>

(* The reader makes the writer's calls, up to the first that fails.          *)
Failed(result) == result \in {Eof, Unsupported, Panic}
Read ==
    /\ reader # NoBuffer /\ Len(got) < Len(written)
    /\ \A n \in DOMAIN got : ~ Failed(got[n])
    /\ LET r == Reads(reader, written[Len(got) + 1]) IN
       /\ reader' = r.to
       /\ got' = Append(got, r.result)
    /\ UNCHANGED <<writer, written, parsed>>

Parse ==
    /\ written = << >> /\ parsed = NotParsed
    /\ \E l \in Layouts, ciphertext \in Payloads :
       \E b \in Arrivals(to_bytes(l, ciphertext)) :
          parsed' = [kind |-> "message", of |-> l, ciphertext |-> ciphertext, bytes |-> b,
                     result |-> from_bytes(l, b)]
    /\ UNCHANGED <<writer, written, reader, got>>

ParseShare ==
    /\ written = << >> /\ parsed = NotParsed
    /\ \E n \in 0..2 :
       LET m == HistoryKeyShareMessage(n) IN
       \E b \in Arrivals(share_to_bytes(m)) :
          parsed' = [kind |-> "share", share |-> m, bytes |-> b, result |-> share_from_bytes(b)]
    /\ UNCHANGED <<writer, written, reader, got>>

ByteNext == (\E c \in WireCalls : Write(c)) \/ HandOver \/ Read \/ Parse \/ ParseShare
-----------------------------------------------------------------------------
(* What a reader gets from a stream that was cut or padded is what was       *)
(* written, in order, up to where the bytes end, and then an error; at the   *)
(* call the writer failed in it gets an error too, although a length may     *)
(* stand there without its data, unless what was padded reads as that data.  *)
(* And whatever arrives, no read leaves the buffer.                          *)
ValueOf(c) == Ok(IF c.call = "header" THEN header_to_bytes ELSE c.value)
Intact(b) == IsPrefix(b, writer.buf) \/ IsPrefix(writer.buf, b)
StreamReadsBack ==
    /\ writer.pos <= Len(writer.buf)
    /\ reader.pos <= Len(reader.buf)
    /\ \A n \in DOMAIN got :
        LET complete == writer.ok \/ n < Len(written) IN
        /\ got[n] # Panic
        /\ Intact(reader.buf) =>
              IF complete
              THEN /\ got[n] \in {Eof, ValueOf(written[n])}
                   /\ Len(reader.buf) >= Len(writer.buf) => got[n] # Eof
              ELSE Len(reader.buf) <= Len(writer.buf) => got[n] = Eof

(* Every parser, whatever it is given, refuses or parses and never reads     *)
(* outside; what it parsed, written again, is what it was given, except for  *)
(* the lengths it does not look at, a reason it does not know, the upper     *)
(* half of a share's count and what follows the message.                     *)
Agree(again, b, unseen) == \A k \in DOMAIN again \ unseen : k \in DOMAIN b /\ b[k] = again[k]
Given(l, m, b) ==
    Agree(to_bytes([l EXCEPT !.fields = m.fields], m.ciphertext), b,
          UNION {(Start(l, k) + 1)..(Start(l, k) + Len(l.fields[k].bytes)) :
                    k \in {j \in DOMAIN l.fields : l.fields[j].kind \in {"skipped", "reason"}}})
ShareGiven(m, b) ==
    LET again == share_to_bytes(m)
    IN Len(again) = Len(b) /\ Agree(again, b, (LengthBytes + 2)..(COUNT_BYTES + 1))

MessagesParseAsWritten ==
    parsed # NotParsed =>
        /\ parsed.result # Panic
        /\ IF parsed.kind = "share"
           THEN /\ parsed.bytes = share_to_bytes(parsed.share) => parsed.result = Ok(parsed.share)
                /\ parsed.result # Malformed => ShareGiven(parsed.result.value, parsed.bytes)
           ELSE /\ parsed.bytes = to_bytes(parsed.of, parsed.ciphertext) =>
                      parsed.result = Ok([fields |-> parsed.of.fields, ciphertext |->
                                             IF parsed.of.tail THEN parsed.ciphertext ELSE << >>])
                /\ ~ parsed.result \in {Malformed, Unsupported} =>
                      Given(parsed.of, parsed.result.value, parsed.bytes)

(* Bytes give back what was written, or an error.                            *)
BytesReadAsWritten == StreamReadsBack /\ MessagesParseAsWritten
=============================================================================
