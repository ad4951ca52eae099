--------------------------- MODULE HybridSignature ---------------------------
(* Signatures: the hybrid of trelis-hybrid (signature.rs), and the four plain *)
(* schemes of trelis-primitives, Ed448 and ML-DSA-65 with the BLAKE3 variant  *)
(* of each. A hash is the record of its inputs, a scalar the record of what   *)
(* it was computed from, and a byte string a sequence of numbers. Signatures  *)
(* travel: they may come apart, have their halves exchanged, or arrive in     *)
(* another encoding of the same scalar or of the same hints.                  *)
EXTENDS Naturals, Sequences, FiniteSets

CONSTANTS
    Keypairs,       \* the seeds in use: << Ed448 seed, ML-DSA seed >>
    SignedTexts,    \* messages, as byte strings
    SignContexts,   \* context strings, as byte strings
    MaxContext,     \* longest context (255)
    MaxIssued,      \* bound: signatures made
    HybridMlDsa     \* the ML-DSA variant of the hybrid (DefaultMlDsaScheme)

ASSUME SignatureAssumption == SignedTexts \subseteq Seq(Nat) /\ SignContexts \subseteq Seq(Nat)

VARIABLES
    issued,     \* the signatures made, with the call that made them
    verdict     \* the last verification: the call and its result, or NoVerdict

sig_vars == << issued, verdict >>

NoVerdict == [none |-> "verdict"]
HybridEntries == {"Plain", "Context", "Prehashed"}
Ed448Schemes  == {"Ed448", "Ed448B"}
MlDsaSchemes  == {"MlDsa65", "MlDsa65B"}
PublicKeys    == {<< k[1], l[2] >> : k, l \in Keypairs}

-----------------------------------------------------------------------------
(* The Schnorr surface. ExtCom and the checks of the plain schemes meet only  *)
(* the point they were meant for if challenge and key are the response's.     *)
Point(nonce) == [nonce |-> nonce]

respond(nonce, chl, secret) == [nonce |-> nonce, chl |-> chl, secret |-> secret, plus_L |-> FALSE]

(* The encoding is not looked at. *)
guard_canonical_mutant(rsp) == TRUE

guard_canonical(rsp) == ~ rsp.plus_L

bop_extcom(A, chl, rsp) ==
    IF rsp.chl = chl /\ rsp.secret = A THEN Point(rsp.nonce)
    ELSE [off |-> << rsp, chl, A >>]

-----------------------------------------------------------------------------
(* ML-DSA. The BLAKE3 variant takes no randomness, and its hint decoder lets  *)
(* an index be repeated; the other is a library that does neither.            *)
mldsa_sign(scheme, seed, over, fresh) ==
    [scheme |-> scheme, seed |-> seed, over |-> over, repeated |-> FALSE,
     rnd |-> IF scheme = "MlDsa65" THEN << fresh >> ELSE << >>]

mldsa_verify(scheme, seed, over, sig) ==
    /\ sig.scheme = scheme /\ sig.seed = seed /\ sig.over = over
    /\ sig.repeated => scheme = "MlDsa65B"

message_representative(context, message) == [bytes |-> << 0, Len(context) >> \o context \o message]

-----------------------------------------------------------------------------
(* Plain Ed448: the nonce is derived from the key and what is signed.         *)
sign_inner(A, context, message) ==
    LET head == << 0, Len(context) >> \o context
        r    == [prefix_of |-> A, head |-> head, message |-> message]
        k    == [head |-> head, R |-> Point(r), A |-> A, message |-> message]
    IN  [R |-> Point(r), s |-> respond(r, k, A)]

verify_inner(A, context, message, sig) ==
    LET k == [head |-> << 0, Len(context) >> \o context, R |-> sig.R, A |-> A, message |-> message]
    IN  guard_canonical(sig.s) /\ bop_extcom(A, k, sig.s) = sig.R

-----------------------------------------------------------------------------
(* The hybrid. The region of a call is the message under its context, or the  *)
(* message itself; the digest of a prehash is marked by a number that is no   *)
(* byte. Signed by ML-DSA is m', and its signature is the Schnorr challenge.  *)
Digest == 256
bop_context_region(context, message) == << Len(context) >> \o context \o message

region(entry, context, message) ==
    CASE entry = "Plain"     -> message
      [] entry = "Context"   -> bop_context_region(context, message)
      [] entry = "Prehashed" -> << Digest >> \o bop_context_region(context, message)

bop_m_prime(domain, pk_id, pk_sig, message, com) ==
    [h1 |-> domain, pk_id |-> pk_id, pk_sig |-> pk_sig, message |-> message, com |-> com]

bop_sign_core(k, domain, message, fresh) ==
    LET m_prime == bop_m_prime(domain, k[1], k[2], message, Point(fresh))
        sigma2  == mldsa_sign(HybridMlDsa, k[2], [m_prime |-> m_prime], fresh)
    IN  [rsp |-> respond(fresh, sigma2, k[1]), mldsa |-> sigma2]

bop_verify_core(pk, domain, message, sig) ==
    /\ guard_canonical(sig.rsp)
    /\ LET R == bop_extcom(pk[1], sig.mldsa, sig.rsp)
       IN  mldsa_verify(HybridMlDsa, pk[2], [m_prime |-> bop_m_prime(domain, pk[1], pk[2], message, R)], sig.mldsa)

-----------------------------------------------------------------------------
SignInit == issued = {} /\ verdict = NoVerdict

(* A context that is too long is an error wherever its length takes one byte. *)
ContextFits(entry, context) == entry # "Prehashed" => Len(context) <= MaxContext

(* Signing without a context is signing under the empty one, except by Plain. *)
Calls == {c \in [key : PublicKeys, entry : HybridEntries \union Ed448Schemes \union MlDsaSchemes,
                 context : SignContexts, message : SignedTexts] :
              /\ c.entry = "Plain" => c.context = << >>
              /\ c.entry \notin HybridEntries => c.key \in Keypairs}

sign(c, fresh) ==
    CASE c.entry \in Ed448Schemes -> sign_inner(<< c.entry, c.key[1] >>, c.context, c.message)
      [] c.entry \in MlDsaSchemes -> mldsa_sign(c.entry, c.key[2], message_representative(c.context, c.message), fresh)
      [] OTHER -> bop_sign_core(c.key, c.entry, region(c.entry, c.context, c.message), fresh)

(* Every call draws afresh; the draws are numbered. *)
Issue(c) ==
    LET fresh == Cardinality(issued) + 1 IN
    /\ fresh <= MaxIssued
    /\ c.key \in Keypairs
    /\ ContextFits(c.entry, c.context)
    /\ issued' = issued \union {[call |-> c, sig |-> sign(c, fresh)]}
    /\ UNCHANGED verdict

(* What may arrive: the halves of two signatures, the scalar encoded as it is *)
(* or with the group order added, the hints with an index repeated.           *)
Scalars(x) == {x, [x EXCEPT !.plus_L = TRUE]}
Hints(x)   == {x, [x EXCEPT !.repeated = TRUE]}

Family(entry) ==
    CASE entry \in Ed448Schemes -> "Ed448" [] entry \in MlDsaSchemes -> "MlDsa" [] OTHER -> "Hybrid"

Arriving(family) ==
    LET made == {i.sig : i \in {j \in issued : Family(j.call.entry) = family}}
    IN  UNION {CASE family = "Ed448"  -> [R : {x.R}, s : Scalars(y.s)]
                 [] family = "Hybrid" -> [rsp : Scalars(x.rsp), mldsa : Hints(y.mldsa)]
                 [] family = "MlDsa"  -> Hints(x) : x, y \in made}

verify(c, sig) ==
    CASE c.entry \in Ed448Schemes -> verify_inner(<< c.entry, c.key[1] >>, c.context, c.message, sig)
      [] c.entry \in MlDsaSchemes -> mldsa_verify(c.entry, c.key[2], message_representative(c.context, c.message), sig)
      [] OTHER -> bop_verify_core(c.key, c.entry, region(c.entry, c.context, c.message), sig)

VerifyCall(c, sig) ==
    /\ verdict' = [call |-> c, sig |-> sig, accepted |-> ContextFits(c.entry, c.context) /\ verify(c, sig)]
    /\ UNCHANGED issued

(* Verifying changes nothing, so the first verdict ends the behaviour.        *)
SignNext ==
    /\ verdict = NoVerdict
    /\ \/ \E c \in Calls : Issue(c)
       \/ \E c \in Calls : \E sig \in Arriving(Family(c.entry)) : VerifyCall(c, sig)

SignSpec == SignInit /\ [][SignNext]_sig_vars

-----------------------------------------------------------------------------
(* A signature is accepted for exactly the call that made it: the scheme and  *)
(* the whole key, the entry point, the context and the message, in the one    *)
(* encoding the signer produced, and always for that one. Only the hints of a *)
(* plain ML-DSA-B signature may be encoded in another way; in the hybrid they *)
(* are bound by the challenge. (sign and verify, with their context and       *)
(* prehash forms, of signature.rs, ed448.rs, ed448b.rs, mldsa65.rs, mldsa65b) *)
SameCall(c, d) ==
    /\ c.entry = d.entry /\ c.context = d.context /\ c.message = d.message
    /\ CASE c.entry \in Ed448Schemes -> c.key[1] = d.key[1]
         [] c.entry \in MlDsaSchemes -> c.key[2] = d.key[2]
         [] OTHER                    -> c.key = d.key

SameBytes(c, made, arrived) ==
    made = arrived \/ (c.entry = "MlDsa65B" /\ made = [arrived EXCEPT !.repeated = FALSE])

AcceptedIffIssued ==
    verdict # NoVerdict =>
        (verdict.accepted <=> \E i \in issued : /\ SameCall(i.call, verdict.call)
                                                /\ SameBytes(i.call, i.sig, verdict.sig))
=============================================================================
