---------------------------- MODULE MCPrimitives ----------------------------
(* One run for the primitives and what the hybrid schemes build from them: a *)
(* behaviour is about one subject.  A KEM exchange or a signature on a small *)
(* ring, a polynomial of the real size on its way through the codec, hybrid  *)
(* signatures, wrapped keys, or the samplers that read an XOF.               *)
EXTENDS Sntrup, MlDsa, SntrupWire, HybridSignature, HybridKem, Sampling

CONSTANTS ed1, mldsa1, ed2, mldsa2     \* the signing halves of two keypairs
VARIABLE subject

Subjects == {"kem", "signature", "wire", "hybrid signature", "wrap", "sampling"}
MCInit ==
    /\ subject \in Subjects
    /\ KemInit /\ DsaInit /\ WireInit /\ SignInit /\ WrapInit /\ SamplingInit
    /\ subject = "sampling" \/ (sampler.kind = "ntt" /\ sampler.eta = 2 /\ xof.suite = "SHAKE")

MCNext ==
    \/ subject = "kem" /\ KemNext /\ UNCHANGED << subject, dsa_vars, wire, sig_vars, wrap_vars, sampling_vars >>
    \/ subject = "signature" /\ DsaNext /\ UNCHANGED << subject, kem_vars, wire, sig_vars, wrap_vars, sampling_vars >>
    \/ subject = "wire" /\ WireNext /\ UNCHANGED << subject, kem_vars, dsa_vars, sig_vars, wrap_vars, sampling_vars >>
    \/ subject = "hybrid signature" /\ SignNext /\ UNCHANGED << subject, kem_vars, dsa_vars, wire, wrap_vars, sampling_vars >>
    \/ subject = "wrap" /\ WrapNext /\ UNCHANGED << subject, kem_vars, dsa_vars, wire, sig_vars, sampling_vars >>
    \/ subject = "sampling" /\ SamplingNext /\ UNCHANGED << subject, kem_vars, dsa_vars, wire, sig_vars, wrap_vars >>

MCSpec == MCInit /\ [][MCNext]_<< subject, kem_vars, dsa_vars, wire, sig_vars, wrap_vars, sampling_vars >>

Poly(s) == [i \in 0 .. P - 1 |-> s[i + 1]]
MCRqStages == <<
    [m |-> 67,  bytes |-> 1, last |-> 1, clamp |-> 67,  last_clamp |-> 67],
    [m |-> 281, bytes |-> 2, last |-> 2, clamp |-> 281, last_clamp |-> 281],
    [m |-> 309, bytes |-> 2, last |-> 2, clamp |-> 309, last_clamp |-> 309],
    [m |-> 373, bytes |-> 2, last |-> 2, clamp |-> 373, last_clamp |-> 67] >>
Unclamped(m, b) == [m |-> m, bytes |-> b, last |-> b, clamp |-> NoClamp, last_clamp |-> NoClamp]
MCRoundedStages == << Unclamped(23, 1), Unclamped(34, 1), Unclamped(73, 1), Unclamped(334, 2) >>
MCSmall == {Poly(s) : s \in {<<1,0,0,0,0,0,0,0,0>>, <<0,1,1,-1,0,0,1,0,-1>>,
    <<1,0,-1,1,1,1,0,-1,1>>, <<-1,1,0,0,0,0,0,0,0>>, <<1,-1,0,1,0,0,0,0,0>>}}
MCShort == {Poly(s) : s \in {<<1,1,1,1,0,0,0,0,0>>, <<1,0,-1,0,1,0,0,0,-1>>,
    <<0,0,0,0,0,1,-1,-1,1>>, <<1,0,0,0,0,0,0,0,1>>, <<1,-1,1,0,-1,0,0,0,0>>}}

Elems(s) == [i \in Coeffs |-> s[i + 1] % FieldQ]
MCMatrices == {[r \in Rows |-> [c \in Cols |-> ntt(Elems(rows[r + 1]))]] : rows \in {
    << <<64,60,40,24>>, <<81,35,9,72>> >>, << <<50,61,57,1>>, <<78,93,77,2>> >>}}
MCSecrets == {Elems(s) : s \in {<<-1,-1,-1,-1>>, <<1,-1,0,1>>}}
MCMasks == {Elems(s) : s \in {<<2,6,-4,-3>>, <<5,-2,-3,6>>, <<0,-3,2,6>>, <<1,4,2,-1>>}}
MCBalls == {Elems(s) : s \in {<<0,0,1,1>>, <<1,0,0,1>>}}

MCWirePolys ==
    {[i \in 0 .. 760 |-> IF i \in s THEN 2295 ELSE -2295] :
        s \in {{}, {0}, {1}, {759}, {760}, {752, 758, 760}, 0 .. 760}}
    \union {[i \in 0 .. 760 |-> ((k * i) % 4591) - 2295] : k \in {1, 7, 1531, 4590}}

MCKeypairs == {<< ed1, mldsa1 >>, << ed2, mldsa2 >>}
Exchanged == [k \in {ed1, ed2, mldsa1, mldsa2} |-> CASE k = ed1 -> ed2 [] k = ed2 -> ed1 [] k = mldsa1 -> mldsa2 [] k = mldsa2 -> mldsa1]
MCSignedTexts == {<< 2 >>, << 1, 2 >>, << 0, 1, 2 >>}
MCSignContexts == {<< >>, << 1 >>, << 1, 1 >>}
Wrapping(id, epoch) == [recipient_key_id |-> id, purpose |-> "BundleKey", thread_id |-> "t1",
                         bundle_id |-> "b1", epoch |-> epoch]
MCWrapContexts == {Wrapping("k1", 1), Wrapping("k2", 1), Wrapping("k1", 2)}
MCTriples == {<< 0, 224, 127 >>, << 1, 224, 127 >>, << 0, 224, 255 >>, << 255, 255, 255 >>, << 0, 0, 0 >>}
Symmetry == Permutations(KemSeeds) \union {Exchanged}
=============================================================================
