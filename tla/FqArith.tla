------------------------------ MODULE FqArith ------------------------------
(* The division-free arithmetic of sntrup761 (fq.rs, encoding.rs, poly.rs): *)
(* every reduction modulo Q or 3 multiplies by a precomputed reciprocal,    *)
(* refines the quotient once and corrects the remainder by a mask, all in   *)
(* machine words that wrap around.                                          *)
EXTENDS Integers

CONSTANTS
    Q,      \* the modulus of Rq (4591)
    WORD    \* the number of values of a u32 (2^32)

V   == WORD \div 2
Q12 == (Q - 1) \div 2
U16 == 65536

wrap(x) == x % WORD

(* The remainder and quotient of Rust's % and /, which round towards zero. *)
rust_rem(x, m) == IF x >= 0 THEN x % m ELSE - ((- x) % m)

(* The bits of a wrapped i16 or i8 read as a signed number. *)
as_i16(x) == ((x + 32768) % U16) - 32768

-----------------------------------------------------------------------------
(* Two approximations of the quotient, then "x - m, and m back if that      *)
(* wrapped". The codec shifts the whole product of the second               *)
(* approximation, the field arithmetic truncates it to a word first.        *)
divmod(x, m, truncated) ==
    LET v     == V \div m
        first == (x * v) \div V
        x1    == wrap(x - first * m)
        next  == (IF truncated THEN wrap(x1 * v) ELSE x1 * v) \div V
        x2    == wrap(x1 - next * m)
        less  == wrap(x2 - m)
        under == less \div V
    IN  << wrap(first + next + 1 - under), wrap(less + under * m) % U16 >>

divmod_u14(x, m)     == divmod(x, m, FALSE)
u32_divmod_u14(x, m) == divmod(x, m, TRUE)
u32_divmod_q(x)      == u32_divmod_u14(x, Q)

(* A signed x is shifted by V, and the quotient and remainder of V are      *)
(* taken away again; a remainder that went below zero shows in its top bits.*)
i32_divmod_q(x) ==
    LET shifted == u32_divmod_q(wrap(V + x))
        ur      == wrap(shifted[2] - (V % Q))
        below   == IF ur \div 32768 # 0 THEN 1 ELSE 0
    IN  << wrap(shifted[1] - V \div Q - below), wrap(ur + below * Q) >>

(* The centred representative modulo Q. *)
freeze(x) == i32_divmod_q(x + Q12)[2] - Q12

(* The centred representative modulo 3, by two fixed-point quotients. *)
f3_freeze(a) ==
    LET b == a - 3 * ((10923 * a) \div 32768)
    IN  b - 3 * ((89478485 * b + 134217728) \div 268435456)

reduce_mod_q(x) ==
    LET r == rust_rem(x, Q)
    IN  CASE r > Q \div 2      -> r - Q
          [] r < - (Q \div 2)  -> r + Q
          [] OTHER             -> r

reduce_mod_3(x) == IF x % 3 = 2 THEN - 1 ELSE x % 3

(* Rq::to_r3 and the same lines of decapsulate. *)
to_r3(x) == LET r == rust_rem(rust_rem(x, 3) + 3, 3)
            IN  IF r = 2 THEN - 1 ELSE r

-----------------------------------------------------------------------------
(* recip: the extended Euclidean algorithm, for the public RATIO. *)
recip(a) ==
    LET step[r \in 0 .. Q, old_r \in 0 .. Q, s \in - Q .. Q, old_s \in - Q .. Q] ==
            IF r = 0
            THEN old_s
            ELSE step[old_r % r, r, old_s - (old_r \div r) * s, s]
    IN  freeze(step[IF a < 0 THEN a + Q ELSE a, Q, 1, 0])

(* recip_ct: a^(Q-2), one bit of the exponent after the other. *)
recip_ct(a) ==
    LET power[e \in 0 .. Q, base \in - Q .. Q, result \in - Q .. Q] ==
            IF e = 0
            THEN result
            ELSE power[e \div 2, freeze(base * base),
                       IF e % 2 = 1 THEN freeze(result * base) ELSE freeze(result)]
    IN  power[Q - 2, IF a < 0 THEN a + Q ELSE a, 1]
=============================================================================
