----------------------------- MODULE FtsPattern -----------------------------
(***************************************************************************)
(* The (m,k)-patterns of the fault-tolerance scheduler (rtems/src/fts_t.c):*)
(* how create_pattern_t fills the pattern bytes, how static_next_version_t *)
(* walks them, and how tol_counter_set splits a pattern into partitions.   *)
(*                                                                         *)
(* A pattern is the bit string the C code keeps in consecutive bytes: bit  *)
(* n is bit n % 8, counted from the most significant one (BIT_7), of byte  *)
(* n \div 8.  A "1" asks for a reliable job, a "0" allows an unreliable    *)
(* one.  The caller's pattern_end and max_bitpos describe exactly k bits,  *)
(* as in the applications FTS_RM/fts_c/test.c and FTS_T/fts_c/test.c.      *)
(***************************************************************************)
EXTENDS Naturals, FiniteSets

BITS == 8                            \* bits of a uint8_t pattern byte

R_PATTERN == "R_PATTERN"
E_PATTERN == "E_PATTERN"
PatternTypes == {R_PATTERN, E_PATTERN}

(***************************************************************************)
(* create_pattern_t.                                                       *)
(***************************************************************************)

\* The integer rounding-up the code spells  x / y + (x % y != 0).
CeilDiv(x, y) == (x \div y) + (IF x % y # 0 THEN 1 ELSE 0)

\* Mutation: one more byte is cleared.
BugRSwitchByte(m, k) == CeilDiv(k - m, BITS)

\* The byte in which the R-pattern passes from "0"s to "1"s: the last of the
\* zero_bytes, or the first byte when there is none to clear.
RSwitchByte(m, k) ==
    LET zero_bytes == CeilDiv(k - m, BITS)
    IN  IF zero_bytes = 0 THEN 0 ELSE zero_bytes - 1

\* R-pattern: cleared bytes, then  255 >> ((k - m) % 8)  or-ed into the last
\* of them, then bytes of 255.
RBit(m, k, n) ==
    LET b == n \div BITS
        s == RSwitchByte(m, k)
    IN  IF \/ b < s
           \/ b = s /\ n % BITS < (k - m) % BITS
        THEN 0 ELSE 1

\* Whether position j of the E-pattern is reliable by Ramanathan's formula.
\* It divides by k - m.
RamanOne(m, k, j) ==
    j # (CeilDiv(j * (k - m), k) * k) \div (k - m)

\* E-pattern as stored: set_byte is declared before the loop over the bytes
\* and never cleared, so a byte also holds the "1"s of the bytes before it.
EBit(m, k, n) ==
    IF \E b \in 0 .. n \div BITS : RamanOne(m, k, (b * BITS) + (n % BITS))
    THEN 1 ELSE 0

PatternBit(type, m, k, n) ==
    IF type = R_PATTERN THEN RBit(m, k, n) ELSE EBit(m, k, n)

create_pattern(type, m, k) == [n \in 0 .. k - 1 |-> PatternBit(type, m, k, n)]

\* The arguments on which create_pattern_t computes a pattern: the E-pattern
\* formula divides by k - m, and the int8_t k_minus_m holds at most 127.
PatternDefined(type, m, k) ==
    /\ k > 0 /\ m <= k
    /\ type = E_PATTERN => m < k
    /\ type = R_PATTERN => k - m <= 127

(***************************************************************************)
(* static_next_version_t: the bit read, and the move to the next one.  A   *)
(* position is the pair curr_pos (as a byte index) and bitpos.             *)
(***************************************************************************)

StartPos == [byte |-> 0, bit |-> 0]

\* Mutation: the number of bits in place of the last position.
BugMaxBitpos(k) == k % BITS

EndByte(k)   == (k - 1) \div BITS    \* pattern_end
MaxBitpos(k) == (k - 1) % BITS       \* max_bitpos

NextPos(k, pos) ==
    IF pos.byte = EndByte(k)
    THEN IF pos.bit < MaxBitpos(k)
         THEN [pos EXCEPT !.bit = @ + 1]
         ELSE StartPos
    ELSE IF pos.bit < BITS - 1
         THEN [pos EXCEPT !.bit = @ + 1]
         ELSE [byte |-> pos.byte + 1, bit |-> 0]

BitIndex(pos) == (pos.byte * BITS) + pos.bit

(***************************************************************************)
(* tol_counter_set: a partition is a run of "0"s and the run of "1"s that  *)
(* follows it; o counts its "0"s and a its "1"s.                           *)
(***************************************************************************)

\* Mutation: a partition begins with its "1"s.
BugPartitionOf(p, n) ==
    Cardinality({j \in 1 .. n : p[j] = 1 /\ p[j - 1] = 0})

\* The value of the variable partition when bit n of pattern p is counted.
PartitionOf(p, n) ==
    Cardinality({j \in 1 .. n : p[j] = 0 /\ p[j - 1] = 1})

nr_partitions(p, k) == PartitionOf(p, k - 1)

CountIn(p, k, part, bit) ==
    Cardinality({n \in 0 .. k - 1 : p[n] = bit /\ PartitionOf(p, n) = part})

tol_counter_o(p, k) == [part \in 0 .. nr_partitions(p, k) |-> CountIn(p, k, part, 0)]
tol_counter_a(p, k) == [part \in 0 .. nr_partitions(p, k) |-> CountIn(p, k, part, 1)]

=============================================================================
