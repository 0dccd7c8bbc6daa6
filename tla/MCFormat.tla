------------------------------ MODULE MCFormat ------------------------------
(* Buffers of both families on a target whose usize is narrower than u64.  *)
EXTENDS Format

MCFamilies ==
  {[family |-> 0, r |-> r, elem |-> WordLen, w |-> 2] : r \in 1 .. 3}
    \cup {[family |-> 1, r |-> 1, elem |-> 2 * WordLen, w |-> 4]}

MCRawSeed == [o \in 0 .. 2 |-> (o * 5) % U64]

(* Tables of two and three blocks, as far as memory has room for them      *)
MCBuilt ==
  {f \in {[type |-> t, num_starts |-> (blocks - 1) * t.w + 1,
           ordinal_seed |-> IF t.family = 1 THEN o ELSE 0,
           raw_seed |-> IF t.family = 1 THEN MCRawSeed[o] ELSE 13 * o,
           segs |-> [p \in 1 .. blocks * t.r |-> (p * fill) % U64]] :
            t \in MCFamilies, o \in 0 .. 2, blocks \in 2 .. 3, fill \in {0, 19}} :
     HeaderLen + Len(f.segs) * f.type.elem + ChecksumLen <= UsizeMax}

Header(t, reserved, seed, num_starts, count) ==
  <<Magic, t.family, t.r, reserved>> \o to_le_bytes(seed, WordLen)
    \o to_le_bytes(num_starts, WordLen) \o to_le_bytes(count, WordLen)

(* Every geometry that fits a usize, many that do not, numbers of starts   *)
(* that overflow a u64; the reserved byte and a seed out of range with the *)
(* geometry of two blocks                                                  *)
MCForeign ==
  [headers |->
     {Header(t, 0, 2, num_starts, count) :
        t \in MCFamilies, num_starts \in (0 .. 40) \cup {U64 - 2, U64 - 1},
        count \in 0 .. 40}
     \cup {Header(t, reserved, seed, t.w + 1, 2 * t.r) :
             t \in MCFamilies, reserved \in {0, 1}, seed \in {2, 3}},
   payloads |-> {8, 10, 16}]
=============================================================================
