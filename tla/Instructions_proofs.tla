------------------------- MODULE Instructions_proofs -------------------------
(***************************************************************************)
(* Proofs about Instructions: a fault leaves nothing behind, and what the  *)
(* programs of the laws compute, for registers of 4, 8, 16 and 32 bits and *)
(* for all operands, whatever faults and repairs come between.             *)
(***************************************************************************)
EXTENDS Instructions, Arithmetic, TLAPS

-----------------------------------------------------------------------------
(* What every program has in common: the steps between two instructions    *)
(* change nothing an instruction can see, and an instruction runs as it    *)
(* was decoded at the pc.                                                  *)

LawfulJob == job \in Jobs \/ job.law = "rvc"

Decoded(n) ==
    /\ phase \in {"fetch", "execute"}
    /\ phase = "execute" => minstret < n /\ dInstr = InstrAt(job.code, pc)

Between == FetchTraps \/ FetchAndDecode \/ Repair

Handlers == Compute \/ Branch \/ Jump \/ Load \/ Store \/ Amo \/ Csr \/ Raise

LEMMA NextIsEither ==
    ASSUME Next PROVE Between \/ Handlers
  BY DEF Next, Between, Handlers

LEMMA BetweenKeeps ==
    ASSUME Between
    PROVE  /\ UNCHANGED <<job, regs, mem, csrs, pc, minstret>>
           /\ \/ phase' = "fetch"
              \/ phase' = phase /\ dInstr' = dInstr
              \/ /\ phase' = "execute" /\ dInstr' = InstrAt(job.code, pc)
                 /\ pc \in DOMAIN job.code
  BY DEF Between, FetchTraps, FetchAndDecode, Repair, Traps, Running, InstrAt

-----------------------------------------------------------------------------
(* Faults.                                                                 *)

(* A handler either traps or retires.                                      *)
LEMMA RetiringClears ==
    ASSUME NEW next_pc, Retires(next_pc) PROVE trap' = None /\ phase' = "fetch"
  BY DEF Retires

LEMMA TrappingKeeps ==
    ASSUME NEW cause, NEW tval, Traps(cause, tval)
    PROVE  UNCHANGED <<pc, minstret>> /\ phase' = "fetch"
  BY DEF Traps

(* The step of FaultsAreClean, without its subscript.                      *)
CleanStep ==
    trap' # None /\ dInstr.kind \notin {"CSRRSI", "CSRRCI"}
        => UNCHANGED <<regs, mem, csrs, pc>>

LEMMA HandlersAreClean ==
    ASSUME Handlers PROVE CleanStep /\ phase' = "fetch"
  <1>1. CASE Compute
    <2>1. CASE BadShift(dInstr)
      BY <1>1, <2>1, TrappingKeeps DEF Compute, CleanStep
    <2>2. CASE ~BadShift(dInstr)
      BY <1>1, <2>2, RetiringClears DEF Compute, Advances, CleanStep
    <2> QED
      BY <2>1, <2>2
  <1>2. CASE Branch
    <2> DEFINE target == Wrap(pc + dInstr.imm)
    <2> HIDE DEF target
    <2>1. \/ Retires(pc + instr_len)
          \/ Traps("MISALIGNED_INSTRUCTION", target) \/ Retires(target)
      BY <1>2 DEF Branch, Advances, target
    <2> QED
      BY <1>2, <2>1, TrappingKeeps, RetiringClears DEF Branch, CleanStep
  <1>3. CASE Jump
    <2> DEFINE target == Target(dInstr, regs)
    <2> HIDE DEF target
    <2>1. \/ Traps("MISALIGNED_INSTRUCTION", target) /\ UNCHANGED regs
          \/ Retires(target)
      BY <1>3 DEF Jump, target
    <2> QED
      BY <1>3, <2>1, TrappingKeeps, RetiringClears DEF Jump, CleanStep
  <1>4. CASE Load
    <2> DEFINE a == Wrap(regs[dInstr.rs1] + dInstr.imm)
    <2> HIDE DEF a
    <2>1. \/ Traps("LOAD_PAGE_FAULT", a) /\ UNCHANGED regs
          \/ Traps("LOAD_ACCESS_FAULT", a) /\ UNCHANGED regs
          \/ Retires(pc + instr_len)
      BY <1>4 DEF Load, Advances, a
    <2> QED
      BY <1>4, <2>1, TrappingKeeps, RetiringClears DEF Load, CleanStep
  <1>5. CASE Store
    <2> DEFINE a == Wrap(regs[dInstr.rs1] + dInstr.imm)
    <2> HIDE DEF a
    <2>1. \/ Traps("STORE_PAGE_FAULT", a) /\ UNCHANGED mem
          \/ Retires(pc + instr_len)
      BY <1>5 DEF Store, Advances, a
    <2> QED
      BY <1>5, <2>1, TrappingKeeps, RetiringClears DEF Store, CleanStep
  <1>6. CASE Amo
    <2> DEFINE a == regs[dInstr.rs1]
    <2> HIDE DEF a
    <2>1. \/ Traps("STORE_PAGE_FAULT", a) /\ UNCHANGED <<regs, mem>>
          \/ Traps("MISALIGNED_STORE_ADDRESS", a) /\ UNCHANGED <<regs, mem>>
          \/ Traps("STORE_ACCESS_FAULT", a) /\ UNCHANGED <<regs, mem>>
          \/ Retires(pc + instr_len)
      BY <1>6 DEF Amo, Advances, a
    <2> QED
      BY <1>6, <2>1, TrappingKeeps, RetiringClears DEF Amo, CleanStep
  <1>7. CASE Csr
    <2>1. CASE ~Readable(dInstr.imm)
      BY <1>7, <2>1, TrappingKeeps DEF Csr, CleanStep
    <2>2. CASE Readable(dInstr.imm) /\ WritesCsr(dInstr) /\ ~Writable(dInstr.imm)
      BY <1>7, <2>2, TrappingKeeps DEF Csr, CleanStep, RdBeforeWrite
    <2>3. CASE Readable(dInstr.imm) /\ ~(WritesCsr(dInstr) /\ ~Writable(dInstr.imm))
      <3>1. Advances
        BY <1>7, <2>3 DEF Csr
      <3> QED
        BY <3>1, RetiringClears DEF Advances, CleanStep
    <2> QED
      BY <2>1, <2>2, <2>3
  <1>8. CASE Raise
    <2>1. \/ Traps("BREAKPOINT", pc) \/ Traps("ENVIRONMENT_CALL", 0)
          \/ Traps("ILLEGAL_INSTRUCTION", 0)
      BY <1>8 DEF Raise, Executes
    <2> QED
      BY <1>8, <2>1, TrappingKeeps DEF Raise, CleanStep
  <1> QED
    BY <1>1, <1>2, <1>3, <1>4, <1>5, <1>6, <1>7, <1>8 DEF Handlers

LEMMA StepsAreClean ==
    ASSUME Next PROVE CleanStep
  <1>1. CASE Between
    <2>1. \/ UNCHANGED <<regs, mem, csrs, pc>>
          \/ trap' = None
      BY <1>1, BetweenKeeps
    <2> QED
      BY <2>1 DEF CleanStep
  <1>2. CASE Handlers
    BY <1>2, HandlersAreClean
  <1> QED
    BY <1>1, <1>2, NextIsEither

(* Whatever the program and the operands: an instruction that traps has    *)
(* changed no register, no memory, no CSR and not the pc, so that the      *)
(* handler can run it again; CSRRSI and CSRRCI of a read-only CSR are the  *)
(* exception.                                                              *)
THEOREM FaultsLeaveNothing == Spec => FaultsAreClean
  <1>1. [Next]_vars => [CleanStep]_vars
    BY StepsAreClean
  <1> QED
    BY <1>1, PTL DEF Spec, FaultsAreClean, CleanStep

LEMMA HandlersKeep ==
    ASSUME Handlers
    PROVE  phase = "execute" /\ phase' = "fetch" /\ job' = job
  <1>1. ASSUME NEW kinds, Executes(kinds) PROVE phase = "execute" /\ job' = job
    BY <1>1 DEF Executes
  <1>2. phase = "execute" /\ job' = job
    BY <1>1 DEF Handlers, Compute, Branch, Jump, Load, Store, Amo, Csr, Raise
  <1> QED
    BY <1>2, HandlersAreClean

-----------------------------------------------------------------------------
(* Words as unsigned and as signed numbers.                                *)

(* 2^Width and its half.                                                   *)
M == 2^Width
H == 2^(Width - 1)

LEMMA Halves ==
    /\ M \in Nat /\ H \in Nat /\ M = 2 * H /\ H >= 8 /\ H % 8 = 0
    /\ Width \in Nat \ {0}
  <1>1. CASE Width = 4
    BY <1>1 DEF M, H
  <1>2. CASE Width = 8
    BY <1>2 DEF M, H
  <1>3. CASE Width = 16
    BY <1>3 DEF M, H
  <1>4. CASE Width = 32
    BY <1>4 DEF M, H
  <1> QED
    BY <1>1, <1>2, <1>3, <1>4, WidthAssumption

LEMMA DivMod ==
    ASSUME NEW x \in Int, NEW y \in Nat \ {0}
    PROVE  /\ x \div y \in Int /\ x % y \in 0..(y - 1)
           /\ x = y * (x \div y) + (x % y)
  OBVIOUS

LEMMA QuotientBetween ==
    ASSUME NEW x \in Int, NEW y \in Nat \ {0}, NEW lo \in Int, NEW hi \in Int,
           y * lo <= x, x < y * (hi + 1)
    PROVE  x \div y \in lo..hi
  OBVIOUS

LEMMA RemainderIs ==
    ASSUME NEW x \in Int, NEW y \in Nat \ {0}, NEW q \in Int, NEW r \in 0..(y - 1),
           x = y * q + r
    PROVE  x \div y = q /\ x % y = r
  OBVIOUS

(* What a word is as a signed number, and back.                            *)
LEMMA SignedRange ==
    ASSUME NEW x \in Word
    PROVE  /\ Signed(x) \in -H..(H - 1)
           /\ Signed(x) = x \/ Signed(x) = x - M
           /\ Signed(x) = IF x >= H THEN x - M ELSE x
  BY Halves DEF Signed, sign_extend, Word, M, H

LEMMA WrapRange ==
    ASSUME NEW x \in Int
    PROVE  Wrap(x) \in Word /\ x = M * (x \div M) + Wrap(x) /\ x \div M \in Int
  <1>1. M \in Nat \ {0}
    BY Halves
  <1> QED
    BY <1>1, DivMod DEF Wrap, Word, M

LEMMA WrapIs ==
    ASSUME NEW q \in Int, NEW r \in Word
    PROVE  Wrap(M * q + r) = r
  <1> DEFINE x == M * q + r
  <1>1. M \in Nat \ {0} /\ r \in 0..(M - 1) /\ x \in Int
    BY Halves DEF Word, M
  <1>2. x % M = r
    BY <1>1, RemainderIs
  <1> QED
    BY <1>2 DEF Wrap, M

LEMMA WrapWord ==
    ASSUME NEW x \in Word PROVE Wrap(x) = x
  <1>1. M * 0 + x = x
    BY Halves DEF Word, M
  <1> QED
    BY <1>1, WrapIs

LEMMA WrapShift ==
    ASSUME NEW x \in Int, NEW k \in Int
    PROVE  Wrap(x + M * k) = Wrap(x)
  <1> DEFINE q == x \div M
             r == Wrap(x)
  <1>1. q \in Int /\ r \in Word /\ x = M * q + r
    BY WrapRange
  <1> HIDE DEF q, r
  <1>2. M * (q + k) = M * q + M * k /\ M \in Nat /\ r \in Int
    BY <1>1, Halves DEF Word, M
  <1>3. x + M * k = M * (q + k) + r
    BY <1>1, <1>2
  <1>4. q + k \in Int
    BY <1>1
  <1>5. Wrap(x + M * k) = r
    BY <1>1, <1>3, <1>4, WrapIs
  <1> QED
    BY <1>5 DEF r

LEMMA SignedWrap ==
    ASSUME NEW v \in -H..(H - 1)
    PROVE  Wrap(v) \in Word /\ Signed(Wrap(v)) = v
  <1>1. CASE v >= 0
    <2>1. v \in Word
      BY <1>1, Halves DEF Word, M
    <2> QED
      BY <1>1, <2>1, WrapWord, SignedRange, Halves
  <1>2. CASE v < 0
    <2>1. v + M \in Word /\ v + M >= H
      BY <1>2, Halves DEF Word, M
    <2>2. v = (v + M) + M * (-1) /\ v + M \in Int
      BY Halves
    <2>3. ASSUME NEW w \in Int, v = w + M * (-1) PROVE Wrap(v) = Wrap(w)
      <3>1. -1 \in Int
        OBVIOUS
      <3>2. Wrap(w + M * (-1)) = Wrap(w)
        BY <3>1, WrapShift, Zenon
      <3> QED
        BY <2>3, <3>2, Zenon
    <2>4. Wrap(v) = v + M
      BY <2>1, <2>2, <2>3, WrapWord
    <2> QED
      BY <2>1, <2>4, SignedRange, Halves
  <1> QED
    BY <1>1, <1>2, Halves

-----------------------------------------------------------------------------
(* The two halves of a product.                                            *)

LEMMA ProductBounds ==
    ASSUME NEW h \in Nat, NEW x \in -h..h, NEW y \in -h..h
    PROVE  x * y \in -(h * h)..(h * h)
  OBVIOUS

LEMMA ProductBounds2 ==
    ASSUME NEW h \in Nat, NEW k \in Nat, NEW x \in -h..h, NEW y \in 0..k
    PROVE  x * y \in -(h * k)..(h * k)
  OBVIOUS

(* A number between -(M * H) and M * H is its two halves.                  *)
LEMMA HalvesOf ==
    ASSUME NEW p \in Int, M * (-H) <= p, p < M * H
    PROVE  /\ Signed(Wrap(p \div M)) * M + Wrap(p) = p
           /\ Wrap(p \div M) \in Word /\ Wrap(p) \in Word
  <1>1. M \in Nat \ {0} /\ H \in Nat /\ H - 1 \in Int /\ -H \in Int /\ (H - 1) + 1 = H
    BY Halves
  <1>2. p \div M \in -H..(H - 1)
    BY <1>1, QuotientBetween
  <1>3. Signed(Wrap(p \div M)) = p \div M /\ Wrap(p \div M) \in Word
    BY <1>2, SignedWrap
  <1>4. Wrap(p) \in Word /\ p = M * (p \div M) + Wrap(p)
    BY WrapRange
  <1>5. M * (p \div M) = (p \div M) * M
    BY <1>1, <1>2
  <1> QED
    BY <1>3, <1>4, <1>5

LEMMA HalvesOfUnsigned ==
    ASSUME NEW p \in Nat, p < M * M
    PROVE  /\ Wrap(p \div M) * M + Wrap(p) = p
           /\ Wrap(p \div M) \in Word /\ Wrap(p) \in Word
  <1>1. M \in Nat \ {0} /\ M - 1 \in Int /\ (M - 1) + 1 = M /\ M * 0 <= p
    BY Halves
  <1>2. p \div M \in 0..(M - 1)
    BY <1>1, QuotientBetween
  <1>3. Wrap(p \div M) = p \div M /\ p \div M \in Word
    BY <1>2, WrapWord DEF Word, M
  <1>4. Wrap(p) \in Word /\ p = M * (p \div M) + Wrap(p)
    BY WrapRange
  <1>5. M * (p \div M) = (p \div M) * M
    BY <1>1, <1>2
  <1> QED
    BY <1>3, <1>4, <1>5

LEMMA MulhHalves ==
    ASSUME NEW a \in Word, NEW b \in Word
    PROVE  LET high == Wrap(MulHigh("MULH", a, b))
               low  == Wrap(Alu("MUL", a, b))
           IN  Signed(high) * 2^Width + low = Signed(a) * Signed(b)
  <1> DEFINE x == Signed(a)
             y == Signed(b)
             p == x * y
  <1>1. x \in -H..H /\ y \in -H..H /\ x \in Int /\ y \in Int
    BY SignedRange, Halves
  <1>2. MulHigh("MULH", a, b) = p \div M /\ Alu("MUL", a, b) = p
    BY DEF MulHigh, Alu, M
  <1> HIDE DEF x, y
  <1>3. p \in -(H * H)..(H * H) /\ p \in Int
    BY <1>1, ProductBounds, Halves
  <1> HIDE DEF p
  <1>4. M * (-H) <= p /\ p < M * H
    <2>1. M * H = 2 * (H * H) /\ M * (-H) = -(2 * (H * H)) /\ H * H > 0 /\ H * H \in Nat
      BY Halves
    <2> QED
      BY <1>3, <2>1
  <1> QED
    BY <1>2, <1>3, <1>4, HalvesOf DEF M, p, x, y

LEMMA MulhsuHalves ==
    ASSUME NEW a \in Word, NEW b \in Word
    PROVE  LET high == Wrap(MulHigh("MULHSU", a, b))
               low  == Wrap(Alu("MUL", a, b))
           IN  Signed(high) * 2^Width + low = Signed(a) * b
  <1> DEFINE x == Signed(a)
             y == Signed(b)
             p == x * b
             s == x * y
  <1>1. /\ x \in -H..H /\ x \in Int /\ y \in Int
        /\ b \in 0..(M - 1) /\ M - 1 \in Nat /\ (y = b \/ y = b - M)
    BY SignedRange, Halves DEF Word, M
  <1>2. MulHigh("MULHSU", a, b) = p \div M /\ Alu("MUL", a, b) = s
    BY DEF MulHigh, Alu, M
  <1> HIDE DEF x, y
  <1>3. p \in -(H * (M - 1))..(H * (M - 1)) /\ p \in Int
    BY <1>1, ProductBounds2, Halves
  <1>4. s = p + M * 0 \/ s = p + M * (-x)
    <2>1. CASE y = b
      BY <1>1, <1>3, <2>1, Halves
    <2>2. CASE y = b - M
      <3>1. x * (b - M) = x * b + M * (-x)
        BY <1>1, Halves
      <3> QED
        BY <2>2, <3>1
    <2> QED
      BY <1>1, <2>1, <2>2
  <1> HIDE DEF p, s
  <1>5. Wrap(s) = Wrap(p)
    BY <1>1, <1>3, <1>4, WrapShift
  <1>6. M * (-H) <= p /\ p < M * H
    <2>1. M * H = H * (M - 1) + H /\ M * (-H) = -(H * (M - 1)) - H /\ H * (M - 1) \in Nat /\ H > 0 /\ H \in Nat
      BY Halves
    <2> QED
      BY <1>3, <2>1
  <1> QED
    BY <1>2, <1>3, <1>5, <1>6, HalvesOf DEF M, p, x, y

LEMMA MulhuHalves ==
    ASSUME NEW a \in Word, NEW b \in Word
    PROVE  LET high == Wrap(MulHigh("MULHU", a, b))
               low  == Wrap(Alu("MUL", a, b))
           IN  high * 2^Width + low = a * b
  <1> DEFINE x == Signed(a)
             y == Signed(b)
             p == a * b
             s == x * y
  <1>1. /\ a \in 0..(M - 1) /\ b \in 0..(M - 1) /\ M \in Nat /\ M > 0
        /\ (x = a \/ x = a - M) /\ (y = b \/ y = b - M)
    BY SignedRange, Halves DEF Word, M
  <1>2. MulHigh("MULHU", a, b) = p \div M /\ Alu("MUL", a, b) = s
    BY DEF MulHigh, Alu, M
  <1> HIDE DEF x, y
  <1>3. p \in Nat /\ p < M * M
    BY <1>1
  <1>4. \E k \in Int : s = p + M * k
    <2>1. CASE x = a /\ y = b
      <3>1. s = p + M * 0
        BY <1>1, <1>3, <2>1
      <3> QED
        BY <3>1
    <2>2. CASE x = a - M /\ y = b
      <3>1. (a - M) * b = a * b + M * (-b) /\ -b \in Int
        BY <1>1
      <3> QED
        BY <2>2, <3>1
    <2>3. CASE x = a /\ y = b - M
      <3>1. a * (b - M) = a * b + M * (-a) /\ -a \in Int
        BY <1>1
      <3> QED
        BY <2>3, <3>1
    <2>4. CASE x = a - M /\ y = b - M
      <3>1. (a - M) * (b - M) = a * b + M * (M - a - b) /\ M - a - b \in Int
        BY <1>1
      <3> QED
        BY <2>4, <3>1
    <2> QED
      BY <1>1, <2>1, <2>2, <2>3, <2>4
  <1> HIDE DEF p, s
  <1>5. Wrap(s) = Wrap(p)
    BY <1>3, <1>4, WrapShift
  <1> QED
    BY <1>2, <1>3, <1>5, HalvesOfUnsigned DEF M, p, x, y

-----------------------------------------------------------------------------
(* Quotient and remainder of signed numbers.                               *)

LEMMA NaturalQuotient ==
    ASSUME NEW m \in Nat, NEW n \in Nat \ {0}
    PROVE  /\ m \div n \in 0..m
           /\ m - n * (m \div n) \in 0..(n - 1)
           /\ n > 1 /\ m > 0 => m \div n < m
  <1> DEFINE q == m \div n
  <1>1. q \in Nat /\ m % n \in 0..(n - 1) /\ m = n * q + (m % n)
    BY DivisionWithRemainder
  <1> HIDE DEF q
  <1>2. m - n * q \in 0..(n - 1)
    BY <1>1
  <1>3. n * q >= q /\ (n > 1 /\ q > 0 => n * q > q)
    BY <1>1
  <1>4. q <= m /\ (n > 1 /\ m > 0 => q < m)
    BY <1>1, <1>3
  <1> QED
    BY <1>1, <1>2, <1>4 DEF q

LEMMA TruncatedQuotient ==
    ASSUME NEW x \in Int, NEW y \in Int \ {0}
    PROVE  LET q == Quotient(x, y)
               r == Remainder(x, y)
           IN  /\ q \in Int /\ r \in Int
               /\ x = y * q + r /\ Abs(r) < Abs(y) /\ (r # 0 => (r < 0) = (x < 0))
               /\ Abs(q) <= Abs(x)
               /\ x < 0 /\ q = -x => y = -1
  <1> DEFINE m == Abs(x)
             n == Abs(y)
             d == m \div n
             z == n * d
  <1>1. m \in Nat /\ n \in Nat \ {0} /\ (x = m \/ x = -m) /\ (y = n \/ y = -n)
    BY DEF Abs
  <1>2. d \in 0..m /\ m - z \in 0..(n - 1) /\ (n > 1 /\ m > 0 => d < m)
    BY <1>1, NaturalQuotient
  <1>3. Quotient(x, y) = (IF (x < 0) = (y < 0) THEN d ELSE -d)
    BY DEF Quotient
  <1>s. (x < 0 => x = -m) /\ (x >= 0 => x = m) /\ (y < 0 => y = -n) /\ (y >= 0 => y = n)
    BY DEF Abs
  <1> HIDE DEF m, n, d
  <1>4. z \in Int /\ n * (-d) = -z /\ (-n) * d = -z /\ (-n) * (-d) = z
    BY <1>1, <1>2
  <1>5. Quotient(x, y) \in Int /\ y * Quotient(x, y) = (IF x < 0 THEN -z ELSE z)
    <2>1. CASE x < 0 /\ y < 0
      BY <1>1, <1>2, <1>3, <1>4, <1>s, <2>1
    <2>2. CASE x < 0 /\ ~(y < 0)
      BY <1>1, <1>2, <1>3, <1>4, <1>s, <2>2
    <2>3. CASE ~(x < 0) /\ y < 0
      BY <1>1, <1>2, <1>3, <1>4, <1>s, <2>3
    <2>4. CASE ~(x < 0) /\ ~(y < 0)
      BY <1>1, <1>2, <1>3, <1>4, <1>s, <2>4
    <2> QED
      BY <2>1, <2>2, <2>3, <2>4
  <1> HIDE DEF z
  <1>6. Remainder(x, y) = x - (IF x < 0 THEN -z ELSE z)
    BY <1>5 DEF Remainder
  <1>7. /\ Remainder(x, y) \in Int /\ x = y * Quotient(x, y) + Remainder(x, y)
        /\ Remainder(x, y) = (IF x < 0 THEN -(m - z) ELSE m - z)
    BY <1>1, <1>2, <1>4, <1>5, <1>6, <1>s
  <1>8. /\ Abs(Remainder(x, y)) < Abs(y)
        /\ (Remainder(x, y) # 0 => (Remainder(x, y) < 0) = (x < 0))
    BY <1>1, <1>2, <1>4, <1>7, <1>s DEF Abs
  <1>9. Abs(Quotient(x, y)) <= Abs(x)
    BY <1>1, <1>2, <1>3, <1>s DEF Abs
  <1>10. x < 0 /\ Quotient(x, y) = -x => y = -1
    BY <1>1, <1>2, <1>3, <1>s
  <1> QED
    BY <1>5, <1>7, <1>8, <1>9, <1>10

LEMMA SignedDivision ==
    ASSUME NEW a \in Word, NEW b \in Word
    PROVE  LET x == Signed(a)   y == Signed(b)
               q == Signed(Wrap(Alu("DIV", a, b)))
               r == Signed(Wrap(Alu("REM", a, b)))
           IN  /\ Overflows(x, y) => q = x /\ r = 0
               /\ y = 0 => q = -1 /\ r = x
               /\ ~Overflows(x, y) /\ y # 0 =>
                    x = y * q + r /\ Abs(r) < Abs(y) /\ (r # 0 => (r < 0) = (x < 0))
  <1> DEFINE x == Signed(a)
             y == Signed(b)
             d == Alu("DIV", a, b)
             e == Alu("REM", a, b)
  <1>1. x \in -H..(H - 1) /\ y \in -H..(H - 1) /\ H \in Nat /\ H >= 8
    BY SignedRange, Halves
  <1>2. /\ d = IF y = 0 THEN -1 ELSE IF Overflows(x, y) THEN x ELSE Quotient(x, y)
        /\ e = IF y = 0 THEN x ELSE IF Overflows(x, y) THEN 0 ELSE Remainder(x, y)
    BY DEF Alu, Divide
  <1>o. Overflows(x, y) <=> x = -H /\ y = -1
    BY DEF Overflows, H
  <1> HIDE DEF x, y, d, e
  <1>3. CASE y = 0
    <2>1. d = -1 /\ e = x /\ ~Overflows(x, y) /\ d \in -H..(H - 1) /\ e \in -H..(H - 1)
      BY <1>1, <1>2, <1>3, <1>o
    <2>2. Signed(Wrap(d)) = d /\ Signed(Wrap(e)) = e
      BY <2>1, SignedWrap
    <2> QED
      BY <1>3, <2>1, <2>2 DEF x, y, d, e
  <1>4. CASE y # 0 /\ Overflows(x, y)
    <2>1. d = x /\ e = 0 /\ d \in -H..(H - 1) /\ e \in -H..(H - 1)
      BY <1>1, <1>2, <1>4
    <2>2. Signed(Wrap(d)) = d /\ Signed(Wrap(e)) = e
      BY <2>1, SignedWrap
    <2> QED
      BY <1>4, <2>1, <2>2 DEF x, y, d, e
  <1>5. CASE y # 0 /\ ~Overflows(x, y)
    <2>1. d = Quotient(x, y) /\ e = Remainder(x, y) /\ x \in Int /\ y \in Int \ {0}
      BY <1>1, <1>2, <1>5
    <2>2. /\ d \in Int /\ e \in Int
          /\ x = y * d + e /\ Abs(e) < Abs(y) /\ (e # 0 => (e < 0) = (x < 0))
          /\ Abs(d) <= Abs(x)
          /\ x < 0 /\ d = -x => y = -1
      BY <2>1, TruncatedQuotient
    <2>3. d \in -H..(H - 1)
      BY <1>1, <1>5, <1>o, <2>2 DEF Abs
    <2>4. e \in -H..(H - 1)
      BY <1>1, <2>2 DEF Abs
    <2>5. Signed(Wrap(d)) = d /\ Signed(Wrap(e)) = e
      BY <2>3, <2>4, SignedWrap
    <2> QED
      BY <1>5, <2>2, <2>5 DEF x, y, d, e
  <1> QED
    BY <1>3, <1>4, <1>5

LEMMA UnsignedDivision ==
    ASSUME NEW a \in Word, NEW b \in Word
    PROVE  LET q == Wrap(Alu("DIVU", a, b))
               r == Wrap(Alu("REMU", a, b))
           IN  /\ b = 0 => q = M - 1 /\ r = a
               /\ b # 0 => a = b * q + r /\ Abs(r) < Abs(b) /\ ~(r < 0)
  <1> DEFINE d == Alu("DIVU", a, b)
             e == Alu("REMU", a, b)
  <1>1. a \in 0..(M - 1) /\ b \in 0..(M - 1) /\ M \in Nat /\ M > 0 /\ Word = 0..(M - 1)
    BY Halves DEF Word, M
  <1>2. d = (IF b = 0 THEN -1 ELSE a \div b) /\ e = (IF b = 0 THEN a ELSE a % b)
    BY DEF Alu, Divide
  <1> HIDE DEF d, e
  <1>3. CASE b = 0
    <2>1. d = -1 /\ e = a
      BY <1>2, <1>3
    <2>2. -1 = M * (-1) + (M - 1) /\ -1 \in Int /\ M - 1 \in Word
      BY <1>1
    <2>3. Wrap(M * (-1) + (M - 1)) = M - 1
      BY <2>2, WrapIs, Zenon
    <2>4. Wrap(d) = M - 1 /\ Wrap(e) = a
      BY <2>1, <2>2, <2>3, WrapWord
    <2> QED
      BY <1>3, <2>4 DEF d, e
  <1>4. CASE b # 0
    <2>1. b \in Nat \ {0} /\ a \in Nat /\ d = a \div b /\ e = a % b
      BY <1>1, <1>2, <1>4
    <2>2. d \in Nat /\ e \in 0..(b - 1) /\ a = b * d + e
      BY <2>1, DivisionWithRemainder
    <2>3. b * d >= d
      BY <2>1, <2>2
    <2>4. d \in Word /\ e \in Word
      <3> DEFINE z == b * d
      <3>1. z \in Nat /\ z >= d /\ a = z + e
        BY <2>1, <2>2, <2>3
      <3> HIDE DEF z
      <3> QED
        BY <1>1, <2>1, <2>2, <3>1
    <2>5. Wrap(d) = d /\ Wrap(e) = e
      BY <2>4, WrapWord
    <2>6. Abs(e) < Abs(b) /\ ~(e < 0)
      BY <2>1, <2>2 DEF Abs
    <2> QED
      BY <1>4, <2>2, <2>5, <2>6 DEF d, e
  <1> QED
    BY <1>3, <1>4

-----------------------------------------------------------------------------
(* Pairs of an operation and the one that gives the other half.            *)

(* The register file, and what a write leaves of it.                       *)
IsFile(f) == f = [r \in 0..31 |-> f[r]]

LEMMA Written ==
    ASSUME IsFile(regs), NEW d \in 1..31, NEW v, regs' = writeReg(d, v)
    PROVE  IsFile(regs') /\ regs'[d] = v /\ \A r \in 0..31 : r # d => regs'[r] = regs[r]
  <1>1. DOMAIN regs = 0..31 /\ d # 0
    BY DEF IsFile
  <1>2. regs' = [r \in 0..31 |-> IF r = d THEN v ELSE regs[r]]
    BY <1>1 DEF writeReg
  <1>3. \A r \in 0..31 : regs'[r] = IF r = d THEN v ELSE regs[r]
    BY <1>2
  <1>4. regs' = [r \in 0..31 |-> regs'[r]]
    BY <1>2, <1>3
  <1> QED
    BY <1>3, <1>4 DEF IsFile

(* The invariant: where the pair is, and what it has written by then.      *)
PairInv ==
    job.law \in DOMAIN Partner =>
        /\ job \in Jobs /\ Decoded(2)
        /\ minstret \in 0..2 /\ pc = 4 * minstret
        /\ IsFile(regs) /\ regs[6] = B
        /\ minstret < 2 => regs[5] = A
        /\ minstret > 0 => regs[7] = Wrap(Alu(job.law, A, B))
        /\ minstret = 2 => regs[5] = Wrap(Alu(Partner[job.law], A, B))

LEMMA JobsAtInit ==
    ASSUME Init PROVE job \in Jobs \/ job.law = "rvc"
  BY ProgramsAssumption DEF Init

LEMMA PairAtInit ==
    ASSUME Init PROVE PairInv
  <1> SUFFICES ASSUME job.law \in DOMAIN Partner
              PROVE  /\ job \in Jobs /\ Decoded(2) /\ minstret = 0 /\ pc = 0
                     /\ IsFile(regs) /\ regs[5] = A /\ regs[6] = B
    BY DEF PairInv
  <1>1. job \in Jobs
    BY JobsAtInit DEF Partner
  <1>2. PairProgram(job) /\ Registers(job) \in [0..31 -> Word]
    BY <1>1, ProgramsAssumption
  <1> QED
    BY <1>1, <1>2 DEF PairProgram, Init, Decoded, A, B, IsFile

(* A register operation is Compute's, and Compute does it.                 *)
LEMMA OperationSteps ==
    ASSUME Handlers, dInstr.kind \in RegKinds
    PROVE  /\ Advances
           /\ regs' = writeReg(dInstr.rd,
                               Wrap(Alu(dInstr.kind, regs[dInstr.rs1], regs[dInstr.rs2])))
  <1>1. Compute
    BY DEF Handlers, RegKinds, AmoKinds, Executes, Branch, Jump, Load, Store, Amo,
       Csr, Raise
  <1>2. ~BadShift(dInstr) /\ dInstr.kind \notin {"LUI", "AUIPC"}
    BY DEF BadShift, RegKinds
  <1> DEFINE value == CASE dInstr.kind = "LUI" -> dInstr.imm
                        [] dInstr.kind = "AUIPC" -> pc + dInstr.imm
                        [] dInstr.kind \in RegKinds ->
                              Alu(dInstr.kind, regs[dInstr.rs1], regs[dInstr.rs2])
                        [] OTHER -> Alu(ImmKinds[dInstr.kind], regs[dInstr.rs1],
                                        Wrap(dInstr.imm))
  <1>3. value = Alu(dInstr.kind, regs[dInstr.rs1], regs[dInstr.rs2])
    BY <1>2
  <1> HIDE DEF value
  <1>4. Advances /\ regs' = writeReg(dInstr.rd, Wrap(value))
    BY <1>1, <1>2 DEF Compute, value
  <1> QED
    BY <1>3, <1>4

(* A full-length instruction at 0 or 4 is followed by the one four bytes on.*)
LEMMA AdvancesByFour ==
    ASSUME Advances, pc \in {0, 4}, job.code[pc] % 4 = 3
    PROVE  pc' = pc + 4 /\ minstret' = minstret + 1
  <1>1. instr_len = 4
    BY DEF instr_len, IsCompressed
  <1>2. pc + 4 \in Word
    BY Halves DEF Word, M
  <1> QED
    BY <1>1, <1>2, WrapWord DEF Advances, Retires

LEMMA PairSteps ==
    ASSUME PairInv, [Next]_vars PROVE PairInv'
  <1> SUFFICES ASSUME job'.law \in DOMAIN Partner PROVE PairInv'
    BY DEF PairInv
  <1>1. job' = job
    BY NextIsEither, BetweenKeeps, HandlersKeep DEF vars
  <1>2. /\ job.law \in DOMAIN Partner
        /\ job \in Jobs /\ Decoded(2)
        /\ minstret \in 0..2 /\ pc = 4 * minstret
        /\ IsFile(regs) /\ regs[6] = B
        /\ minstret < 2 => regs[5] = A
        /\ minstret > 0 => regs[7] = Wrap(Alu(job.law, A, B))
        /\ minstret = 2 => regs[5] = Wrap(Alu(Partner[job.law], A, B))
    BY <1>1 DEF PairInv
  <1>3. /\ DOMAIN job.code = {0, 2, 4, 6}
        /\ job.code[0] % 4 = 3 /\ job.code[4] % 4 = 3
        /\ InstrAt(job.code, 0) = Instr(job.law, 7, 5, 6, 0)
        /\ InstrAt(job.code, 4) = Instr(Partner[job.law], 5, 5, 6, 0)
    BY <1>2, ProgramsAssumption DEF PairProgram, TwoInstrs
  <1>4. CASE UNCHANGED vars
    BY <1>2, <1>4 DEF PairInv, Decoded, vars, A, B
  <1>5. CASE Between
    <2>1. UNCHANGED <<job, regs, pc, minstret>>
      BY <1>5, BetweenKeeps
    <2>2. Decoded(2)'
      BY <1>2, <1>3, <1>5, <2>1, BetweenKeeps DEF Decoded
    <2> QED
      BY <1>2, <2>1, <2>2 DEF PairInv, A, B
  <1>6. CASE Handlers
    <2>1. /\ phase = "execute" /\ phase' = "fetch"
          /\ minstret < 2 /\ dInstr = InstrAt(job.code, pc)
      BY <1>2, <1>6, HandlersKeep DEF Decoded
    <2>2. Decoded(2)'
      BY <2>1 DEF Decoded
    <2>3. job.law \in RegKinds /\ Partner[job.law] \in RegKinds
      BY <1>2 DEF Partner, RegKinds
    <2>4. CASE minstret = 0
      <3>1. /\ pc = 0 /\ dInstr.kind = job.law /\ dInstr.rd = 7
            /\ dInstr.rs1 = 5 /\ dInstr.rs2 = 6
        BY <1>2, <1>3, <2>1, <2>4 DEF Instr
      <3>2. Advances /\ regs' = writeReg(7, Wrap(Alu(job.law, A, B)))
        BY <1>2, <1>6, <2>3, <2>4, <3>1, OperationSteps
      <3>3. pc' = 4 /\ minstret' = 1
        BY <1>3, <2>4, <3>1, <3>2, AdvancesByFour
      <3> DEFINE value == Wrap(Alu(job.law, A, B))
      <3> HIDE DEF value
      <3>4. regs' = writeReg(7, value)
        BY <3>2 DEF value
      <3>5. /\ IsFile(regs')
            /\ regs'[6] = B /\ regs'[5] = A /\ regs'[7] = value
        <4>1. IsFile(regs) /\ regs[6] = B /\ regs[5] = A
          BY <1>2, <2>4
        <4>2. 7 \in 1..31 /\ {5, 6} \subseteq 0..31 /\ 7 \notin {5, 6}
          OBVIOUS
        <4> QED
          BY ONLY <3>4, <4>1, <4>2, Written
      <3> QED
        BY <1>1, <1>2, <2>2, <3>3, <3>5 DEF PairInv, A, B, value
    <2>5. CASE minstret = 1
      <3>1. /\ pc = 4 /\ dInstr.kind = Partner[job.law] /\ dInstr.rd = 5
            /\ dInstr.rs1 = 5 /\ dInstr.rs2 = 6
        BY <1>2, <1>3, <2>1, <2>5 DEF Instr
      <3>2. Advances /\ regs' = writeReg(5, Wrap(Alu(Partner[job.law], A, B)))
        BY <1>2, <1>6, <2>3, <2>5, <3>1, OperationSteps
      <3>3. pc' = 8 /\ minstret' = 2
        BY <1>3, <2>5, <3>1, <3>2, AdvancesByFour
      <3> DEFINE value == Wrap(Alu(Partner[job.law], A, B))
      <3> HIDE DEF value
      <3>4. regs' = writeReg(5, value)
        BY <3>2 DEF value
      <3>5. /\ IsFile(regs')
            /\ regs'[6] = B /\ regs'[5] = value /\ regs'[7] = regs[7]
        <4>1. IsFile(regs) /\ regs[6] = B
          BY <1>2
        <4>2. 5 \in 1..31 /\ {6, 7} \subseteq 0..31 /\ 5 \notin {6, 7}
          OBVIOUS
        <4> QED
          BY ONLY <3>4, <4>1, <4>2, Written
      <3> QED
        BY <1>1, <1>2, <2>2, <2>5, <3>3, <3>5 DEF PairInv, A, B, value
    <2> QED
      BY <1>2, <2>1, <2>4, <2>5
  <1> QED
    BY <1>4, <1>5, <1>6, NextIsEither

LEMMA PairMeansProduct ==
    ASSUME PairInv PROVE HalvesOfProduct
  <1> SUFFICES ASSUME job.law \in {"MULH", "MULHSU", "MULHU"}, minstret = 2
              PROVE  HalvesOfProduct
    BY DEF HalvesOfProduct, PairDone
  <1>1. /\ job \in Jobs /\ regs[7] = Wrap(Alu(job.law, A, B))
        /\ regs[5] = Wrap(Alu(Partner[job.law], A, B))
    BY DEF PairInv, Partner
  <1>2. A \in Word /\ B \in Word
    BY <1>1, ProgramsAssumption DEF A, B
  <1> DEFINE low == Wrap(Alu("MUL", A, B))
  <1>3. regs[7] = Wrap(MulHigh(job.law, A, B)) /\ regs[5] = low
    <2>1. Alu(job.law, A, B) = MulHigh(job.law, A, B)
      BY DEF Alu
    <2>2. Partner[job.law] = "MUL"
      BY DEF Partner
    <2> QED
      BY <1>1, <2>1, <2>2
  <1> HIDE DEF low
  <1>4. CASE job.law = "MULH"
    <2>1. Signed(regs[7]) * 2^Width + regs[5] = Signed(A) * Signed(B)
      BY <1>2, <1>3, <1>4, MulhHalves DEF low
    <2> QED
      BY <1>4, <2>1 DEF HalvesOfProduct, PairDone, First, Second
  <1>5. CASE job.law = "MULHSU"
    <2>1. Signed(regs[7]) * 2^Width + regs[5] = Signed(A) * B
      BY <1>2, <1>3, <1>5, MulhsuHalves DEF low
    <2> QED
      BY <1>5, <2>1 DEF HalvesOfProduct, PairDone, First, Second
  <1>6. CASE job.law = "MULHU"
    <2>1. regs[7] * 2^Width + regs[5] = A * B
      BY <1>2, <1>3, <1>6, MulhuHalves DEF low
    <2> QED
      BY <1>6, <2>1 DEF HalvesOfProduct, PairDone, First, Second
  <1> QED
    BY <1>4, <1>5, <1>6

LEMMA PairMeansDivision ==
    ASSUME PairInv PROVE DivisionLaw
  <1> SUFFICES ASSUME job.law \in {"DIV", "DIVU"}, minstret = 2
              PROVE  DivisionLaw
    BY DEF DivisionLaw, PairDone
  <1>1. /\ job \in Jobs /\ regs[7] = Wrap(Alu(job.law, A, B))
        /\ regs[5] = Wrap(Alu(Partner[job.law], A, B))
    BY DEF PairInv, Partner
  <1>2. A \in Word /\ B \in Word
    BY <1>1, ProgramsAssumption DEF A, B
  <1>3. CASE job.law = "DIV"
    <2>1. First = Wrap(Alu("DIV", A, B)) /\ Second = Wrap(Alu("REM", A, B))
      BY <1>1, <1>3 DEF Partner, First, Second
    <2> DEFINE x == Signed(A)
               y == Signed(B)
               q == Signed(First)
               r == Signed(Second)
    <2>2. /\ Overflows(x, y) => q = x /\ r = 0
          /\ y = 0 => q = -1 /\ r = x
          /\ ~Overflows(x, y) /\ y # 0 =>
               x = y * q + r /\ Abs(r) < Abs(y) /\ (r # 0 => (r < 0) = (x < 0))
      BY <1>2, <2>1, SignedDivision
    <2>3. y = 0 => ~Overflows(x, y)
      BY DEF Overflows
    <2> QED
      BY <1>3, <2>2, <2>3 DEF DivisionLaw, PairDone
  <1>4. CASE job.law = "DIVU"
    <2>1. First = Wrap(Alu("DIVU", A, B)) /\ Second = Wrap(Alu("REMU", A, B))
      BY <1>1, <1>4 DEF Partner, First, Second
    <2>2. /\ B = 0 => First = M - 1 /\ Second = A
          /\ B # 0 => A = B * First + Second /\ Abs(Second) < Abs(B) /\ ~(Second < 0)
      BY <1>2, <2>1, UnsignedDivision
    <2>3. ~(A < 0)
      BY <1>2 DEF Word
    <2> QED
      BY <1>4, <2>2, <2>3 DEF DivisionLaw, PairDone, M
  <1> QED
    BY <1>3, <1>4

(* Between and after the two instructions of a pair the registers hold     *)
(* what the first of them, then both of them, computed of the operands.    *)
THEOREM PairInvariant == Spec => []PairInv
  BY PairAtInit, PairSteps, PTL DEF Spec

(* For every width of a register, for all operands and with any faults in  *)
(* between, MULH[S[U]] and MUL, the second over its own operand, give the  *)
(* two halves of the exact product.                                        *)
THEOREM ProductsAreExact == Spec => []HalvesOfProduct
  BY PairInvariant, PairMeansProduct, PTL

(* ... and DIV[U] and REM[U] give a quotient and a remainder that complete *)
(* each other, the remainder smaller than the divisor and with the sign of *)
(* the dividend, and what the ISA says of zero and of the overflow.        *)
THEOREM DivisionsAreExact == Spec => []DivisionLaw
  BY PairInvariant, PairMeansDivision, PTL

-----------------------------------------------------------------------------
(* Calls.                                                                  *)

(* The address after the call, and the register that keeps it.             *)
After(j) == IF j.code[0] % 4 = 3 THEN 4 ELSE 2
Link(j)  == InstrAt(j.code, 0).rd

(* The invariant: called, the subroutine finds the way back in the link    *)
(* register; it is there only to return.                                   *)
CallInv ==
    job.law = "call" =>
        /\ job \in Jobs /\ Decoded(2) /\ minstret \in 0..2 /\ IsFile(regs)
        /\ minstret = 0 => pc = 0 /\ regs = Registers(job)
        /\ minstret = 1 => pc = 8 /\ regs[Link(job)] = After(job)
        /\ minstret = 2 => pc = After(job)

LEMMA CallAtInit ==
    ASSUME Init PROVE CallInv
  <1> SUFFICES ASSUME job.law = "call" PROVE CallInv
    BY DEF CallInv
  <1>1. job \in Jobs
    BY JobsAtInit
  <1>2. Registers(job) \in [0..31 -> Word]
    BY <1>1, ProgramsAssumption
  <1> QED
    BY <1>1, <1>2 DEF CallInv, Init, Decoded, IsFile

LEMMA JumpSteps ==
    ASSUME Handlers, dInstr.kind \in {"JAL", "JALR"}
    PROVE  Jump
  BY DEF Handlers, RegKinds, ImmKinds, AmoKinds, Executes, Compute, Branch, Load,
     Store, Amo, Csr, Raise

(* A jump arrives and links, or it traps.                                  *)
LEMMA JumpArrives ==
    ASSUME Jump, NEW target \in Word, Target(dInstr, regs) = target
    PROVE  \/ pc' = pc /\ minstret' = minstret /\ regs' = regs /\ Misaligned(target)
           \/ /\ pc' = target /\ minstret' = minstret + 1
              /\ regs' = writeReg(dInstr.rd, Wrap(pc + instr_len))
  <1>1. \/ Traps("MISALIGNED_INSTRUCTION", target) /\ UNCHANGED regs /\ Misaligned(target)
        \/ Retires(target) /\ regs' = writeReg(dInstr.rd, Wrap(pc + instr_len))
    BY DEF Jump
  <1>2. CASE Traps("MISALIGNED_INSTRUCTION", target) /\ UNCHANGED regs /\ Misaligned(target)
    BY <1>2, TrappingKeeps
  <1>3. CASE Retires(target) /\ regs' = writeReg(dInstr.rd, Wrap(pc + instr_len))
    BY <1>3, WrapWord DEF Retires
  <1> QED
    BY <1>1, <1>2, <1>3

LEMMA CallSteps ==
    ASSUME CallInv, [Next]_vars PROVE CallInv'
  <1> SUFFICES ASSUME job'.law = "call" PROVE CallInv'
    BY DEF CallInv
  <1>1. job' = job
    BY NextIsEither, BetweenKeeps, HandlersKeep DEF vars
  <1>2. /\ job \in Jobs /\ Decoded(2) /\ minstret \in 0..2 /\ IsFile(regs)
        /\ minstret = 0 => pc = 0 /\ regs = Registers(job)
        /\ minstret = 1 => pc = 8 /\ regs[Link(job)] = After(job)
        /\ minstret = 2 => pc = After(job)
    BY <1>1 DEF CallInv
  <1> DEFINE call == InstrAt(job.code, 0)
  <1>3. /\ After(job) \notin DOMAIN job.code /\ call.rd \in 1..31
        /\ \/ call.kind = "JAL" /\ call.imm = 8
           \/ /\ call.kind = "JALR" /\ call.rs1 \in 0..31
              /\ Registers(job)[call.rs1] + call.imm = 8
        /\ InstrAt(job.code, 8) = Instr("JALR", 0, call.rd, 0, 0)
        /\ Registers(job) \in [0..31 -> Word]
    BY <1>1, <1>2, ProgramsAssumption DEF CallProgram, After
  <1>w. After(job) \in {2, 4} /\ 8 \in Word /\ 2 \in Word /\ 4 \in Word
    BY Halves DEF After, Word, M
  <1>4. CASE UNCHANGED vars
    BY <1>1, <1>2, <1>4 DEF CallInv, Decoded, vars
  <1>5. CASE Between
    <2>1. UNCHANGED <<job, regs, pc, minstret>>
      BY <1>5, BetweenKeeps
    <2>2. Decoded(2)'
      BY <1>2, <1>3, <1>5, <2>1, BetweenKeeps DEF Decoded
    <2> QED
      BY <1>2, <2>1, <2>2 DEF CallInv
  <1>6. CASE Handlers
    <2>1. /\ phase = "execute" /\ phase' = "fetch"
          /\ minstret < 2 /\ dInstr = InstrAt(job.code, pc)
      BY <1>2, <1>6, HandlersKeep DEF Decoded
    <2>2. Decoded(2)'
      BY <2>1 DEF Decoded
    <2>3. CASE minstret = 0
      <3>1. pc = 0 /\ dInstr = call /\ regs = Registers(job)
        BY <1>2, <2>1, <2>3
      <3>2. Jump
        BY <1>3, <1>6, <3>1, JumpSteps
      <3>3. Target(dInstr, regs) = 8
        <4>1. Wrap(8) = 8 /\ 8 - (8 % 2) = 8
          BY <1>w, WrapWord
        <4> QED
          BY <1>3, <3>1, <4>1 DEF Target
      <3>4. Wrap(pc + instr_len) = After(job)
        <4>1. pc + instr_len = After(job)
          BY <3>1 DEF instr_len, IsCompressed, After
        <4> QED
          BY <1>w, <4>1, WrapWord
      <3>5. ~Misaligned(8)
        BY DEF Misaligned
      <3>6. pc' = 8 /\ minstret' = 1 /\ regs' = writeReg(call.rd, After(job))
        BY <1>w, <2>3, <3>1, <3>2, <3>3, <3>4, <3>5, JumpArrives
      <3>7. IsFile(regs') /\ regs'[call.rd] = After(job)
        BY <1>2, <1>3, <3>6, Written
      <3> QED
        BY <1>1, <1>2, <2>2, <3>6, <3>7 DEF CallInv, Link
    <2>4. CASE minstret = 1
      <3>1. pc = 8 /\ dInstr = Instr("JALR", 0, call.rd, 0, 0) /\ regs[call.rd] = After(job)
        BY <1>2, <1>3, <2>1, <2>4 DEF Link
      <3>2. dInstr.kind = "JALR" /\ dInstr.rd = 0 /\ dInstr.rs1 = call.rd /\ dInstr.imm = 0
        BY <3>1 DEF Instr
      <3>3. Jump
        BY <1>6, <3>2, JumpSteps
      <3>4. Target(dInstr, regs) = After(job)
        <4>1. Wrap(After(job) + 0) = After(job)
          BY <1>w, WrapWord
        <4>2. After(job) - (After(job) % 2) = After(job)
          BY <1>w
        <4> QED
          BY <3>1, <3>2, <4>1, <4>2 DEF Target
      <3>5. /\ regs' = regs
            /\ \/ pc' = pc /\ minstret' = minstret
               \/ pc' = After(job) /\ minstret' = 2
        <4>1. After(job) \in Word
          BY <1>w
        <4>2. \/ pc' = pc /\ minstret' = minstret /\ regs' = regs
              \/ /\ pc' = After(job) /\ minstret' = minstret + 1
                 /\ regs' = writeReg(dInstr.rd, Wrap(pc + instr_len))
          BY <3>3, <3>4, <4>1, JumpArrives
        <4>3. \A v : writeReg(dInstr.rd, v) = regs
          BY <3>2 DEF writeReg
        <4> QED
          BY <2>4, <4>2, <4>3
      <3> QED
        BY <1>1, <1>2, <2>2, <2>4, <3>5 DEF CallInv
    <2> QED
      BY <1>2, <2>1, <2>3, <2>4
  <1> QED
    BY <1>4, <1>5, <1>6, NextIsEither

(* Between the call and the return the link register holds the address     *)
(* after the call, and after the return the pc is that address.            *)
THEOREM CallInvariant == Spec => []CallInv
  BY CallAtInit, CallSteps, PTL DEF Spec

(* Whichever of the compressed and the full forms call and return, and     *)
(* whatever faults in between: a subroutine comes back to the instruction  *)
(* after its call.                                                         *)
THEOREM CallsReturn == Spec => []CallReturns
  <1>1. CallInv => CallReturns
    BY DEF CallInv, CallReturns, PairDone, After
  <1> QED
    BY <1>1, CallInvariant, PTL

-----------------------------------------------------------------------------
(* Bits, and what is done to words bit by bit.                             *)

Functional(f) == \A u, v \in Bits : f[u][v] \in Bits
(* The three tables, and what they are.                                    *)
LEMMA TablesAreFunctional ==
     Functional(And) /\ Functional(Or) /\ Functional(Xor)
  BY DEF Functional, And, Or, Xor, Bool, Bits
LEMMA TablesAre ==
    \A u, v \in Bits :
        And[u][v] = u * v /\ Or[u][v] = u + v - u * v /\ Xor[u][v] = (u + v) % 2
  BY DEF And, Or, Xor, Bool, Bits
LEMMA BitIs ==
    ASSUME NEW x \in Int, NEW k \in 0..31
    PROVE  bit(x, k) = (x \div 2^k) % 2
  <1>1. k - k + 1 = 1 /\ 2^1 = 2
    OBVIOUS
  <1> QED
    BY <1>1 DEF bit, get_bits
(* The powers of two that have a place in a word.                          *)
LEMMA Doubling ==
    /\ \A n \in 0..32 : 2^n \in Nat \ {0}
    /\ \A n \in 0..31 : 2^(n + 1) = 2 * 2^n
  <1> DEFINE f == [n \in 0..32 |-> 2^n]
  <1>1. /\ f[0] = 1 /\ f[1] = 2 /\ f[2] = 4 /\ f[3] = 8 /\ f[4] = 16
        /\ f[5] = 32 /\ f[6] = 64 /\ f[7] = 128 /\ f[8] = 256 /\ f[9] = 512
        /\ f[10] = 1024 /\ f[11] = 2048 /\ f[12] = 4096 /\ f[13] = 8192
        /\ f[14] = 16384 /\ f[15] = 32768 /\ f[16] = 65536
    OBVIOUS
  <1>2. /\ f[17] = 2 * 65536 /\ f[18] = 4 * 65536 /\ f[19] = 8 * 65536
        /\ f[20] = 16 * 65536 /\ f[21] = 32 * 65536 /\ f[22] = 64 * 65536
        /\ f[23] = 128 * 65536 /\ f[24] = 256 * 65536 /\ f[25] = 512 * 65536
        /\ f[26] = 1024 * 65536 /\ f[27] = 2048 * 65536 /\ f[28] = 4096 * 65536
        /\ f[29] = 8192 * 65536 /\ f[30] = 16384 * 65536
        /\ f[31] = 32768 * 65536 /\ f[32] = 65536 * 65536
    OBVIOUS
  <1>3. /\ \A n \in 0..32 : f[n] = 2^n
        /\ \A n \in 0..31 : f[n + 1] = 2^(n + 1)
    OBVIOUS
  <1> HIDE DEF f
  <1>4. \A n \in 0..32 : f[n] \in Nat \ {0}
    BY <1>1, <1>2
  <1>5. \A n \in 0..31 : f[n + 1] = 2 * f[n]
    BY <1>1, <1>2
  <1> QED
    BY <1>3, <1>4, <1>5

LEMMA BitsAreBits ==
    ASSUME NEW x \in Int, NEW k \in 0..31
    PROVE  bit(x, k) \in Bits
  <1>1. k \in 0..32
    OBVIOUS
  <1>2. 2^k \in Nat \ {0}
    BY <1>1, Doubling, Zenon
  <1> DEFINE p == 2^k
  <1>3. bit(x, k) = (x \div p) % 2
    BY BitIs, Zenon
  <1>4. p \in Nat \ {0}
    BY <1>2
  <1> HIDE DEF p
  <1>5. x \div p \in Int
    BY <1>4, DivMod
  <1>6. (x \div p) % 2 \in Bits
    BY <1>5 DEF Bits
  <1> QED
    BY <1>3, <1>6

(* A higher power of two is an even multiple of a lower one.               *)
LEMMA EvenMultiple ==
    ASSUME NEW k \in 0..31, NEW n \in 0..32, k < n
    PROVE  \E m \in Nat : 2^n = 2^k * (2 * m)
  <1> DEFINE p == 2^k
             A2 == {i \in Nat : i <= 31 - k => \E m \in Nat : 2^(k + 1 + i) = p * (2 * m)}
  <1>0. p \in Nat \ {0} /\ 2^(k + 1) = 2 * p
    <2>1. k \in 0..32
      OBVIOUS
    <2> QED
      BY <2>1, Doubling, Zenon
  <1> HIDE DEF p
  <1>1. 0 \in A2
    <2>1. 2^(k + 1 + 0) = p * (2 * 1)
      <3>1. k + 1 + 0 = k + 1
        OBVIOUS
      <3> QED
        BY <1>0, <3>1
    <2> QED
      BY <2>1
  <1>2. ASSUME NEW i \in Nat, i \in A2 PROVE i + 1 \in A2
    <2>0. i + 1 \in Nat
      OBVIOUS
    <2>1. ASSUME i + 1 <= 31 - k PROVE \E m \in Nat : 2^(k + 1 + (i + 1)) = p * (2 * m)
      <3>1. i <= 31 - k /\ k + 1 + i \in 0..31 /\ k + 1 + (i + 1) = (k + 1 + i) + 1
        BY <2>1
      <3>2. PICK m \in Nat : 2^(k + 1 + i) = p * (2 * m)
        BY <1>2, <3>1
      <3>3. 2^(k + 1 + (i + 1)) = 2 * 2^(k + 1 + i)
        BY <3>1, Doubling
      <3>4. 2 * (p * (2 * m)) = p * (2 * (2 * m)) /\ 2 * m \in Nat
        BY <1>0
      <3> QED
        BY <3>2, <3>3, <3>4
    <2> QED
      BY <2>0, <2>1
  <1> HIDE DEF A2
  <1>3. Nat \subseteq A2
    BY <1>1, <1>2, SetInduction
  <1>4. n - k - 1 \in Nat /\ n - k - 1 <= 31 - k /\ k + 1 + (n - k - 1) = n
    OBVIOUS
  <1>5. \A i \in Nat : i <= 31 - k => \E m \in Nat : 2^(k + 1 + i) = p * (2 * m)
    BY <1>3 DEF A2
  <1>6. \E m \in Nat : 2^(k + 1 + (n - k - 1)) = p * (2 * m)
    BY <1>4, <1>5
  <1> QED
    BY <1>4, <1>6 DEF p

LEMMA EvenQuotient ==
    ASSUME NEW x \in Nat, NEW p \in Nat \ {0}, NEW e \in Nat
    PROVE  ((x + p * (2 * e)) \div p) % 2 = (x \div p) % 2
  <1> DEFINE q == x \div p
             r == x % p
             y == x + p * (2 * e)
  <1>1. q \in Nat /\ r \in 0..(p - 1) /\ x = p * q + r
    BY DivisionWithRemainder
  <1> HIDE DEF q, r
  <1>2. p * (q + 2 * e) = p * q + p * (2 * e) /\ q + 2 * e \in Int
    BY <1>1
  <1>3. y = p * (q + 2 * e) + r /\ y \in Int
    BY <1>1, <1>2
  <1>4. y \div p = q + 2 * e
    BY <1>1, <1>2, <1>3, RemainderIs
  <1>5. (q + 2 * e) % 2 = q % 2
    BY <1>1
  <1> QED
    BY <1>4, <1>5 DEF q

(* A bit on top of the others.                                             *)
OnTop(y, x, d, n) ==
    /\ y \in Nat /\ y < 2^(n + 1)
    /\ bit(y, n) = d
    /\ \A k \in 0..(n - 1) : bit(y, k) = bit(x, k)

LEMMA TopBit ==
    ASSUME NEW n \in 0..31, NEW x \in Nat, x < 2^n, NEW d \in Bits
    PROVE  OnTop(x + d * 2^n, x, d, n)
  <1> DEFINE p == 2^n
             y == x + d * p
  <1>1. p \in Nat \ {0} /\ 2^(n + 1) = 2 * p /\ x < p
    <2>1. n \in 0..32
      OBVIOUS
    <2> QED
      BY <2>1, Doubling, Zenon
  <1>2. ASSUME NEW k \in 0..(n - 1)
        PROVE  k \in 0..31 /\ 2^k \in Nat \ {0} /\ \E m \in Nat : p = 2^k * (2 * m)
    <2>1. k \in 0..31 /\ k \in 0..32 /\ n \in 0..32 /\ k < n
      OBVIOUS
    <2> QED
      BY <2>1, Doubling, EvenMultiple, Zenon
  <1> HIDE DEF p
  <1>3. y \in Nat /\ y < 2 * p /\ y = p * d + x /\ x \in 0..(p - 1)
    BY <1>1 DEF Bits
  <1>4. y \div p = d
    BY <1>1, <1>3, RemainderIs DEF Bits
  <1>5. bit(y, n) = d
    <2>1. y \in Int
      BY <1>3
    <2>2. bit(y, n) = (y \div p) % 2
      BY <2>1, BitIs, Zenon DEF p
    <2> QED
      BY <1>4, <2>2 DEF Bits
  <1>6. ASSUME NEW k \in 0..(n - 1) PROVE bit(y, k) = bit(x, k)
    <2>1. PICK m \in Nat : p = 2^k * (2 * m)
      BY <1>2
    <2>2. k \in 0..31 /\ 2^k \in Nat \ {0} /\ x \in Int /\ y \in Int
      BY <1>2, <1>3
    <2> DEFINE w == 2^k
    <2>3. bit(y, k) = (y \div w) % 2 /\ bit(x, k) = (x \div w) % 2
      BY <2>2, BitIs, Zenon
    <2>4. w \in Nat \ {0} /\ p = w * (2 * m)
      BY <2>1, <2>2
    <2> HIDE DEF w
    <2>5. d * (w * (2 * m)) = w * (2 * (d * m)) /\ d * m \in Nat
      BY <2>4 DEF Bits
    <2>6. y = x + w * (2 * (d * m))
      BY <2>4, <2>5
    <2>7. (y \div w) % 2 = (x \div w) % 2
      <3> DEFINE e == d * m
      <3>1. e \in Nat /\ y = x + w * (2 * e)
        BY <2>5, <2>6
      <3> HIDE DEF e, y
      <3>2. ((x + w * (2 * e)) \div w) % 2 = (x \div w) % 2
        BY <2>4, <3>1, EvenQuotient, Zenon
      <3> QED
        BY <3>1, <3>2
    <2> QED
      BY <2>3, <2>7
  <1>7. OnTop(y, x, d, n)
    BY <1>1, <1>3, <1>5, <1>6 DEF OnTop
  <1> QED
    BY <1>7 DEF p

LEMMA WordsAreInts ==
    ASSUME NEW x \in Word PROVE x \in Int
  BY DEF Word

(* The words whose lowest n bits are f of those of a and b.                *)
AreLow(low, f, a, b) ==
    low = [n \in 0..Width |->
              IF n = 0 THEN 0
              ELSE low[n - 1] + f[bit(a, n - 1)][bit(b, n - 1)] * 2^(n - 1)]

Low(f, a, b) == CHOOSE low : AreLow(low, f, a, b)

LEMMA LowExist ==
    ASSUME NEW f, Functional(f), NEW a \in Word, NEW b \in Word
    PROVE  \E low : AreLow(low, f, a, b)
  <1> DEFINE term(i) == f[bit(a, i - 1)][bit(b, i - 1)] * 2^(i - 1)
             g == [i \in 1..Width |-> [x \in Nat |-> x + term(i)]]
  <1>0. Width \in Nat /\ Width <= 32 /\ Width > 0
    BY WidthAssumption
  <1>1. ASSUME NEW i \in 1..Width PROVE term(i) \in Nat
    <2>1. i - 1 \in 0..31 /\ i - 1 \in 0..32 /\ a \in Int /\ b \in Int
      BY <1>0, WordsAreInts
    <2>2. bit(a, i - 1) \in Bits /\ bit(b, i - 1) \in Bits
      BY <2>1, BitsAreBits, Zenon
    <2>3. f[bit(a, i - 1)][bit(b, i - 1)] \in Bits /\ 2^(i - 1) \in Nat
      BY <2>1, <2>2, Doubling, Zenon DEF Functional
    <2> QED
      BY <2>3 DEF Bits
  <1> HIDE DEF term
  <1>2. \A i \in 1..Width : \A x \in Nat : g[i][x] = x + term(i)
    OBVIOUS
  <1> HIDE DEF g
  <1>3. \A i \in 1..Width : \A x \in Nat : g[i][x] \in Nat
    BY <1>1, <1>2
  <1>4. PICK low \in [0..Width -> Nat] : Recurses(low, 0, g, Width)
    BY <1>0, <1>3, RecursionExists
  <1> DEFINE h == [n \in 0..Width |-> IF n = 0 THEN 0 ELSE low[n - 1] + term(n)]
  <1>5. ASSUME NEW n \in 0..Width PROVE low[n] = h[n]
    <2>1. CASE n = 0
      BY <1>4, <2>1 DEF Recurses
    <2>2. CASE n # 0
      <3>1. n \in 1..Width /\ n - 1 \in 0..Width
        BY <1>0, <2>2
      <3>2. low[n - 1] \in Nat /\ low[n] = g[n][low[n - 1]]
        BY <1>4, <3>1 DEF Recurses
      <3>3. low[n] = low[n - 1] + term(n)
        BY <1>2, <3>1, <3>2
      <3> QED
        BY <2>2, <3>3
    <2> QED
      BY <2>1, <2>2
  <1>6. low = [n \in 0..Width |-> low[n]] /\ h = [n \in 0..Width |-> h[n]]
    OBVIOUS
  <1> HIDE DEF h
  <1>7. low = h
    BY <1>5, <1>6
  <1>8. AreLow(low, f, a, b)
    BY <1>7, Zenon DEF AreLow, h, term
  <1> QED
    BY <1>8

(* An operation of two words bit by bit, for any operation of two bits.    *)
LEMMA BitwiseIs ==
    ASSUME NEW f, Functional(f), NEW a \in Word, NEW b \in Word
    PROVE  /\ Bitwise(f, a, b) \in Word
           /\ \A k \in 0..(Width - 1) :
                  bit(Bitwise(f, a, b), k) = f[bit(a, k)][bit(b, k)]
  <1> DEFINE low == Low(f, a, b)
  <1>0. Width \in Nat /\ Width <= 32 /\ Width > 0
    BY WidthAssumption
  <1>1. AreLow(low, f, a, b)
    BY LowExist, Zenon DEF Low
  <1>2. Bitwise(f, a, b) = low[Width]
    BY DEF Bitwise, Low, AreLow
  <1> HIDE DEF low
  <1> DEFINE term(i) == f[bit(a, i - 1)][bit(b, i - 1)]
  <1>3. low[0] = 0 /\ \A i \in 1..Width : low[i] = low[i - 1] + term(i) * 2^(i - 1)
    <2>1. \A i \in 0..Width : low[i] = IF i = 0 THEN 0 ELSE low[i - 1] + term(i) * 2^(i - 1)
      BY <1>1, Zenon DEF AreLow
    <2> HIDE DEF term
    <2> QED
      BY <1>0, <2>1
  <1> DEFINE Good(n) == /\ low[n] \in Nat /\ low[n] < 2^n
                        /\ \A k \in 0..(n - 1) : bit(low[n], k) = f[bit(a, k)][bit(b, k)]
             A2 == {n \in 0..Width : Good(n)}
  <1>4. 0 \in A2
    <2>1. 2^0 = 1 /\ 0..(0 - 1) = {}
      OBVIOUS
    <2> QED
      BY <1>0, <1>3, <2>1
  <1>5. ASSUME NEW i \in 1..Width, i - 1 \in A2 PROVE i \in A2
    <2> DEFINE n == i - 1
    <2>1. n \in 0..31 /\ n + 1 = i /\ a \in Int /\ b \in Int /\ i \in 0..Width
      BY <1>0, WordsAreInts
    <2>2. term(i) \in Bits
      <3>1. bit(a, n) \in Bits /\ bit(b, n) \in Bits
        BY <2>1, BitsAreBits, Zenon
      <3> QED
        BY <3>1 DEF Functional
    <2>3. Good(n)
      BY <1>5
    <2> DEFINE x == low[n]
               d == term(i)
    <2>4. low[i] = x + d * 2^n
      BY <1>3
    <2>5. x \in Nat /\ x < 2^n /\ d \in Bits
      BY <2>2, <2>3
    <2>6. /\ x + d * 2^n \in Nat /\ x + d * 2^n < 2^(n + 1)
          /\ bit(x + d * 2^n, n) = d
          /\ \A k \in 0..(n - 1) : bit(x + d * 2^n, k) = bit(x, k)
      <3> HIDE DEF x, d, n
      <3>1. OnTop(x + d * 2^n, x, d, n)
        BY <2>1, <2>5, TopBit
      <3> QED
        BY <3>1, Zenon DEF OnTop
    <2>7. d = f[bit(a, n)][bit(b, n)]
      OBVIOUS
    <2>8. \A k \in 0..(n - 1) : bit(x, k) = f[bit(a, k)][bit(b, k)]
      BY <2>3
    <2> HIDE DEF x, d
    <2>9. \A k \in 0..(i - 1) : k = n \/ k \in 0..(n - 1)
      BY <2>1
    <2>10. \A k \in 0..(i - 1) : bit(low[i], k) = f[bit(a, k)][bit(b, k)]
      BY <2>4, <2>6, <2>7, <2>8, <2>9
    <2>11. Good(i)
      BY <2>1, <2>4, <2>6, <2>10
    <2> QED
      BY <2>1, <2>11
  <1> HIDE DEF A2
  <1>6. Width \in A2
    BY <1>0, <1>4, <1>5, BoundedInduction
  <1>7. Good(Width)
    BY <1>6 DEF A2
  <1>8. low[Width] \in Word
    BY <1>7, Halves DEF Word, M
  <1> QED
    BY <1>2, <1>7, <1>8

-----------------------------------------------------------------------------
(* Words in memory.                                                        *)

(* Dividing twice is dividing by the product.                              *)
Twice(v, p, s) == (v \div p) \div s = v \div (p * s) /\ p * s \in Nat \ {0}

LEMMA QuotientTwice ==
    ASSUME NEW v \in Nat, NEW p \in Nat \ {0}, NEW s \in Nat \ {0}
    PROVE  Twice(v, p, s)
  <1> DEFINE q == v \div p
             r == v % p
             t == q \div s
             u == q % s
             e == p * u + r
  <1>1. q \in Nat /\ r \in 0..(p - 1) /\ v = p * q + r
    BY DivisionWithRemainder
  <1>2. t \in Nat /\ u \in 0..(s - 1) /\ q = s * t + u
    BY <1>1, DivisionWithRemainder
  <1> HIDE DEF q, r, t, u
  <1>3. p * s \in Nat \ {0} /\ p * u \in Nat /\ p * u <= p * (s - 1) /\ p * (s - 1) = p * s - p
    BY <1>2
  <1>4. e \in 0..(p * s - 1)
    BY <1>1, <1>3
  <1>5. p * (s * t + u) = (p * s) * t + p * u
    BY <1>2
  <1>6. v = (p * s) * t + e
    BY <1>1, <1>2, <1>3, <1>5
  <1> HIDE DEF e
  <1>7. v \div (p * s) = t
    BY <1>2, <1>3, <1>4, <1>6, RemainderIs
  <1> QED
    BY <1>3, <1>7 DEF q, t, Twice

(* A number of four digits is made of its digits.                          *)
HasDigits(v, p, p2, p3) ==
    v = ((v \div 1) % p) + ((v \div p) % p) * p
          + (((v \div p2) % p) + ((v \div p3) % p) * p) * p2

LEMMA FourDigits ==
    ASSUME NEW v \in Nat, NEW p \in Nat \ {0}, NEW p2 \in Nat, p2 = p * p,
           NEW p3 \in Nat, p3 = p * p2, v < p * p3
    PROVE  HasDigits(v, p, p2, p3)
  <1> DEFINE a == v \div p
             b == a \div p
             c == b \div p
  <1>1. a \in Nat /\ v % p \in 0..(p - 1) /\ v = p * a + (v % p)
    BY DivisionWithRemainder
  <1>2. b \in Nat /\ a % p \in 0..(p - 1) /\ a = p * b + (a % p)
    BY <1>1, DivisionWithRemainder
  <1>3. c \in Nat /\ b % p \in 0..(p - 1) /\ b = p * c + (b % p)
    BY <1>2, DivisionWithRemainder
  <1>4. v \div p2 = b /\ p2 \in Nat \ {0}
    <2>1. Twice(v, p, p)
      BY QuotientTwice
    <2> QED
      BY <2>1, Zenon DEF Twice
  <1>5. v \div p3 = c
    <2>1. Twice(v, p2, p)
      BY <1>4, QuotientTwice
    <2>2. p2 * p = p3
      BY <1>4
    <2> QED
      BY <1>4, <2>1, <2>2, Zenon DEF Twice
  <1>6. v \div 1 = v
    OBVIOUS
  <1>7. c < p
    <2>1. v \div p3 \in 0..(p - 1)
      <3>1. p3 \in Nat \ {0} /\ p3 * 0 <= v /\ v < p3 * ((p - 1) + 1) /\ p - 1 \in Int
        BY <1>4
      <3> QED
        BY <3>1, QuotientBetween
    <2> QED
      BY <1>5, <2>1
  <1> DEFINE x == v % p
             y == a % p
             z == b % p
  <1> HIDE DEF a, b, c, x, y, z
  <1>8. c % p = c
    BY <1>3, <1>7
  <1>9. v = p * a + x /\ a = p * b + y /\ b = p * c + z
    BY <1>1, <1>2, <1>3 DEF x, y, z
  <1>i. /\ v \in Nat /\ a \in Nat /\ b \in Nat /\ c \in Nat
        /\ x \in Int /\ y \in Int /\ z \in Int
    BY <1>1, <1>2, <1>3 DEF x, y, z
  <1>10. v = x + y * p + (z + c * p) * p2
    <2>1. p * (p * b + y) = p2 * b + y * p
      BY <1>i
    <2>2. p2 * (p * c + z) = (z + c * p) * p2
      BY <1>i
    <2> QED
      BY <1>i, <1>9, <2>1, <2>2
  <1> QED
    BY <1>4, <1>5, <1>6, <1>8, <1>10 DEF a, x, y, z, HasDigits

(* The byte k of a word, and the word of four bytes.                       *)
ByteOf(v, k) == get_bits(v, Byte * (k + 1) - 1, Byte * k)

WordOf(c0, c1, c2, c3) == c0 + c1 * 2^Byte + (c2 + c3 * 2^Byte) * 2^(2 * Byte)

LEMMA BytesAreDigits ==
    ASSUME NEW p \in Nat \ {0}, NEW p2 \in Nat, p2 = p * p,
           NEW p3 \in Nat, p3 = p * p2, 2^Width = p * p3,
           2^Byte = p, 2^(2 * Byte) = p2, NEW v \in Word,
           ByteOf(v, 0) = (v \div 1) % p, ByteOf(v, 1) = (v \div p) % p,
           ByteOf(v, 2) = (v \div p2) % p, ByteOf(v, 3) = (v \div p3) % p
    PROVE  v = WordOf(ByteOf(v, 0), ByteOf(v, 1), ByteOf(v, 2), ByteOf(v, 3))
  <1>1. v \in Nat /\ v < p * p3
    BY DEF Word
  <1>2. HasDigits(v, p, p2, p3)
    BY <1>1, FourDigits
  <1> QED
    BY <1>2 DEF WordOf, HasDigits

LEMMA BytesOfWord ==
    /\ Byte \in Nat /\ Byte * 4 = Width
    /\ \A v \in Word :
          v = WordOf(ByteOf(v, 0), ByteOf(v, 1), ByteOf(v, 2), ByteOf(v, 3))
  <1>2. CASE Width = 4
    <2>1. Byte = 1
      BY <1>2 DEF Byte
    <2> QED
      BY <1>2, <2>1 DEF get_bits, Word, ByteOf, WordOf
  <1>3. CASE Width = 8
    <2>1. Byte = 2
      BY <1>3 DEF Byte
    <2> QED
      BY <1>3, <2>1 DEF get_bits, Word, ByteOf, WordOf
  <1>4. CASE Width = 16
    <2>1. Byte = 4
      BY <1>4 DEF Byte
    <2>2. /\ 2^Byte = 16 /\ 2^(2 * Byte) = 256 /\ 2^Width = 16 * 4096
          /\ 256 = 16 * 16 /\ 4096 = 16 * 256
          /\ \A v : /\ ByteOf(v, 0) = (v \div 1) % 16
                    /\ ByteOf(v, 1) = (v \div 16) % 16
                    /\ ByteOf(v, 2) = (v \div 256) % 16
                    /\ ByteOf(v, 3) = (v \div 4096) % 16
      BY <1>4, <2>1 DEF get_bits, ByteOf
    <2> QED
      BY <1>4, <2>1, <2>2, BytesAreDigits
  <1>5. CASE Width = 32
    <2>1. Byte = 8
      BY <1>5 DEF Byte
    <2>2. /\ 2^Byte = 256 /\ 2^(2 * Byte) = 65536 /\ 2^Width = 256 * 16777216
          /\ 65536 = 256 * 256 /\ 16777216 = 256 * 65536
          /\ \A v : /\ ByteOf(v, 0) = (v \div 1) % 256
                    /\ ByteOf(v, 1) = (v \div 256) % 256
                    /\ ByteOf(v, 2) = (v \div 65536) % 256
                    /\ ByteOf(v, 3) = (v \div 16777216) % 256
      BY <1>5, <2>1 DEF get_bits, ByteOf
    <2> QED
      BY <1>5, <2>1, <2>2, BytesAreDigits
  <1> QED
    BY <1>2, <1>3, <1>4, <1>5, WidthAssumption

(* The memory f holds the word v at a.                                     *)
Holds(f, a, v) == \A k \in 0..3 : f[a + k] = ByteOf(v, k)

LEMMA WordRead ==
    ASSUME NEW a \in Nat, a + 4 <= DRAM_SIZE, NEW v \in Word, Holds(mem, a, v), NEW past
    PROVE  ReadMem(a, 4, past) = v
  <1>1. DRAM_SIZE \in Nat
    BY WidthAssumption
  <1>2. \A k \in {0, 1, 2, 3} :
            a + k < DRAM_SIZE /\ mem[a + k] = ByteOf(v, k)
    BY <1>1 DEF Holds
  <1>3. v = WordOf(ByteOf(v, 0), ByteOf(v, 1), ByteOf(v, 2), ByteOf(v, 3))
    BY BytesOfWord
  <1>4. /\ a + 0 < DRAM_SIZE /\ mem[a + 0] = ByteOf(v, 0)
        /\ a + 1 < DRAM_SIZE /\ mem[a + 1] = ByteOf(v, 1)
        /\ a + 2 < DRAM_SIZE /\ mem[a + 2] = ByteOf(v, 2)
        /\ a + 3 < DRAM_SIZE /\ mem[a + 3] = ByteOf(v, 3)
    BY <1>2
  <1>5. /\ a + (0 + 1) = a + 1 /\ a + (2 + 1) = a + 3
    OBVIOUS
  <1> QED
    BY <1>3, <1>4, <1>5 DEF ReadMem, WordOf

LEMMA WordWritten ==
    ASSUME NEW a \in Nat, a + 4 <= DRAM_SIZE, DOMAIN mem = 0..(DRAM_SIZE - 1),
           NEW v, mem' = WriteMem(a, 4, v)
    PROVE  DOMAIN mem' = 0..(DRAM_SIZE - 1) /\ Holds(mem', a, v)
  <1>1. DRAM_SIZE \in Nat
    BY WidthAssumption
  <1>2. ASSUME NEW k \in 0..3
        PROVE  mem'[a + k] = ByteOf(v, k)
    <2>1. a + k \in DOMAIN mem /\ a + k \in a..(a + 4 - 1) /\ (a + k) - a = k
      BY <1>1
    <2>2. mem'[a + k] = get_bits(v, Byte * ((a + k) - a + 1) - 1, Byte * ((a + k) - a))
      BY <2>1 DEF WriteMem
    <2> QED
      BY <2>1, <2>2 DEF ByteOf
  <1> QED
    BY <1>2 DEF WriteMem, Holds

LEMMA OperationIsWord ==
    ASSUME NEW kind \in AmoKinds, NEW a \in Word, NEW b \in Word
    PROVE  Operation(kind, a, b) \in Word
  <1>1. a + b \in Int
    BY WordsAreInts
  <1>2. Wrap(a + b) \in Word
    BY <1>1, WrapRange
  <1>3. Bitwise(And, a, b) \in Word /\ Bitwise(Or, a, b) \in Word /\ Bitwise(Xor, a, b) \in Word
    BY BitwiseIs, TablesAreFunctional
  <1> QED
    BY <1>2, <1>3 DEF Operation, AmoKinds

LEMMA WordLoaded ==
    ASSUME NEW a \in Nat, a + 4 <= DRAM_SIZE, NEW v \in Word, Holds(mem, a, v), NEW past
    PROVE  Loaded("LW", a, past) = v
  <1>1. ReadMem(a, Size("LW"), past) = v
    BY WordRead DEF Size
  <1>2. Byte * Size("LW") = Width
    BY BytesOfWord DEF Size
  <1>3. Loaded("LW", a, past) = Wrap(Signed(v))
    BY <1>1, <1>2 DEF Loaded, Signed
  <1>4. v \in Int /\ (Signed(v) = v \/ Signed(v) = v - M)
    BY SignedRange, WordsAreInts
  <1>5. Wrap(v - M) = v
    <2>1. v - M \in Int /\ v = (v - M) + M * 1 /\ M \in Nat
      BY <1>4, Halves
    <2>2. Wrap((v - M) + M * 1) = Wrap(v - M)
      BY <2>1, WrapShift
    <2> QED
      BY <2>1, <2>2, WrapWord
  <1> QED
    BY <1>3, <1>4, <1>5, WrapWord

-----------------------------------------------------------------------------
(* AMOs.                                                                   *)

(* The invariant: the word before the AMO, and after it; the register has  *)
(* the old word by then, the operand having been read.                     *)
AmoInv ==
    job.law \in AmoKinds =>
        LET result == Operation(job.law, A, B)
        IN  /\ job \in Jobs /\ Decoded(2)
            /\ minstret \in 0..2 /\ pc = 4 * minstret
            /\ IsFile(regs) /\ DOMAIN mem = 0..(DRAM_SIZE - 1) /\ regs[8] = job.addr
            /\ minstret = 0 => regs[6] = B /\ Holds(mem, job.addr, A)
            /\ minstret > 0 => regs[6] = A /\ Holds(mem, job.addr, result)
            /\ minstret = 2 => regs[7] = result

LEMMA AmoAtInit ==
    ASSUME Init PROVE AmoInv
  <1> SUFFICES ASSUME job.law \in AmoKinds
              PROVE  /\ job \in Jobs /\ Decoded(2) /\ minstret = 0 /\ pc = 0
                     /\ IsFile(regs) /\ DOMAIN mem = 0..(DRAM_SIZE - 1)
                     /\ regs[8] = job.addr /\ regs[6] = B /\ Holds(mem, job.addr, A)
    BY DEF AmoInv
  <1>1. job \in Jobs
    BY JobsAtInit DEF AmoKinds
  <1>2. /\ AmoProgram(job) /\ Registers(job) \in [0..31 -> Word]
        /\ DOMAIN Memory(job) = 0..(DRAM_SIZE - 1)
    BY <1>1, ProgramsAssumption
  <1>3. Holds(mem, job.addr, A)
    BY <1>2 DEF AmoProgram, Init, Holds, ByteOf, A
  <1> QED
    BY <1>1, <1>2, <1>3 DEF AmoProgram, Init, Decoded, A, B, IsFile

LEMMA AmoHandles ==
    ASSUME Handlers, dInstr.kind \in AmoKinds, regs[dInstr.rs1] % 4 = 0,
           ~(regs[dInstr.rs1] >= DRAM_SIZE)
    PROVE  \/ UNCHANGED <<regs, mem, pc, minstret>>
           \/ Advances /\ Exchange(dInstr, regs[dInstr.rs1])
  <1>1. Amo
    BY DEF Handlers, RegKinds, ImmKinds, AmoKinds, Executes, Compute, Branch, Jump,
       Load, Store, Csr, Raise
  <1> DEFINE a == regs[dInstr.rs1]
  <1>2. CASE Page(a) \in unmapped
    <2>1. Traps("STORE_PAGE_FAULT", a) /\ UNCHANGED <<regs, mem>>
      BY <1>1, <1>2 DEF Amo
    <2> QED
      BY <2>1, TrappingKeeps
  <1>3. CASE Page(a) \notin unmapped
    BY <1>1, <1>3 DEF Amo
  <1> QED
    BY <1>2, <1>3

LEMMA LoadHandles ==
    ASSUME Handlers, dInstr.kind = "LW",
           NEW a, a = Wrap(regs[dInstr.rs1] + dInstr.imm), ~(a >= DRAM_SIZE),
           NEW v, \A past : Loaded("LW", a, past) = v
    PROVE  /\ mem' = mem
           /\ \/ UNCHANGED <<regs, pc, minstret>>
              \/ Advances /\ regs' = writeReg(dInstr.rd, v)
  <1>1. Load
    BY DEF Handlers, RegKinds, ImmKinds, AmoKinds, Executes, Compute, Branch, Jump,
       Amo, Store, Csr, Raise
  <1>2. CASE Page(a) \in unmapped
    <2>1. Traps("LOAD_PAGE_FAULT", a) /\ UNCHANGED <<regs, mem>>
      BY <1>1, <1>2 DEF Load
    <2> QED
      BY <2>1, TrappingKeeps
  <1>3. CASE Page(a) \notin unmapped
    <2>1. /\ Advances /\ mem' = mem
          /\ \E past \in 0..(2^Byte - 1) : regs' = writeReg(dInstr.rd, Loaded(dInstr.kind, a, past))
      BY <1>1, <1>3 DEF Load
    <2> QED
      BY <2>1
  <1> QED
    BY <1>2, <1>3

LEMMA AmoSteps ==
    ASSUME AmoInv, [Next]_vars PROVE AmoInv'
  <1> SUFFICES ASSUME job'.law \in AmoKinds PROVE AmoInv'
    BY DEF AmoInv
  <1>1. job' = job
    BY NextIsEither, BetweenKeeps, HandlersKeep DEF vars
  <1> DEFINE result == Operation(job.law, A, B)
             a == job.addr
  <1>2. /\ job.law \in AmoKinds
        /\ job \in Jobs /\ Decoded(2)
        /\ minstret \in 0..2 /\ pc = 4 * minstret
        /\ IsFile(regs) /\ DOMAIN mem = 0..(DRAM_SIZE - 1) /\ regs[8] = a
        /\ minstret = 0 => regs[6] = B /\ Holds(mem, a, A)
        /\ minstret > 0 => regs[6] = A /\ Holds(mem, a, result)
        /\ minstret = 2 => regs[7] = result
    BY <1>1 DEF AmoInv
  <1>3. /\ DOMAIN job.code = {0, 2, 4, 6}
        /\ job.code[0] % 4 = 3 /\ job.code[4] % 4 = 3
        /\ InstrAt(job.code, 0) = Instr(job.law, 6, 8, 6, 0)
        /\ InstrAt(job.code, 4) = Instr("LW", 7, 8, 0, 0)
        /\ a \in Word /\ a % 4 = 0 /\ a + 4 <= DRAM_SIZE
        /\ A \in Word /\ B \in Word
    <2>1. AmoProgram(job) /\ Registers(job) \in [0..31 -> Word] /\ job.a \in Word /\ job.b \in Word
      BY <1>2, ProgramsAssumption
    <2> QED
      BY <2>1 DEF AmoProgram, TwoInstrs, A, B
  <1>4. a \in Nat /\ a \in Int /\ ~(a >= DRAM_SIZE) /\ result \in Word
    <2>1. DRAM_SIZE \in Nat
      BY WidthAssumption
    <2>2. a \in Nat
      BY <1>3 DEF Word
    <2> QED
      BY <1>2, <1>3, <2>1, <2>2, OperationIsWord
  <1>r. result' = result /\ A' = A /\ B' = B /\ a' = a
    BY <1>1 DEF A, B
  <1> HIDE DEF result
  <1> SUFFICES /\ Decoded(2)'
               /\ minstret' \in 0..2 /\ pc' = 4 * minstret'
               /\ IsFile(regs') /\ DOMAIN mem' = 0..(DRAM_SIZE - 1) /\ regs'[8] = a
               /\ minstret' = 0 => regs'[6] = B /\ Holds(mem', a, A)
               /\ minstret' > 0 => regs'[6] = A /\ Holds(mem', a, result)
               /\ minstret' = 2 => regs'[7] = result
    BY <1>1, <1>2, <1>r DEF AmoInv, result
  <1>5. CASE UNCHANGED vars
    BY <1>1, <1>2, <1>5 DEF Decoded, vars
  <1>6. CASE Between
    <2>1. UNCHANGED <<job, regs, mem, pc, minstret>>
      BY <1>6, BetweenKeeps
    <2>2. Decoded(2)'
      BY <1>2, <1>3, <1>6, <2>1, BetweenKeeps DEF Decoded
    <2> QED
      BY <1>2, <2>1, <2>2
  <1>7. CASE Handlers
    <2>1. /\ phase = "execute" /\ phase' = "fetch"
          /\ minstret < 2 /\ dInstr = InstrAt(job.code, pc)
      BY <1>2, <1>7, HandlersKeep DEF Decoded
    <2>2. Decoded(2)'
      BY <2>1 DEF Decoded
    <2>3. CASE minstret = 0
      <3>1. /\ pc = 0 /\ dInstr.kind = job.law /\ dInstr.rd = 6
            /\ dInstr.rs1 = 8 /\ dInstr.rs2 = 6
        BY <1>2, <1>3, <2>1, <2>3 DEF Instr
      <3>2. \/ UNCHANGED <<regs, mem, pc, minstret>>
            \/ Advances /\ Exchange(dInstr, a)
        BY <1>2, <1>3, <1>4, <1>7, <3>1, AmoHandles
      <3>3. CASE UNCHANGED <<regs, mem, pc, minstret>>
        BY <1>2, <2>2, <2>3, <3>3
      <3>4. CASE Advances /\ Exchange(dInstr, a)
        <4>1. ReadMem(a, 4, 0) = A
          BY <1>2, <1>3, <1>4, <2>3, WordRead
        <4>2. mem' = WriteMem(a, 4, result) /\ regs' = writeReg(6, A)
          BY <1>2, <2>3, <3>1, <3>4, <4>1 DEF Exchange, result
        <4>3. DOMAIN mem' = 0..(DRAM_SIZE - 1) /\ Holds(mem', a, result)
          BY <1>2, <1>3, <1>4, <4>2, WordWritten
        <4>4. IsFile(regs') /\ regs'[6] = A /\ regs'[8] = a
          <5>1. IsFile(regs) /\ regs[8] = a /\ regs' = writeReg(6, A)
            BY <1>2, <4>2
          <5>2. 6 \in 1..31 /\ 8 \in 0..31 /\ 8 # 6
            OBVIOUS
          <5> HIDE DEF a
          <5> QED
            BY ONLY <5>1, <5>2, Written
        <4>5. pc' = 4 /\ minstret' = 1
          BY <1>3, <2>3, <3>1, <3>4, AdvancesByFour
        <4> QED
          BY <2>2, <4>3, <4>4, <4>5
      <3> QED
        BY <3>2, <3>3, <3>4
    <2>4. CASE minstret = 1
      <3>1. /\ pc = 4 /\ dInstr.kind = "LW" /\ dInstr.rd = 7
            /\ dInstr.rs1 = 8 /\ dInstr.imm = 0
        BY <1>2, <1>3, <2>1, <2>4 DEF Instr
      <3>2. \A past : Loaded("LW", a, past) = result
        BY <1>2, <1>3, <1>4, <2>4, WordLoaded
      <3>3. a = Wrap(regs[dInstr.rs1] + dInstr.imm)
        <4>1. regs[dInstr.rs1] + dInstr.imm = a
          BY <1>2, <1>4, <3>1
        <4> QED
          BY <1>3, <4>1, WrapWord
      <3>4. /\ mem' = mem
            /\ \/ UNCHANGED <<regs, pc, minstret>>
               \/ Advances /\ regs' = writeReg(dInstr.rd, result)
        BY <1>4, <1>7, <3>1, <3>2, <3>3, LoadHandles
      <3>5. CASE UNCHANGED <<regs, pc, minstret>>
        BY <1>2, <2>2, <2>4, <3>4, <3>5
      <3>6. CASE Advances /\ regs' = writeReg(dInstr.rd, result)
        <4>1. IsFile(regs') /\ regs'[7] = result /\ regs'[6] = A /\ regs'[8] = a
          <5>1. IsFile(regs) /\ regs[6] = A /\ regs[8] = a
            BY <1>2, <2>4
          <5>2. regs' = writeReg(7, result)
            BY <3>1, <3>6
          <5>3. 7 \in 1..31 /\ {6, 8} \subseteq 0..31 /\ 7 \notin {6, 8}
            OBVIOUS
          <5> HIDE DEF a
          <5> QED
            BY ONLY <5>1, <5>2, <5>3, Written
        <4>2. pc' = 8 /\ minstret' = 2
          BY <1>3, <2>4, <3>1, <3>6, AdvancesByFour
        <4> QED
          BY <1>2, <2>2, <2>4, <3>4, <4>1, <4>2
      <3> QED
        BY <3>4, <3>5, <3>6
    <2> QED
      BY <1>2, <2>1, <2>3, <2>4
  <1> QED
    BY <1>5, <1>6, <1>7, NextIsEither

LEMMA AmoMeansExchanges ==
    ASSUME AmoInv PROVE AmoExchanges
  <1> SUFFICES ASSUME job.law \in AmoKinds PROVE AmoExchanges
    BY DEF AmoExchanges, PairDone, AmoKinds
  <1> DEFINE result == Operation(job.law, A, B)
  <1>1. /\ job \in Jobs /\ minstret \in 0..2
        /\ minstret > 0 => regs[6] = A
        /\ minstret = 2 => regs[7] = result
    BY DEF AmoInv
  <1>2. A \in Word /\ B \in Word
    BY <1>1, ProgramsAssumption DEF A, B
  <1>3. minstret >= 1 => regs[6] = A
    BY <1>1
  <1>4. CASE minstret # 2
    BY <1>3, <1>4 DEF AmoExchanges, PairDone
  <1>5. CASE minstret = 2
    <2>1. First = result
      BY <1>1, <1>5 DEF First
    <2> HIDE DEF result
    <2> USE <1>3, <1>5
    <2>2. CASE job.law = "AMOSWAP_W"
      <3>1. result = B
        BY <2>2 DEF Operation, result
      <3> QED
        BY <2>1, <2>2, <3>1 DEF AmoExchanges, PairDone
    <2>3. CASE job.law = "AMOADD_W"
      <3>1. result = Wrap(A + B)
        BY <2>3 DEF Operation, result
      <3>2. (result - A - B) % 2^Width = 0
        <4> DEFINE s == A + B
                   q == s \div M
        <4>1. s \in Int /\ result = Wrap(s) /\ A \in Int /\ B \in Int
          BY <1>2, <3>1, WordsAreInts
        <4>2. result \in Word /\ s = M * q + result /\ q \in Int
          BY <4>1, WrapRange
        <4> HIDE DEF q
        <4>3. M * (-q) = -(M * q) /\ M * q \in Int /\ M \in Nat \ {0}
          BY <4>2, Halves
        <4>4. result - A - B = M * (-q) + 0 /\ -q \in Int /\ 0 \in 0..(M - 1)
          BY <4>1, <4>2, <4>3, WordsAreInts
        <4> DEFINE d == result - A - B
        <4>5. d \in Int
          BY <4>1, <4>2, WordsAreInts
        <4> HIDE DEF d
        <4>6. d % M = 0
          BY <4>3, <4>4, <4>5, RemainderIs DEF d
        <4> QED
          BY <4>6 DEF d, M
      <3> QED
        BY <2>1, <2>3, <3>2 DEF AmoExchanges, PairDone
    <2>4. CASE job.law \in {"AMOAND_W", "AMOOR_W", "AMOXOR_W"}
      <3>1. \A k \in 0..(Width - 1) : bit(A, k) \in Bits /\ bit(B, k) \in Bits
        <4>1. \A k \in 0..(Width - 1) : k \in 0..31
          BY WidthAssumption
        <4> QED
          BY <1>2, <4>1, WordsAreInts, BitsAreBits
      <3>2. CASE job.law = "AMOAND_W"
        <4>1. result = Bitwise(And, A, B)
          BY <3>2 DEF Operation, result
        <4>2. \A k \in 0..(Width - 1) :
                  bit(result, k) = [u \in Bits |-> [v \in Bits |-> u * v]][bit(A, k)][bit(B, k)]
          BY <1>2, <3>1, <4>1, BitwiseIs, TablesAreFunctional, TablesAre
        <4> QED
          BY <2>1, <3>2, <4>2 DEF AmoExchanges, PairDone
      <3>3. CASE job.law = "AMOOR_W"
        <4>1. result = Bitwise(Or, A, B)
          BY <3>3 DEF Operation, result
        <4>2. \A k \in 0..(Width - 1) :
                  bit(result, k) = [u \in Bits |-> [v \in Bits |-> u + v - u * v]][bit(A, k)][bit(B, k)]
          BY <1>2, <3>1, <4>1, BitwiseIs, TablesAreFunctional, TablesAre
        <4> QED
          BY <2>1, <3>3, <4>2 DEF AmoExchanges, PairDone
      <3>4. CASE job.law = "AMOXOR_W"
        <4>1. result = Bitwise(Xor, A, B)
          BY <3>4 DEF Operation, result
        <4>2. \A k \in 0..(Width - 1) :
                  bit(result, k) = [u \in Bits |-> [v \in Bits |-> (u + v) % 2]][bit(A, k)][bit(B, k)]
          BY <1>2, <3>1, <4>1, BitwiseIs, TablesAreFunctional, TablesAre
        <4> QED
          BY <2>1, <3>4, <4>2 DEF AmoExchanges, PairDone
      <3> QED
        BY <2>4, <3>2, <3>3, <3>4
    <2>5. CASE job.law \in {"AMOMIN_W", "AMOMAX_W", "AMOMINU_W", "AMOMAXU_W"}
      <3>1. A \in Int /\ B \in Int /\ Signed(A) \in Int /\ Signed(B) \in Int
        BY <1>2, WordsAreInts, SignedRange
      <3>2. /\ job.law = "AMOMIN_W" => result = IF Signed(B) < Signed(A) THEN B ELSE A
            /\ job.law = "AMOMAX_W" => result = IF Signed(B) > Signed(A) THEN B ELSE A
            /\ job.law = "AMOMINU_W" => result = IF B < A THEN B ELSE A
            /\ job.law = "AMOMAXU_W" => result = IF B > A THEN B ELSE A
        BY DEF Operation, result
      <3> QED
        BY <2>1, <2>5, <3>1, <3>2 DEF AmoExchanges, PairDone
    <2> QED
      BY <2>2, <2>3, <2>4, <2>5 DEF AmoKinds
  <1> QED
    BY <1>4, <1>5

(* Between the AMO and the load memory holds the result of the operation   *)
(* and the operand register the old word, and the load finds that result.  *)
THEOREM AmoInvariant == Spec => []AmoInv
  BY AmoAtInit, AmoSteps, PTL DEF Spec

(* For every width of a register, for all words and operands, with page    *)
(* faults before and between: an AMO leaves the operation in memory, where *)
(* a load finds it, and the old word in the register that was its operand. *)
THEOREM AmosExchange == Spec => []AmoExchanges
  BY AmoInvariant, AmoMeansExchanges, PTL
=============================================================================
