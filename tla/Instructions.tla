---------------------------- MODULE Instructions ----------------------------
(***************************************************************************)
(* CPU::step without the interrupts: fetchInstr, decompress, decode and    *)
(* the handlers of the dispatch table (src/cpu/{cpu,decode,execute}.cpp),  *)
(* run on small programs.  Registers have Width bits instead of 32, a byte *)
(* a quarter of them; instruction words keep their 32 bits.                *)
(*                                                                         *)
(* Only the hart's thread touches this state.  A step is two actions,      *)
(* fetch_and_decode and execute.  The privileged kinds and the run loop    *)
(* are in Hart, the caches and LR/SC in Memory, translation in Mmu: here a *)
(* page is mapped or it is not, and the guest kernel maps the page a page  *)
(* fault names and returns.  The tval of an illegal instruction is left    *)
(* out.                                                                    *)
(***************************************************************************)
EXTENDS Decode, FiniteSetsExt, Sequences

CONSTANTS
    Width,        \* bits of a register
    PAGE_SIZE,    \* bytes of a page (4096)
    DRAM_SIZE,    \* loads at or above it find nothing on the bus
    MaxRetired,   \* BOUND: instructions a program retires
    Compressed,   \* halfwords run on their own, in SingleJob(halfword)
    SingleJob(_),
    Jobs,         \* programs, each with what it starts from
    Registers(_), \* the registers a job starts with
    Memory(_)     \* ... and the DRAM

ASSUME WidthAssumption ==
    /\ Width \in {4, 8, 16, 32}
    /\ {PAGE_SIZE, DRAM_SIZE} \subseteq Nat \ {0} /\ MaxRetired \in Nat

Word == 0..(2^Width - 1)
Byte == Width \div 4

VARIABLES
    job,          \* never changed
    phase,        \* "fetch" or "execute"
    regs,         \* regs_
    mem,          \* dram_
    csrs,         \* the two CSRs the programs name
    pc,           \* pc_
    minstret,     \* csrs_[MINSTRET]
    trap,         \* the cause and tval of a trap not yet handled, or None
    unmapped,     \* pages without a translation
    dInstr        \* sr.dInstr: what was decoded last

vars == <<job, phase, regs, mem, csrs, pc, minstret, trap, unmapped, dInstr>>

None == [cause |-> "none", tval |-> 0]

MSCRATCH == 832
CYCLE    == 3072

Init ==
    /\ job \in Jobs \/ \E h \in Compressed : job = SingleJob(h)
    /\ phase = "fetch"
    /\ regs = Registers(job)
    /\ mem = Memory(job)
    /\ csrs = [n \in {MSCRATCH, CYCLE} |-> 5]
    /\ pc = 0
    /\ minstret = 0
    /\ trap = None
    /\ unmapped = job.unmapped
    /\ dInstr = [kind |-> "none"]

Wrap(x)   == x % 2^Width
Signed(x) == sign_extend(x, Width)

writeReg(rd, value) == IF rd = 0 THEN regs ELSE [regs EXCEPT ![rd] = value]

-----------------------------------------------------------------------------
(* fetchInstr, then decode.                                                *)

Page(a) == a \div PAGE_SIZE

Misaligned(a) == a % (IF job.c THEN 2 ELSE 4) # 0

InPage(a) == a % PAGE_SIZE < PAGE_SIZE - 2

IsCompressed == job.code[pc] % 4 # 3

FetchFault ==
    CASE Misaligned(pc) -> "MISALIGNED_INSTRUCTION"
      [] Page(pc) \in unmapped -> "INSTRUCTION_PAGE_FAULT"
      [] IsCompressed /\ ~job.c -> "ILLEGAL_INSTRUCTION"
      [] ~IsCompressed /\ ~InPage(pc) /\ Page(pc + 2) \in unmapped ->
            "INSTRUCTION_PAGE_FAULT"
      [] OTHER -> "none"

(* The length before the C extension.                                      *)
instr_len_Full == 4

instr_len == IF IsCompressed THEN 2 ELSE 4

Fetched(code, at) ==
    IF code[at] % 4 # 3 THEN decompress(code[at])
    ELSE sign_extend(code[at + 2], 16) * 2^16 + code[at]

(* A program that leaves its code has ended.                               *)
Running ==
    /\ trap = None /\ minstret < MaxRetired
    /\ pc \in DOMAIN job.code /\ (IsCompressed \/ pc + 2 \in DOMAIN job.code)

Retires(next_pc) ==
    /\ phase' = "fetch"
    /\ pc' = Wrap(next_pc)
    /\ minstret' = minstret + 1
    /\ trap' = None

Advances == Retires(pc + instr_len)

Traps(cause, tval) ==
    /\ phase' = "fetch"
    /\ trap' = [cause |-> cause, tval |-> tval]
    /\ UNCHANGED <<pc, minstret>>

FetchTraps ==
    /\ phase = "fetch"
    /\ Running
    /\ FetchFault # "none"
    /\ Traps(FetchFault,
             IF FetchFault = "ILLEGAL_INSTRUCTION" THEN job.code[pc] ELSE pc)
    /\ UNCHANGED <<job, regs, mem, csrs, unmapped, dInstr>>

FetchAndDecode ==
    /\ phase = "fetch"
    /\ Running
    /\ FetchFault = "none"
    /\ phase' = "execute"
    /\ dInstr' = decode(Fetched(job.code, pc))
    /\ UNCHANGED <<job, regs, mem, csrs, pc, minstret, trap, unmapped>>

(* CPU::execute: the guard of a handler.                                   *)
Executes(kinds) ==
    /\ phase = "execute"
    /\ dInstr.kind \in kinds
    /\ UNCHANGED <<job, unmapped, dInstr>>

-----------------------------------------------------------------------------
(* The ALU and the M extension.                                            *)

Bool(b) == IF b THEN 1 ELSE 0

Abs(x) == IF x < 0 THEN -x ELSE x

(* As an arithmetic shift or Python would divide.                          *)
Quotient_RoundsDown(x, y) == IF y > 0 THEN x \div y ELSE (-x) \div (-y)

(* C++ division rounds towards zero.                                       *)
Quotient(x, y)  == IF (x < 0) = (y < 0) THEN Abs(x) \div Abs(y)
                   ELSE -(Abs(x) \div Abs(y))
Remainder(x, y) == x - y * Quotient(x, y)

Bits == {0, 1}

And == [u \in Bits |-> [v \in Bits |-> Bool(u = 1 /\ v = 1)]]
Or  == [u \in Bits |-> [v \in Bits |-> Bool(u = 1 \/ v = 1)]]
Xor == [u \in Bits |-> [v \in Bits |-> Bool(u # v)]]

(* f of the bits of two words, one after the other.                        *)
Bitwise(f, a, b) ==
    LET low[n \in 0..Width] ==
            IF n = 0 THEN 0
            ELSE low[n - 1] + f[bit(a, n - 1)][bit(b, n - 1)] * 2^(n - 1)
    IN  low[Width]

Shl(x, n) == x * 2^n
Shr(x, n) == x \div 2^n

Overflows(x, y) == x = -(2^(Width - 1)) /\ y = -1

(* The operands before they are converted to signed.                       *)
MulHigh_UnsignedFirst(kind, a, b) ==
    CASE kind = "MULH"   -> (Signed(a) * Signed(b)) \div 2^Width
      [] kind = "MULHSU" -> (a * Signed(b)) \div 2^Width
      [] kind = "MULHU"  -> (a * b) \div 2^Width

MulHigh(kind, a, b) ==
    CASE kind = "MULH"   -> (Signed(a) * Signed(b)) \div 2^Width
      [] kind = "MULHSU" -> (Signed(a) * b) \div 2^Width
      [] kind = "MULHU"  -> (a * b) \div 2^Width

Divide(kind, a, b) ==
    LET x == Signed(a)  y == Signed(b)
    IN  CASE kind = "DIV"  -> IF y = 0 THEN -1 ELSE IF Overflows(x, y) THEN x
                              ELSE Quotient(x, y)
          [] kind = "REM"  -> IF y = 0 THEN x ELSE IF Overflows(x, y) THEN 0
                              ELSE Remainder(x, y)
          [] kind = "DIVU" -> IF b = 0 THEN -1 ELSE a \div b
          [] kind = "REMU" -> IF b = 0 THEN a ELSE a % b

(* A register shift counts the low bits of b, as the processor this runs   *)
(* on does (in C++ a count above 31 is undefined).                         *)
Alu(kind, a, b) ==
    CASE kind = "ADD"  -> a + b
      [] kind = "SUB"  -> a - b
      [] kind = "AND"  -> Bitwise(And, a, b)
      [] kind = "OR"   -> Bitwise(Or, a, b)
      [] kind = "XOR"  -> Bitwise(Xor, a, b)
      [] kind = "SLL"  -> Shl(a, b % Width)
      [] kind = "SRL"  -> Shr(a, b % Width)
      [] kind = "SRA"  -> Shr(Signed(a), b % Width)
      [] kind = "SLT"  -> Bool(Signed(a) < Signed(b))
      [] kind = "SLTU" -> Bool(a < b)
      [] kind = "MUL"  -> Signed(a) * Signed(b)
      [] kind \in {"MULH", "MULHSU", "MULHU"} -> MulHigh(kind, a, b)
      [] kind \in {"DIV", "DIVU", "REM", "REMU"} -> Divide(kind, a, b)

RegKinds == {"ADD", "SUB", "AND", "OR", "XOR", "SLL", "SRL", "SRA", "SLT",
             "SLTU", "MUL", "MULH", "MULHSU", "MULHU", "DIV", "DIVU", "REM",
             "REMU"}

ImmKinds ==
    [ADDI |-> "ADD", ANDI |-> "AND", ORI |-> "OR", XORI |-> "XOR",
     SLTI |-> "SLT", SLTIU |-> "SLTU", SLLI |-> "SLL", SRLI |-> "SRL",
     SRAI |-> "SRA"]

(* The check of execSLLI, execSRLI and execSRAI.                           *)
BadShift(d) ==
    \/ d.kind \in {"SLLI", "SRLI"} /\ d.imm \div 32 # 0
    \/ d.kind = "SRAI" /\ get_bits(d.imm, 11, 5) # 32

Compute ==
    /\ Executes(RegKinds \cup DOMAIN ImmKinds \cup {"LUI", "AUIPC"})
    /\ LET d == dInstr
           value == CASE d.kind = "LUI" -> d.imm
                      [] d.kind = "AUIPC" -> pc + d.imm
                      [] d.kind \in RegKinds -> Alu(d.kind, regs[d.rs1], regs[d.rs2])
                      [] OTHER -> Alu(ImmKinds[d.kind], regs[d.rs1], Wrap(d.imm))
       IN  IF BadShift(d)
           THEN Traps("ILLEGAL_INSTRUCTION", 0) /\ UNCHANGED regs
           ELSE Advances /\ regs' = writeReg(d.rd, Wrap(value))
    /\ UNCHANGED <<mem, csrs>>

-----------------------------------------------------------------------------
(* Branches and jumps.                                                     *)

Taken(kind, a, b) ==
    CASE kind = "BEQ" -> a = b
      [] kind = "BNE" -> a # b
      [] kind = "BLT" -> Signed(a) < Signed(b)
      [] kind = "BGE" -> Signed(a) >= Signed(b)
      [] kind = "BLTU" -> a < b
      [] kind = "BGEU" -> a >= b

Branch ==
    /\ Executes({"BEQ", "BNE", "BLT", "BGE", "BLTU", "BGEU"})
    /\ LET target == Wrap(pc + dInstr.imm)
       IN  CASE ~Taken(dInstr.kind, regs[dInstr.rs1], regs[dInstr.rs2]) -> Advances
             [] OTHER -> IF Misaligned(target)
                         THEN Traps("MISALIGNED_INSTRUCTION", target)
                         ELSE Retires(target)
    /\ UNCHANGED <<regs, mem, csrs>>

Target(d, r) ==
    IF d.kind = "JAL" THEN Wrap(pc + d.imm)
    ELSE LET sum == Wrap(r[d.rs1] + d.imm) IN sum - (sum % 2)

(* rd is linked before the target is computed and checked.                 *)
Jump_LinksFirst ==
    /\ Executes({"JAL", "JALR"})
    /\ regs' = writeReg(dInstr.rd, Wrap(pc + instr_len))
    /\ LET target == Target(dInstr, regs')
       IN  IF Misaligned(target)
           THEN Traps("MISALIGNED_INSTRUCTION", target)
           ELSE Retires(target)
    /\ UNCHANGED <<mem, csrs>>

Jump ==
    /\ Executes({"JAL", "JALR"})
    /\ LET target == Target(dInstr, regs)
       IN  IF Misaligned(target)
           THEN Traps("MISALIGNED_INSTRUCTION", target) /\ UNCHANGED regs
           ELSE /\ Retires(target)
                /\ regs' = writeReg(dInstr.rd, Wrap(pc + instr_len))
    /\ UNCHANGED <<mem, csrs>>

-----------------------------------------------------------------------------
(* Memory.  The bus looks at the first byte of an access: loads that start *)
(* above the DRAM raise BusAccessError, stores there are dropped, and an   *)
(* access that starts below its end goes on past the vector, where it      *)
(* reads whatever is there (past).                                         *)

Size(kind) == CASE kind \in {"LB", "LBU", "SB"} -> 1
                [] kind \in {"LH", "LHU", "SH"} -> 2
                [] OTHER -> 4

ReadMem(a, n, past) ==
    LET byte(k) == IF a + k < DRAM_SIZE THEN mem[a + k] ELSE past
        half(k) == byte(k) + byte(k + 1) * 2^Byte
    IN  CASE n = 1 -> byte(0)
          [] n = 2 -> half(0)
          [] n = 4 -> half(0) + half(2) * 2^(2 * Byte)

WriteMem(a, n, value) ==
    [x \in DOMAIN mem |->
        IF x \in a..(a + n - 1)
        THEN get_bits(value, Byte * (x - a + 1) - 1, Byte * (x - a))
        ELSE mem[x]]

Loaded(kind, a, past) ==
    LET value == ReadMem(a, Size(kind), past)
    IN  IF kind \in {"LBU", "LHU"} THEN value
        ELSE Wrap(sign_extend(value, Byte * Size(kind)))

Load ==
    /\ Executes({"LB", "LH", "LW", "LBU", "LHU"})
    /\ LET a == Wrap(regs[dInstr.rs1] + dInstr.imm)
       IN  CASE Page(a) \in unmapped ->
                    Traps("LOAD_PAGE_FAULT", a) /\ UNCHANGED regs
             [] Page(a) \notin unmapped /\ a >= DRAM_SIZE ->
                    Traps("LOAD_ACCESS_FAULT", a) /\ UNCHANGED regs
             [] OTHER ->
                    /\ Advances
                    /\ \E past \in 0..(2^Byte - 1) :
                            regs' = writeReg(dInstr.rd, Loaded(dInstr.kind, a, past))
    /\ UNCHANGED <<mem, csrs>>

Store ==
    /\ Executes({"SB", "SH", "SW"})
    /\ LET a == Wrap(regs[dInstr.rs1] + dInstr.imm)
       IN  IF Page(a) \in unmapped
           THEN Traps("STORE_PAGE_FAULT", a) /\ UNCHANGED mem
           ELSE Advances /\ mem' = WriteMem(a, Size(dInstr.kind), regs[dInstr.rs2])
    /\ UNCHANGED <<regs, csrs>>

AmoKinds == {"AMOSWAP_W", "AMOADD_W", "AMOAND_W", "AMOOR_W", "AMOXOR_W",
             "AMOMIN_W", "AMOMAX_W", "AMOMINU_W", "AMOMAXU_W"}

Operation(kind, old, operand) ==
    CASE kind = "AMOSWAP_W" -> operand
      [] kind = "AMOADD_W"  -> Wrap(old + operand)
      [] kind = "AMOAND_W"  -> Bitwise(And, old, operand)
      [] kind = "AMOOR_W"   -> Bitwise(Or, old, operand)
      [] kind = "AMOXOR_W"  -> Bitwise(Xor, old, operand)
      [] kind = "AMOMIN_W"  -> IF Signed(operand) < Signed(old) THEN operand ELSE old
      [] kind = "AMOMAX_W"  -> IF Signed(operand) > Signed(old) THEN operand ELSE old
      [] kind = "AMOMINU_W" -> IF operand < old THEN operand ELSE old
      [] kind = "AMOMAXU_W" -> IF operand > old THEN operand ELSE old

(* The operand is read after rd was overwritten.                           *)
Exchange_OperandLast(d, a) ==
    LET old == ReadMem(a, 4, 0)
    IN  /\ regs' = writeReg(d.rd, old)
        /\ mem' = WriteMem(a, 4, Operation(d.kind, old, regs'[d.rs2]))

Exchange(d, a) ==
    LET old == ReadMem(a, 4, 0)
    IN  /\ mem' = WriteMem(a, 4, Operation(d.kind, old, regs[d.rs2]))
        /\ regs' = writeReg(d.rd, old)

(* The alignment is that of the physical address, and tval is that address.*)
Amo ==
    /\ Executes(AmoKinds)
    /\ LET a == regs[dInstr.rs1]
       IN  CASE Page(a) \in unmapped ->
                    Traps("STORE_PAGE_FAULT", a) /\ UNCHANGED <<regs, mem>>
             [] Page(a) \notin unmapped /\ a % 4 # 0 ->
                    Traps("MISALIGNED_STORE_ADDRESS", a) /\ UNCHANGED <<regs, mem>>
             [] Page(a) \notin unmapped /\ a % 4 = 0 /\ a >= DRAM_SIZE ->
                    Traps("STORE_ACCESS_FAULT", a) /\ UNCHANGED <<regs, mem>>
             [] OTHER -> Advances /\ Exchange(dInstr, a)
    /\ UNCHANGED csrs

-----------------------------------------------------------------------------
(* CSR instructions; what the CSRs mean is in Hart.                        *)

Readable(n) == job.priv >= get_bits(n, 9, 8)

Writable(n) == Readable(n) /\ get_bits(n, 11, 10) # 3

CsrOperand(d) == IF d.kind \in {"CSRRW", "CSRRS", "CSRRC"} THEN regs[d.rs1] ELSE d.rs1

CsrWritten(d, old) ==
    CASE d.kind \in {"CSRRW", "CSRRWI"} -> CsrOperand(d)
      [] d.kind \in {"CSRRS", "CSRRSI"} -> Bitwise(Or, old, CsrOperand(d))
      [] d.kind \in {"CSRRC", "CSRRCI"} -> old - Bitwise(And, old, CsrOperand(d))

(* Set and clear skip the write when the rs1 field is zero.                *)
WritesCsr(d) == d.kind \in {"CSRRW", "CSRRWI"} \/ d.rs1 # 0

(* execCSRRSI and execCSRRCI write rd before writeCSR can refuse.          *)
RdBeforeWrite == {"CSRRSI", "CSRRCI"}

Csr ==
    /\ Executes({"CSRRW", "CSRRS", "CSRRC", "CSRRWI", "CSRRSI", "CSRRCI"})
    /\ LET d == dInstr
           n == d.imm
           linked == writeReg(d.rd, csrs[n])
       IN  /\ n \in DOMAIN csrs
           /\ CASE ~Readable(n) ->
                    Traps("ILLEGAL_INSTRUCTION", 0) /\ UNCHANGED <<regs, csrs>>
                [] Readable(n) /\ WritesCsr(d) /\ ~Writable(n) ->
                    /\ Traps("ILLEGAL_INSTRUCTION", 0)
                    /\ regs' = IF d.kind \in RdBeforeWrite THEN linked ELSE regs
                    /\ UNCHANGED csrs
                [] OTHER ->
                    /\ Advances
                    /\ regs' = linked
                    /\ csrs' = IF WritesCsr(d)
                               THEN [csrs EXCEPT ![n] = Wrap(CsrWritten(d, csrs[n]))]
                               ELSE csrs
    /\ UNCHANGED mem

-----------------------------------------------------------------------------
(* execEBREAK, execECALL outside the SBI, execINVALID.                     *)
Raise ==
    /\ Executes({"EBREAK", "ECALL", "INVALID"})
    /\ CASE dInstr.kind = "EBREAK" -> Traps("BREAKPOINT", pc)
         [] dInstr.kind = "ECALL" -> Traps("ENVIRONMENT_CALL", 0)
         [] dInstr.kind = "INVALID" -> Traps("ILLEGAL_INSTRUCTION", 0)
    /\ UNCHANGED <<regs, mem, csrs>>

(* The guest kernel: it maps the page tval names and returns to mepc.      *)
Repair ==
    /\ trap.cause \in {"INSTRUCTION_PAGE_FAULT", "LOAD_PAGE_FAULT",
                       "STORE_PAGE_FAULT"}
    /\ trap' = None
    /\ unmapped' = unmapped \ {Page(trap.tval)}
    /\ UNCHANGED <<job, phase, regs, mem, csrs, pc, minstret, dInstr>>

Next ==
    \/ FetchTraps
    \/ FetchAndDecode
    \/ Compute
    \/ Branch
    \/ Jump
    \/ Load
    \/ Store
    \/ Amo
    \/ Csr
    \/ Raise
    \/ Repair

Spec == Init /\ [][Next]_vars
-----------------------------------------------------------------------------
(* What the RISC-V ISA says of the compressed instructions of RV32IC, as   *)
(* its tables do: the bits of a halfword, from bit hi down, are the bits   *)
(* places of the immediate.                                                *)

Scatter(h, hi, places) ==
    MapThenSumSet(LAMBDA k : bit(h, hi - k + 1) * 2^places[k], 1..Len(places))

(* The six bits of CI: bit 12, then bits 6 to 2.                           *)
CI(h, top, places) == bit(h, 12) * 2^top + Scatter(h, 6, places)

SixBits(h) == sign_extend(CI(h, 5, <<4, 3, 2, 1, 0>>), 6)

CJump(h) ==
    sign_extend(Scatter(h, 12, <<11, 4, 9, 8, 10, 6, 7, 3, 2, 1, 5>>), 12)

CBranch(h) ==
    sign_extend(Scatter(h, 12, <<8, 4, 3>>) + Scatter(h, 6, <<7, 6, 2, 1, 5>>), 9)

CWord(h) == Scatter(h, 12, <<5, 4, 3>>) + Scatter(h, 6, <<2, 6>>)

I(kind, rd, rs1, imm)   == <<kind, rd, rs1, imm>>
R(kind, rd, rs1, rs2)   == <<kind, rd, rs1, rs2>>
SB(kind, rs1, rs2, imm) == <<kind, rs1, rs2, imm>>

(* An instruction with the operands its kind reads and writes.             *)
Operands(d) ==
    CASE d.kind \in RegKinds -> R(d.kind, d.rd, d.rs1, d.rs2)
      [] d.kind \in {"LUI", "JAL"} -> <<d.kind, d.rd, d.imm>>
      [] d.kind \in {"SW", "BEQ", "BNE"} -> SB(d.kind, d.rs1, d.rs2, d.imm)
      [] d.kind \in {"EBREAK", "INVALID"} -> <<d.kind>>
      [] OTHER -> I(d.kind, d.rd, d.rs1, d.imm)

(* What a compressed instruction expands to.  Left out, as <<>>: reserved  *)
(* encodings, hints, and those of the F and D extensions.                  *)
Expansion(h) ==
    LET full == get_bits(h, 11, 7)      rs2  == get_bits(h, 6, 2)
        low  == 8 + get_bits(h, 9, 7)   low2 == 8 + get_bits(h, 4, 2)
        n    == SixBits(h)              row  == <<h % 4, get_bits(h, 15, 13)>>
        spn  == Scatter(h, 12, <<5, 4, 9, 8, 7, 6, 2, 3>>)
        sp16 == sign_extend(CI(h, 9, <<4, 6, 8, 7, 5>>), 10)
        alu  == get_bits(h, 11, 10)     high == bit(h, 12) = 1
    IN
    CASE row = <<0, 0>> /\ spn # 0 -> I("ADDI", low2, 2, spn)
      [] row = <<0, 2>> -> I("LW", low2, low, CWord(h))
      [] row = <<0, 6>> -> SB("SW", low, low2, CWord(h))
      [] row = <<1, 0>> -> I("ADDI", full, full, n)
      [] row = <<1, 1>> -> <<"JAL", 1, CJump(h)>>
      [] row = <<1, 2>> /\ full # 0 -> I("ADDI", full, 0, n)
      [] row = <<1, 3>> /\ full = 2 /\ sp16 # 0 -> I("ADDI", 2, 2, sp16)
      [] row = <<1, 3>> /\ full \notin {0, 2} /\ n # 0 -> <<"LUI", full, n * 4096>>
      [] row = <<1, 4>> /\ alu = 0 /\ ~high -> I("SRLI", low, low, rs2)
      [] row = <<1, 4>> /\ alu = 1 /\ ~high -> I("SRAI", low, low, 1024 + rs2)
      [] row = <<1, 4>> /\ alu = 2 -> I("ANDI", low, low, n)
      [] row = <<1, 4>> /\ alu = 3 /\ ~high ->
            R(<<"SUB", "XOR", "OR", "AND">>[get_bits(h, 6, 5) + 1], low, low, low2)
      [] row = <<1, 5>> -> <<"JAL", 0, CJump(h)>>
      [] row = <<1, 6>> -> SB("BEQ", low, 0, CBranch(h))
      [] row = <<1, 7>> -> SB("BNE", low, 0, CBranch(h))
      [] row = <<2, 0>> /\ ~high -> I("SLLI", full, full, rs2)
      [] row = <<2, 2>> /\ full # 0 -> I("LW", full, 2, CI(h, 5, <<4, 3, 2, 7, 6>>))
      [] row = <<2, 4>> /\ ~high /\ rs2 = 0 /\ full # 0 -> I("JALR", 0, full, 0)
      [] row = <<2, 4>> /\ ~high /\ rs2 # 0 -> R("ADD", full, 0, rs2)
      [] row = <<2, 4>> /\ high /\ rs2 = 0 /\ full = 0 -> <<"EBREAK">>
      [] row = <<2, 4>> /\ high /\ rs2 = 0 /\ full # 0 -> I("JALR", 1, full, 0)
      [] row = <<2, 4>> /\ high /\ rs2 # 0 /\ full # 0 -> R("ADD", full, full, rs2)
      [] row = <<2, 6>> -> SB("SW", 2, rs2, Scatter(h, 12, <<5, 4, 3, 2, 7, 6>>))
      [] OTHER -> <<>>

-----------------------------------------------------------------------------
(* The programs the laws below are about, one after the other at address 0.*)

Instr(kind, rd, rs1, rs2, imm) ==
    [kind |-> kind, rd |-> rd, rs1 |-> rs1, rs2 |-> rs2, imm |-> imm]

InstrAt(code, a) == decode(Fetched(code, a))

(* A program of two full-length instructions.                              *)
TwoInstrs(j, first, second) ==
    /\ DOMAIN j.code = {0, 2, 4, 6}
    /\ j.code[0] % 4 = 3 /\ InstrAt(j.code, 0) = first
    /\ j.code[4] % 4 = 3 /\ InstrAt(j.code, 4) = second

(* The other half of a product, the remainder of a quotient.               *)
Partner == [MULH |-> "MUL", MULHSU |-> "MUL", MULHU |-> "MUL",
            DIV |-> "REM", DIVU |-> "REMU"]

(* x7 and x5 take the two results, the second over its own operand.        *)
PairProgram(j) ==
    /\ TwoInstrs(j, Instr(j.law, 7, 5, 6, 0), Instr(Partner[j.law], 5, 5, 6, 0))
    /\ Registers(j)[5] = j.a /\ Registers(j)[6] = j.b

(* A call of the subroutine at 8, which returns at once.                   *)
CallProgram(j) ==
    LET call == InstrAt(j.code, 0)  long == j.code[0] % 4 = 3
    IN  /\ (IF long THEN 4 ELSE 2) \notin DOMAIN j.code
        /\ call.rd \in 1..31
        /\ \/ call.kind = "JAL" /\ call.imm = 8
           \/ /\ call.kind = "JALR" /\ call.rs1 \in 0..31
              /\ Registers(j)[call.rs1] + call.imm = 8
        /\ InstrAt(j.code, 8) = Instr("JALR", 0, call.rd, 0, 0)

(* An AMO of the word job.a with x6, and a load of it into x7.             *)
AmoProgram(j) ==
    /\ TwoInstrs(j, Instr(j.law, 6, 8, 6, 0), Instr("LW", 7, 8, 0, 0))
    /\ Registers(j)[6] = j.b /\ Registers(j)[8] = j.addr
    /\ j.addr % 4 = 0 /\ j.addr + 4 <= DRAM_SIZE
    /\ \A k \in 0..3 :
          Memory(j)[j.addr + k] = get_bits(j.a, Byte * (k + 1) - 1, Byte * k)

ASSUME ProgramsAssumption ==
    /\ \A h \in Compressed : SingleJob(h).law = "rvc"
    /\ \A j \in Jobs :
          /\ j.a \in Word /\ j.b \in Word
          /\ Registers(j) \in [0..31 -> Word]
          /\ Memory(j) \in [0..(DRAM_SIZE - 1) -> 0..(2^Byte - 1)]
          /\ j.law \in DOMAIN Partner => PairProgram(j)
          /\ j.law = "call" => CallProgram(j)
          /\ j.law \in AmoKinds => AmoProgram(j)

-----------------------------------------------------------------------------
(* Properties.                                                             *)

(* Every compressed instruction the ISA defines goes through decompress    *)
(* and decode to the instruction it stands for: kind, registers, and an    *)
(* immediate put together from bits that are nowhere in order.             *)
RvcExpands ==
    job.law = "rvc" /\ dInstr.kind # "none" /\ Expansion(job.code[0]) # <<>>
        => Operands(dInstr) = Expansion(job.code[0])

(* The two registers an arithmetic pair was given, and the two it wrote.   *)
A == job.a
B == job.b
First  == regs[7]
Second == regs[5]

PairDone(law) == job.law = law /\ minstret = 2

(* MULH[S[U]] and MUL of the same operands, the second over its own        *)
(* operand, are the two halves of the exact product.                       *)
HalvesOfProduct ==
    LET exact(x, y) == Signed(First) * 2^Width + Second = x * y
    IN  /\ PairDone("MULH")   => exact(Signed(A), Signed(B))
        /\ PairDone("MULHSU") => exact(Signed(A), B)
        /\ PairDone("MULHU")  => First * 2^Width + Second = A * B

(* DIV and REM of the same operands: the remainder is smaller than the     *)
(* divisor, has the dividend's sign, and completes the quotient; dividing  *)
(* by zero and the overflow give what the ISA says instead of a fault.     *)
DivisionLaw ==
    LET law(x, y, q, r) ==
            IF y = 0 THEN r = x
            ELSE x = y * q + r /\ Abs(r) < Abs(y) /\ (r # 0 => (r < 0) = (x < 0))
        x == Signed(A)   y == Signed(B)
        q == Signed(First) r == Signed(Second)
    IN  /\ PairDone("DIV") =>
              IF Overflows(x, y) THEN q = x /\ r = 0
              ELSE law(x, y, q, r) /\ (y = 0 => q = -1)
        /\ PairDone("DIVU") =>
              law(A, B, First, Second) /\ (B = 0 => First = 2^Width - 1)

(* A subroutine comes back to the instruction after its call, whichever of *)
(* the compressed and the full forms call and return, also when the call   *)
(* overwrites the register it jumps through, and when its page faults.     *)
CallReturns ==
    PairDone("call") => pc = IF job.code[0] % 4 = 3 THEN 4 ELSE 2

(* An AMO whose operand register is its destination: the word that LW then *)
(* reads is the operation on the old word and the old register, and the    *)
(* register holds the old word.  Bit by bit for the logical ones.          *)
AmoExchanges ==
    LET old == A   operand == B
        got == Signed(First)
        bits(f) ==
            \A k \in 0..(Width - 1) : bit(First, k) = f[bit(old, k)][bit(operand, k)]
        both == {Signed(old), Signed(operand)}
        bothU == {old, operand}
    IN  /\ job.law \in AmoKinds /\ minstret >= 1 => regs[6] = old
        /\ PairDone("AMOSWAP_W") => First = operand
        /\ PairDone("AMOADD_W")  => (First - old - operand) % 2^Width = 0
        /\ PairDone("AMOAND_W")  => bits([u \in Bits |-> [v \in Bits |-> u * v]])
        /\ PairDone("AMOOR_W")   => bits([u \in Bits |-> [v \in Bits |-> u + v - u * v]])
        /\ PairDone("AMOXOR_W")  => bits([u \in Bits |-> [v \in Bits |-> (u + v) % 2]])
        /\ PairDone("AMOMIN_W")  => got \in both /\ \A v \in both : got <= v
        /\ PairDone("AMOMAX_W")  => got \in both /\ \A v \in both : got >= v
        /\ PairDone("AMOMINU_W") => First \in bothU /\ \A v \in bothU : First <= v
        /\ PairDone("AMOMAXU_W") => First \in bothU /\ \A v \in bothU : First >= v

(* An instruction that traps has changed nothing, so that the handler can  *)
(* run it again: no register, no memory, no CSR.  CSRRSI and CSRRCI of a   *)
(* read-only CSR are the exception: they have overwritten rd.              *)
FaultsAreClean ==
    [][trap' # None /\ dInstr.kind \notin {"CSRRSI", "CSRRCI"}
          => UNCHANGED <<regs, mem, csrs, pc>>]_vars
=============================================================================
