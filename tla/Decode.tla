------------------------------- MODULE Decode -------------------------------
(***************************************************************************)
(* Instruction words: the expansion of the compressed ones (CPU::decompress)*)
(* and the decoder (CPU::decode), src/cpu/decode.cpp.                      *)
(*                                                                         *)
(* A halfword is a number, a word a signed 32-bit number: get_bits of a    *)
(* negative number is what it is in two's complement, and 1 << 31 is       *)
(* reached through sign_extend of the field at the top.                    *)
(***************************************************************************)
EXTENDS Integers

get_bits(x, hi, lo) == (x \div 2^lo) % 2^(hi - lo + 1)

bit(x, k) == get_bits(x, k, k)

sign_extend(value, bits) ==
    IF value >= 2^(bits - 1) THEN value - 2^bits ELSE value

-----------------------------------------------------------------------------
(* The encoders decompress builds its result with.                         *)

encode(top7, rs2, rs1, f3, rd, op) ==
    sign_extend(top7, 7) * 2^25 + rs2 * 2^20 + rs1 * 2^15 + f3 * 2^12
        + rd * 2^7 + op

encodeRType(funct7, rs2, rs1, f3, rd) == encode(funct7, rs2, rs1, f3, rd, 51)

encodeIType(imm, rs1, f3, rd, op) ==
    encode(get_bits(imm, 11, 5), get_bits(imm, 4, 0), rs1, f3, rd, op)

encodeSType(imm, rs1, rs2, f3) ==
    encode(get_bits(imm, 11, 5), rs2, rs1, f3, get_bits(imm, 4, 0), 35)

encodeBType(imm, rs1, rs2, f3) ==
    encode(bit(imm, 12) * 64 + get_bits(imm, 10, 5), rs2, rs1, f3,
           get_bits(imm, 4, 1) * 2 + bit(imm, 11), 99)

(* i11 at bit 11 of the immediate's field instead of at its bottom.        *)
encodeJType_MisplacesBit11(imm, rd) ==
    sign_extend(bit(imm, 20) * 1024 + get_bits(imm, 10, 1), 11) * 2^21
        + get_bits(imm, 19, 12) * 2^12 + rd * 2^7 + 111

encodeJType(imm, rd) ==
    sign_extend(bit(imm, 20) * 1024 + get_bits(imm, 10, 1), 11) * 2^21
        + bit(imm, 11) * 2^20 + get_bits(imm, 19, 12) * 2^12 + rd * 2^7 + 111

-----------------------------------------------------------------------------
(* CPU::decompress: a quadrant at a time; 0 is the illegal instruction.    *)

ADDI == 19   \* the opcodes of the expansions
LOAD == 3
JALR == 103

get_imm6(i) == sign_extend(bit(i, 12) * 32 + get_bits(i, 6, 2), 6)

shamt6(i) == bit(i, 12) * 32 + get_bits(i, 6, 2)

OffsetLwSw(i) == get_bits(i, 12, 10) * 8 + bit(i, 6) * 4 + bit(i, 5) * 64

OffsetJump(i) ==
    sign_extend(bit(i, 12) * 2048 + bit(i, 8) * 1024 + get_bits(i, 10, 9) * 256
                + bit(i, 6) * 128 + bit(i, 7) * 64 + bit(i, 2) * 32
                + bit(i, 11) * 16 + get_bits(i, 5, 3) * 2, 12)

OffsetBranch(i) ==
    sign_extend(bit(i, 12) * 256 + get_bits(i, 11, 10) * 8
                + get_bits(i, 6, 5) * 64 + bit(i, 2) * 32
                + get_bits(i, 4, 3) * 2, 9)

Addi16sp(i) ==
    sign_extend(bit(i, 12) * 512 + get_bits(i, 4, 3) * 128 + bit(i, 5) * 64
                + bit(i, 2) * 32 + bit(i, 6) * 16, 10)

rd_rs1_high(i) == get_bits(i, 11, 7)
rs2_low(i)     == get_bits(i, 6, 2)
rs1_p(i)       == 8 + get_bits(i, 9, 7)
rd_p(i)        == 8 + get_bits(i, 4, 2)

Quadrant0(i, funct3) ==
    CASE funct3 = 0 ->
            LET imm == get_bits(i, 10, 7) * 64 + get_bits(i, 12, 11) * 16
                       + bit(i, 5) * 8 + bit(i, 6) * 4
            IN  IF imm = 0 THEN 0 ELSE encodeIType(imm, 2, 0, rd_p(i), ADDI)
      [] funct3 = 2 -> encodeIType(OffsetLwSw(i), rs1_p(i), 2, rd_p(i), LOAD)
      [] funct3 = 6 -> encodeSType(OffsetLwSw(i), rs1_p(i), rd_p(i), 2)
      [] OTHER -> 0

CAlu(i) ==
    LET rd  == rs1_p(i)
        f2  == get_bits(i, 6, 5)
        sub == get_bits(i, 11, 10)
    IN  CASE sub = 0 -> encodeIType(shamt6(i), rd, 5, rd, ADDI)
          [] sub = 1 -> encodeIType(1024 + shamt6(i), rd, 5, rd, ADDI)
          [] sub = 2 -> encodeIType(get_imm6(i), rd, 7, rd, ADDI)
          [] sub = 3 -> encodeRType(IF f2 = 0 THEN 32 ELSE 0, rd_p(i), rd,
                                    <<0, 4, 6, 7>>[f2 + 1], rd)

Quadrant1(i, funct3) ==
    LET rd  == rd_rs1_high(i)
        imm == get_imm6(i)
    IN  CASE funct3 = 0 -> encodeIType(imm, rd, 0, rd, ADDI)
          [] funct3 = 1 -> encodeJType(OffsetJump(i), 1)
          [] funct3 = 2 -> IF rd = 0 THEN 0 ELSE encodeIType(imm, 0, 0, rd, ADDI)
          [] funct3 = 3 /\ rd = 2 ->
                IF Addi16sp(i) = 0 THEN 0 ELSE encodeIType(Addi16sp(i), 2, 0, 2, ADDI)
          [] funct3 = 3 /\ rd # 2 ->
                IF rd = 0 \/ imm = 0 THEN 0 ELSE imm * 2^12 + rd * 2^7 + 55
          [] funct3 = 4 -> CAlu(i)
          [] funct3 = 5 -> encodeJType(OffsetJump(i), 0)
          [] funct3 \in {6, 7} ->
                encodeBType(OffsetBranch(i), rs1_p(i), 0, funct3 - 6)

(* C.JR, C.MV, C.EBREAK, C.JALR, C.ADD                                      *)
CRegister(i) ==
    LET rd == rd_rs1_high(i)  rs2 == rs2_low(i)
    IN  CASE bit(i, 12) = 0 /\ rs2 = 0 -> encodeIType(0, rd, 0, 0, JALR)
          [] bit(i, 12) = 0 /\ rs2 # 0 -> encodeRType(0, rs2, 0, 0, rd)
          [] bit(i, 12) = 1 /\ rs2 = 0 /\ rd = 0 -> 2^20 + 115
          [] bit(i, 12) = 1 /\ rs2 = 0 /\ rd # 0 -> encodeIType(0, rd, 0, 1, JALR)
          [] bit(i, 12) = 1 /\ rs2 # 0 /\ rd # 0 -> encodeRType(0, rs2, rd, 0, rd)
          [] OTHER -> 0

Quadrant2(i, funct3) ==
    LET rd == rd_rs1_high(i)
    IN  CASE funct3 = 0 -> encodeIType(shamt6(i), rd, 1, rd, ADDI)
          [] funct3 = 2 ->
                IF rd = 0 THEN 0
                ELSE encodeIType(get_bits(i, 6, 4) * 4 + bit(i, 12) * 32
                                 + get_bits(i, 3, 2) * 64, 2, 2, rd, LOAD)
          [] funct3 = 4 -> CRegister(i)
          [] funct3 = 6 -> encodeSType(get_bits(i, 12, 9) * 4
                                       + get_bits(i, 8, 7) * 64, 2, rs2_low(i), 2)
          [] OTHER -> 0

decompress(i) ==
    LET funct3 == get_bits(i, 15, 13)
    IN  CASE i % 4 = 0 -> Quadrant0(i, funct3)
          [] i % 4 = 1 -> Quadrant1(i, funct3)
          [] i % 4 = 2 -> Quadrant2(i, funct3)

-----------------------------------------------------------------------------
(* CPU::decode: the kind of an instruction, then its operands.             *)

OpKind(funct3, funct7) ==
    IF funct7 = 1
    THEN <<"MUL", "MULH", "MULHSU", "MULHU", "DIV", "DIVU", "REM", "REMU">>[funct3 + 1]
    ELSE CASE funct3 = 0 -> IF funct7 = 0 THEN "ADD"
                            ELSE IF funct7 = 32 THEN "SUB" ELSE "INVALID"
           [] funct3 = 5 -> IF funct7 = 0 THEN "SRL"
                            ELSE IF funct7 = 32 THEN "SRA" ELSE "INVALID"
           [] OTHER -> <<"", "SLL", "SLT", "SLTU", "XOR", "", "OR", "AND">>[funct3 + 1]

OpImmKind(funct3, funct7) ==
    IF funct3 = 5
    THEN IF funct7 = 0 THEN "SRLI" ELSE IF funct7 = 32 THEN "SRAI" ELSE "INVALID"
    ELSE <<"ADDI", "SLLI", "SLTI", "SLTIU", "XORI", "", "ORI", "ANDI">>[funct3 + 1]

LoadKind(funct3) ==
    <<"LB", "LH", "LW", "INVALID", "LBU", "LHU", "INVALID", "INVALID">>[funct3 + 1]

StoreKind(funct3) ==
    IF funct3 <= 2 THEN <<"SB", "SH", "SW">>[funct3 + 1] ELSE "INVALID"

BranchKind(funct3) ==
    <<"BEQ", "BNE", "INVALID", "INVALID", "BLT", "BGE", "BLTU", "BGEU">>[funct3 + 1]

SystemKind(funct3, funct12) ==
    CASE funct3 = 0 ->
            CASE funct12 \div 32 = 9 -> "SFENCE_VMA"
              [] funct12 = 0 -> "ECALL"
              [] funct12 = 1 -> "EBREAK"
              [] funct12 = 770 -> "MRET"
              [] funct12 = 258 -> "SRET"
              [] funct12 = 261 -> "WFI"
              [] OTHER -> "INVALID"
      [] funct3 = 4 -> "INVALID"
      [] OTHER -> <<"CSRRW", "CSRRS", "CSRRC", "", "CSRRWI", "CSRRSI", "CSRRCI">>[funct3]

AmoKind(funct5) ==
    CASE funct5 = 2 -> "LR_W"       [] funct5 = 3 -> "SC_W"
      [] funct5 = 1 -> "AMOSWAP_W"  [] funct5 = 0 -> "AMOADD_W"
      [] funct5 = 12 -> "AMOAND_W"  [] funct5 = 8 -> "AMOOR_W"
      [] funct5 = 4 -> "AMOXOR_W"   [] funct5 = 16 -> "AMOMIN_W"
      [] funct5 = 20 -> "AMOMAX_W"  [] funct5 = 24 -> "AMOMINU_W"
      [] funct5 = 28 -> "AMOMAXU_W" [] OTHER -> "INVALID"

(* For SYSTEM, imm stands for the field csr.                               *)
decode(instr) ==
    LET opcode == get_bits(instr, 6, 0)
        funct3 == get_bits(instr, 14, 12)
        funct7 == get_bits(instr, 31, 25)
        rd     == get_bits(instr, 11, 7)
        rs1    == get_bits(instr, 19, 15)
        rs2    == get_bits(instr, 24, 20)
        immI   == sign_extend(get_bits(instr, 31, 20), 12)
        immS   == sign_extend(funct7 * 32 + rd, 12)
        immB   == sign_extend((funct7 \div 64) * 4096 + bit(instr, 7) * 2048
                              + get_bits(instr, 30, 25) * 32
                              + get_bits(instr, 11, 8) * 2, 13)
        immJ   == sign_extend((funct7 \div 64) * 2^20
                              + get_bits(instr, 19, 12) * 4096
                              + bit(instr, 20) * 2048
                              + get_bits(instr, 30, 21) * 2, 21)
        d(kind, w, r1, r2, imm) ==
            [kind |-> kind, rd |-> w, rs1 |-> r1, rs2 |-> r2, imm |-> imm]
    IN  CASE opcode = 51  -> d(OpKind(funct3, funct7), rd, rs1, rs2, 0)
          [] opcode = 19  -> d(OpImmKind(funct3, funct7), rd, rs1, 0, immI)
          [] opcode = 3   -> d(LoadKind(funct3), rd, rs1, rs2, immI)
          [] opcode = 35  -> d(StoreKind(funct3), 0, rs1, rs2, immS)
          [] opcode = 99  -> d(BranchKind(funct3), 0, rs1, rs2, immB)
          [] opcode = 111 -> d("JAL", rd, 0, 0, immJ)
          [] opcode = 103 -> d("JALR", rd, rs1, rs2, immI)
          [] opcode = 55  -> d("LUI", rd, 0, 0, (instr \div 4096) * 4096)
          [] opcode = 23  -> d("AUIPC", rd, 0, 0, (instr \div 4096) * 4096)
          [] opcode = 15  -> d(IF funct3 <= 1 THEN "FENCE" ELSE "INVALID",
                               rd, rs1, rs2, get_bits(instr, 31, 20))
          [] opcode = 115 -> d(SystemKind(funct3, get_bits(instr, 31, 20)),
                               rd, rs1, rs2, get_bits(instr, 31, 20))
          [] opcode = 47  -> d(AmoKind(get_bits(instr, 31, 27)), rd, rs1, rs2, 0)
          [] OTHER        -> d("INVALID", rd, rs1, rs2, 0)
=============================================================================
