--------------------------- MODULE MC_Instructions ---------------------------
(* Programs of one or two instructions, at addresses 0 and up.              *)
EXTENDS Instructions, TLC

Low(w)  == w % 2^16
High(w) == (w \div 2^16) % 2^16

At(a, w) == IF Low(w) % 4 = 3 THEN (a :> Low(w)) @@ ((a + 2) :> High(w))
            ELSE a :> w

Length(w) == IF Low(w) % 4 = 3 THEN 4 ELSE 2

Two(v, w) == At(0, v) @@ At(Length(v), w)

(* The word at 8 holds job.m; x5 and x6 are the operands, x8 an address.    *)
Contents(j) ==
    [x \in 0..(DRAM_SIZE - 1) |->
        IF x < 8 THEN 0
        ELSE get_bits(j.m, Byte * ((x % 4) + 1) - 1, Byte * (x % 4))]

Operand(j, r) ==
    CASE r = 0 -> 0 [] r = 5 -> j.a [] r = 6 -> j.b [] r = 8 -> j.addr
      [] r = 9 -> 8 [] OTHER -> 4

Start(j) == [r \in 0..31 |-> Operand(j, r)]

Job(law, code, a, b, addr, m, gone) ==
    [law |-> law, code |-> code, a |-> a, b |-> b, addr |-> addr, m |-> m,
     c |-> TRUE, priv |-> 3, unmapped |-> gone]

Halfwords == {h \in 0..(2^16 - 1) : h % 4 # 3}

Single(h) == Job("rvc", 0 :> h, 1, 2, 4, 5, {})

Op(f7, f3, rd, rs1, rs2) == encodeRType(f7, rs2, rs1, f3, rd)

Pairs == {<<"MULH", 1, 0>>, <<"MULHSU", 2, 0>>, <<"MULHU", 3, 0>>,
          <<"DIV", 4, 6>>, <<"DIVU", 5, 7>>}

PairJobs ==
    {Job(p[1], Two(Op(1, p[2], 7, 5, 6), Op(1, p[3], 5, 5, 6)),
         a, b, 8, 0, {}) : p \in Pairs, a \in Word, b \in Word}

(* jal x1, 8; c.jal 8; jalr x1, 0(x9); c.jalr x9; jalr x9, 0(x9) and back.  *)
Jalr(rd, rs1) == encodeIType(0, rs1, 0, rd, 103)

Calls == {<<encodeJType(8, 1), 1>>, <<8193 + 32, 1>>, <<Jalr(1, 9), 1>>,
          <<4 * 2^13 + 2^12 + 9 * 2^7 + 2, 1>>, <<Jalr(9, 9), 9>>}

Returns(r) == {Jalr(0, r), 4 * 2^13 + r * 2^7 + 2}

CallJobs ==
    UNION {{Job("call", At(0, call[1]) @@ At(8, ret),
                1, 2, 8, 0, gone) :
              ret \in Returns(call[2]), gone \in SUBSET {0, 1, 2}} : call \in Calls}

Amo5 == [AMOSWAP_W |-> 1, AMOADD_W |-> 0, AMOAND_W |-> 12, AMOOR_W |-> 8,
         AMOXOR_W |-> 4, AMOMIN_W |-> 16, AMOMAX_W |-> 20, AMOMINU_W |-> 24,
         AMOMAXU_W |-> 28]

AmoWord(kind, rd, rs1, rs2) == encode(Amo5[kind] * 4, rs2, rs1, 2, rd, 47)

AmoJobs ==
    {Job(kind, Two(AmoWord(kind, 6, 8, 6), encodeIType(0, 8, 2, 7, 3)),
         old, b, 8, old, gone) :
        kind \in DOMAIN Amo5, old \in Word, b \in Word, gone \in {{}, {2}}}

(* Instructions that fault, in every privilege and with and without C.      *)
CsrWord(f3, n, rd, rs1) == encode(n \div 32, n % 32, rs1, f3, rd, 115)

Others ==
    {CsrWord(f3, n, 7, r) : f3 \in {1, 2, 3, 5, 6, 7}, n \in {MSCRATCH, CYCLE},
                            r \in {0, 6}}
        \cup {encodeIType(imm, 8, f3, 7, 3) : imm \in {0, 1, -4}, f3 \in 0..5}
        \cup {encodeSType(imm, 8, 6, f3) : imm \in {0, 1}, f3 \in 0..2}
        \cup {encodeBType(imm, 5, 6, f3) : imm \in {4, 6}, f3 \in 0..7}
        \cup {encodeJType(imm, 7) : imm \in {4, 6}}
        \cup {encodeIType(2, 8, 0, 8, 103), 115, 8193 + 32}
        \cup {encodeIType(imm, 5, f3, 7, 19) : imm \in {3, 33, 1025}, f3 \in 0..7}
        \cup {Op(f7, f3, 7, 5, 6) : f7 \in {0, 32}, f3 \in 0..7}
        \cup {AmoWord(kind, 6, 8, 6) : kind \in DOMAIN Amo5}

FaultJobs ==
    UNION {{[Job("fault", At(0, w), 3, 6, addr, 9, gone)
               EXCEPT !.c = c, !.priv = priv] :
              w \in Others, addr \in {8, 10, 12}, gone \in {{}, {2}}} :
           c \in BOOLEAN, priv \in {0, 3}}

(* c.nop, then an instruction that lies across the boundary of two pages.   *)
CrossJobs ==
    {Job("fault", Two(1, w), 3, 6, 8, 9, gone) : w \in Others, gone \in {{}, {0}, {1}}}

Programs == PairJobs \cup CallJobs \cup AmoJobs \cup FaultJobs \cup CrossJobs
=============================================================================
