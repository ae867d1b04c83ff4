------------------------------- MODULE CpuRun -------------------------------
(***************************************************************************)
(* The CPU of module Cpu running programs, as CPU_step() runs it: one      *)
(* MCS6502ExecNext() after the other, an interrupt between any two.        *)
(*                                                                         *)
(* The programs are the routines 6502 code is made of: multiplication,     *)
(* division, decimal and signed arithmetic, copying through a pointer,     *)
(* masks and indirect jumps.  Together they use every instruction.  The    *)
(* stack pointer starts at 1, so that it wraps, and the code lies across   *)
(* the end of a page.                                                      *)
(***************************************************************************)
EXTENDS Cpu, Opcodes

CONSTANTS Bytes,        \* operands of the binary programs
          Decimals,     \* operands of the decimal program, in BCD
          Nested        \* programs that meet both an IRQ and an NMI

ASSUME RunAssumption == Bytes \subseteq Byte /\ Decimals \subseteq Byte

VARIABLES s,            \* the MCS6502ExecutionContext and memory
          prog,         \* the program
          in,           \* its operands
          left          \* bound: the interrupts still to come

vars == <<s, prog, in, left>>

-----------------------------------------------------------------------------
(* Programs. A branch or jump names the place of its target in the program. *)

Ins(op, mode, arg) == [op |-> op, mode |-> mode, arg |-> arg]
Imp(op) == Ins(op, "Implied", 0)
Acc(op) == Ins(op, "Accumulator", 0)
Imm(op, n) == Ins(op, "Immediate", n)
Zp(op, a) == Ins(op, "ZeroPage", a)
To(op, k) == Ins(op, IF op \in {"JMP", "JSR"} THEN "Absolute" ELSE "Relative", k)

\* Zero page: operands, results, cells of the handlers, a pointer.
U == 16
V == 18
R == 20
SaveA == 24
Irqs == 32
Brks == 33
Nmis == 34
Ptr == 40

Boot == <<Imm("LDX", 1), Imp("TXS"), Imp("CLI")>>

Multiply == Boot \o
    <<Imm("LDA", 0), Imm("LDX", 8), Zp("LSR", U), To("BCC", 10), Imp("CLC"), Zp("ADC", V),
      Acc("ROR"), Zp("ROR", U), Imp("DEX"), To("BNE", 7), Zp("STA", R), To("JMP", 15)>>

Divide == Boot \o
    <<Imm("LDA", 0), Imm("LDX", 8), Zp("ASL", U), Acc("ROL"), Zp("CMP", V), To("BCC", 11),
      Zp("SBC", V), Zp("ROL", U), Imp("DEX"), To("BNE", 7), Zp("STA", R), To("JMP", 15)>>

Decimal == Boot \o
    <<Imp("SED"), Imp("CLC"), Zp("LDA", U), Zp("ADC", V), Zp("STA", R),
      Zp("LDA", U + 1), Zp("ADC", V + 1), Zp("STA", R + 1),
      Imp("SEC"), Zp("LDA", R), Zp("SBC", V), Zp("STA", R + 2),
      Zp("LDA", R + 1), Zp("SBC", V + 1), Zp("STA", R + 3), To("JMP", 19)>>

Less == Boot \o
    <<Zp("LDA", U), Imp("SEC"), Zp("SBC", V), To("BVC", 9), Imm("EOR", 128), To("BMI", 12),
      Imm("LDA", 0), To("BEQ", 13), Imm("LDA", 1), Zp("STA", R),
      Zp("LDA", U), Zp("CMP", V), To("BCS", 18), Zp("INC", R + 1), To("JMP", 18)>>

Copy == Boot \o
    <<Imm("LDY", 0), Ins("LDA", "IndirectY", Ptr), To("JSR", 11), Imp("INY"), Imm("CPY", 3),
      To("BNE", 5), To("JMP", 10),
      Imp("PHP"), Imp("PHA"), Imp("TYA"), Imp("TAX"), Imp("PLA"), Ins("STA", "AbsoluteX", \h400),
      Imp("PLP"), Imp("RTS")>>

Masks == Boot \o
    <<Imp("BRK"), Imp("INX"), Zp("LDA", U), Imm("AND", 240), Zp("STA", R), Zp("LDA", V),
      Imm("AND", 15), Zp("ORA", R), Zp("STA", R), Zp("BIT", R), To("BPL", 16), Zp("DEC", R + 3),
      To("BVS", 18), Zp("INC", R + 2), Ins("JMP", "Indirect", \h2FF), Imp("NOP"),
      Imp("TSX"), Ins("STX", "Absolute", R + 5), Imp("INX"), Imp("TXA"), Imp("TAY"), Imp("DEY"),
      Ins("STY", "ZeroPageX", R + 4), Imm("LDX", 4), Ins("LDY", "ZeroPageX", U - 4),
      Ins("LDX", "ZeroPageY", (V - U) % 256), Imp("CLV"), Imm("CPX", 4), Imm("LDX", 4),
      Ins("LDA", "XIndirect", Ptr - 4), Ins("LDY", "Absolute", U), Imp("SEI"),
      Ins("STA", "AbsoluteY", \h500), To("JMP", 37)>>

Program == [multiply |-> Multiply, divide |-> Divide, decimal |-> Decimal,
            less |-> Less, copy |-> Copy, masks |-> Masks]

ASSUME ProgramsDecode ==
    \A name \in DOMAIN Program : \A k \in DOMAIN Program[name] :
        <<Program[name][k].op, Program[name][k].mode>> \in Pairs

\* The handlers tell BRK from IRQ the way irq_handler does, by the B flag on the
\* stack; that of the NMI disturbs the flags.
IrqHandler ==
    <<Zp("STA", SaveA), Imp("PLA"), Imp("PHA"), Imm("AND", 16), To("BNE", 8),
      Zp("INC", Irqs), To("JMP", 9), Zp("INC", Brks), Zp("LDA", SaveA), Imp("RTI")>>
NmiHandler == <<Imp("PHA"), Imp("CLD"), Zp("INC", Nmis), Imp("PLA"), Imp("RTI")>>

-----------------------------------------------------------------------------
(* Placing a program in memory. *)

Places(p, org) ==
    LET at[k \in 1 .. Len(p)] ==
            IF k = 1 THEN org ELSE at[k - 1] + LengthForInstruction(p[k - 1].mode)
    IN  at

Resolved(ins, at, k) ==
    CASE ins.mode = "Relative" -> [ins EXCEPT !.arg = (at[@] - (at[k] + 2)) % 256]
      [] ins.op \in {"JMP", "JSR"} /\ ins.mode = "Absolute" -> [ins EXCEPT !.arg = at[@]]
      [] OTHER -> ins

Assembled(p, org) ==
    LET at == Places(p, org)
        here(a) == CHOOSE k \in 1 .. Len(p) : at[k] = a
    IN  [a \in {at[k] : k \in 1 .. Len(p)} |-> Resolved(p[here(a)], at, here(a))]

Org == \h80F0
Handlers == [irq |-> Assembled(IrqHandler, \h9000), nmi |-> Assembled(NmiHandler, \h9100)]
Text == [name \in DOMAIN Program |-> Assembled(Program[name], Org)]

\* MCS6502OpcodeTable: the instruction the bytes at a decode to.
InstructionAt(a) ==
    CASE a \in DOMAIN Handlers.irq -> Handlers.irq[a]
      [] a \in DOMAIN Handlers.nmi -> Handlers.nmi[a]
      [] OTHER -> Text[prog][a]

\* Vectors, operands, the pointer to three bytes across a page, and the pointer
\* of the indirect jump at the end of one, with its high byte at its start.
Memory(i) ==
    LET target == IF prog = "masks" THEN Places(Masks, Org)[19] ELSE 0
        cells == {<<65530, 0>>, <<65531, \h91>>, <<65532, Lo(Org)>>, <<65533, Hi(Org)>>,
                  <<65534, 0>>, <<65535, \h90>>, <<U, i.u>>, <<U + 1, i.u>>, <<V, i.v>>, <<V + 1, i.v>>,
                  <<Ptr, \hFE>>, <<Ptr + 1, 3>>, <<\h3FE, i.u>>, <<\h3FF, i.v>>, <<\h2FF, Lo(target)>>,
                  <<\h200, Hi(target)>>}
    IN  [a \in {c[1] : c \in cells} |-> (CHOOSE c \in cells : c[1] = a)[2]]

Init ==
    /\ prog \in DOMAIN Program
    /\ in \in IF prog = "decimal" THEN [u : Decimals, v : Decimals]
              ELSE IF prog = "divide" THEN [u : Bytes, v : Bytes \cap 1 .. 128] ELSE [u : Bytes, v : Bytes]
    /\ left \in IF prog \in Nested THEN {{"irq", "nmi"}} ELSE {{"irq"}, {"nmi"}}
    /\ s = MCS6502Reset(Memory(in))

Halting == InstructionAt(s.pc) = Ins("JMP", "Absolute", s.pc)

Step ==
    /\ ~Halting
    /\ s' = MCS6502ExecNext(s, InstructionAt(s.pc))
    /\ UNCHANGED <<prog, in, left>>

MCS6502IRQ ==
    /\ "irq" \in left /\ "I" \notin s.p
    /\ s' = HandleIRQ(s)
    /\ left' = left \ {"irq"}
    /\ UNCHANGED <<prog, in>>

MCS6502NMI ==
    /\ "nmi" \in left
    /\ s' = HandleNMI(s)
    /\ left' = left \ {"nmi"}
    /\ UNCHANGED <<prog, in>>

\* JMP to itself: MCS6502ExecResultHalting.
Halted == Halting /\ UNCHANGED vars

Next == Step \/ MCS6502IRQ \/ MCS6502NMI \/ Halted

Spec == Init /\ [][Next]_vars

-----------------------------------------------------------------------------
Cell(a) == MCS6502ReadByte(s, a)
ValueBCD(a) == (100 * IntegerFromBCD(Cell(a + 1))) + IntegerFromBCD(Cell(a))

Expected ==
    LET b == (16 * (in.u \div 16)) + (in.v % 16) IN
    CASE prog = "multiply" -> Word(Cell(U), Cell(R)) = in.u * in.v
      [] prog = "divide" -> Cell(U) = in.u \div in.v /\ Cell(R) = in.u % in.v
      [] prog = "decimal" -> /\ ValueBCD(R) = (ValueBCD(U) + ValueBCD(V)) % 10000
                             /\ Cell(R + 2) = in.u /\ Cell(R + 3) = in.u
      [] prog = "less" -> /\ Cell(R) = IF Signed(in.u) < Signed(in.v) THEN 1 ELSE 0
                          /\ Cell(R + 1) = IF in.u < in.v THEN 1 ELSE 0
      [] prog = "copy" -> \A k \in 0 .. 2 : Cell(\h400 + k) = Cell(\h3FE + k)
      [] prog = "masks" -> /\ Cell(R) = b /\ Cell(R + 2) = IF b % 128 < 64 THEN 1 ELSE 0
                           /\ Cell(R + 3) = IF b > 127 THEN 255 ELSE 0
                           /\ Cell(R + 5) = 1 /\ Cell(R + 6) = 1 /\ Cell(\h500 + in.u) = in.u

\* Every program computes what arithmetic says it does, and leaves the stack as
\* it found it, wherever an interrupt comes in: in the middle of a sum that
\* carries, of a comparison, of decimal mode, of a subroutine, or of the handler
\* of the other interrupt (MCS6502ExecNext(), HandleIRQ(), HandleNMI(), RTI).
ProgramsCorrect == Halting => Expected /\ s.sp = 1

\* The handler that IRQ and BRK share can tell them apart: the B flag on the
\* stack is set by BRK alone, so each is counted once, as what it was. BRK comes
\* back past the byte after it (PushFlags(), case 0x00 of MCS6502ExecNext()).
CausesTold ==
    Halting => /\ Cell(Irqs) + Cell(Nmis) + Cardinality(left) = IF prog \in Nested THEN 2 ELSE 1
               /\ Cell(Brks) = IF prog = "masks" THEN 1 ELSE 0
=============================================================================
