-------------------------------- MODULE Cpu --------------------------------
(***************************************************************************)
(* The 6502 of the emulator (machine/MCS6502.c): its registers and flags,  *)
(* the addressing modes, every instruction, and the interrupt sequences.   *)
(*                                                                         *)
(* An instruction is decoded: the record [op, mode, arg] stands for the    *)
(* opcode that MCS6502Instructions gives that mnemonic and mode and for    *)
(* the operand bytes after it.  Cycle counts are left out: the machine     *)
(* calls MCS6502ExecNext(), which does not wait for them.                  *)
(***************************************************************************)
EXTENDS Integers, Sequences, Bitwise

Byte == 0 .. 255
Lo(w) == w % 256
Hi(w) == (w \div 256) % 256
Word(lo, hi) == (hi * 256) + lo
Signed(v) == IF v > 127 THEN v - 256 ELSE v
Bit(v, k) == (v \div 2^k) % 2 = 1

-----------------------------------------------------------------------------
(* Memory, the stack and the flags. p is the set of flags that are set. *)

MCS6502ReadByte(s, addr) == IF addr \in DOMAIN s.mem THEN s.mem[addr] ELSE 0
MCS6502WriteByte(s, addr, v) ==
    [s EXCEPT !.mem = [n \in DOMAIN @ \cup {addr} |-> IF n = addr THEN v ELSE @[n]]]
ReadWordAtAddress(s, addr) ==
    Word(MCS6502ReadByte(s, addr), MCS6502ReadByte(s, (addr + 1) % 65536))

\* The stack is page 1; the pointer wraps in it.
PushByte(s, v) == [MCS6502WriteByte(s, 256 + s.sp, v) EXCEPT !.sp = (@ - 1) % 256]
Pulled(s) == MCS6502ReadByte(s, 256 + ((s.sp + 1) % 256))
PullByte(s) == [s EXCEPT !.sp = (@ + 1) % 256]

PushWord(s, w) == PushByte(PushByte(s, Hi(w)), Lo(w))

Flag == <<"C", "Z", "I", "D", "B", "5", "V", "N">>
FlagsOf(v) == {Flag[k] : k \in {j \in 1 .. 8 : Bit(v, j - 1)}} \ {"B", "5"}

\* Mutant: an interrupt leaves the B flag that BRK pushes.
PushFlagsB(s, b) ==
    LET w(f, n) == IF f \in s.p THEN n ELSE 0 IN
    PushByte(s, w("C", 1) + w("Z", 2) + w("I", 4) + w("D", 8) + 16 + 32 + w("V", 64) + w("N", 128))

\* The status byte has bit 5 set, and B as asked.
PushFlags(s, b) ==
    LET w(f, n) == IF f \in s.p THEN n ELSE 0 IN
    PushByte(s, w("C", 1) + w("Z", 2) + w("I", 4) + w("D", 8)
                + (IF b THEN 16 ELSE 0) + 32 + w("V", 64) + w("N", 128))

SetOrClear(s, f, b) == [s EXCEPT !.p = IF b THEN @ \cup {f} ELSE @ \ {f}]
UpdateZero(s, v) == SetOrClear(s, "Z", v = 0)
UpdateNegative(s, v) == SetOrClear(s, "N", Bit(v, 7))
UpdateZeroNegative(s, v) == UpdateNegative(UpdateZero(s, v), v)
Carry(s) == IF "C" \in s.p THEN 1 ELSE 0

-----------------------------------------------------------------------------
(* Operands. *)

\* EffectiveOperandAddressForInstruction(). JMP (indirect) stays in the page of
\* its pointer; the zero page pointers of the other two modes do not.
EffectiveAddress(s, ins) ==
    CASE ins.mode \in {"ZeroPage", "Absolute"} -> ins.arg
      [] ins.mode = "ZeroPageX" -> (ins.arg + s.x) % 256
      [] ins.mode = "ZeroPageY" -> (ins.arg + s.y) % 256
      [] ins.mode = "AbsoluteX" -> (ins.arg + s.x) % 65536
      [] ins.mode = "AbsoluteY" -> (ins.arg + s.y) % 65536
      [] ins.mode = "Indirect" ->
            Word(MCS6502ReadByte(s, ins.arg),
                 MCS6502ReadByte(s, IF Lo(ins.arg) = 255 THEN ins.arg - 255 ELSE ins.arg + 1))
      [] ins.mode = "XIndirect" -> ReadWordAtAddress(s, (s.x + ins.arg) % 256)
      [] ins.mode = "IndirectY" -> (ReadWordAtAddress(s, ins.arg) + s.y) % 65536
      [] ins.mode = "Relative" -> (s.pc + 2 + Signed(ins.arg)) % 65536

Operand(s, ins) ==
    CASE ins.mode = "Immediate" -> ins.arg
      [] ins.mode = "Accumulator" -> s.a
      [] OTHER -> MCS6502ReadByte(s, EffectiveAddress(s, ins))

WriteResult(s, ins, v) ==
    IF ins.mode = "Accumulator" THEN [s EXCEPT !.a = v]
    ELSE MCS6502WriteByte(s, EffectiveAddress(s, ins), v)

LengthForInstruction(mode) ==
    CASE mode \in {"Implied", "Accumulator"} -> 1
      [] mode \in {"Absolute", "AbsoluteX", "AbsoluteY", "Indirect"} -> 3
      [] OTHER -> 2

-----------------------------------------------------------------------------
(* Arithmetic. *)

IntegerFromBCD(v) == ((v \div 16) * 10) + (v % 16)
BCDFromInteger(n) == IF n \in 0 .. 99 THEN ((n \div 10) * 16) + (n % 10) ELSE 0

LoadA(s, v) == UpdateZeroNegative([s EXCEPT !.a = v], v)

\* Mutant: the carry in is left out of the signed sum.
AddBinaryNoCarry(s, v) ==
    LET sum == s.a + v + Carry(s)
        vres == Signed(s.a) + Signed(v)
    IN  SetOrClear(SetOrClear(LoadA(s, sum % 256), "C", sum > 255), "V", vres \notin -128 .. 127)

AddBinary(s, v) ==
    LET sum == s.a + v + Carry(s)
        vres == Signed(s.a) + Signed(v) + Carry(s)
    IN  SetOrClear(SetOrClear(LoadA(s, sum % 256), "C", sum > 255), "V", vres \notin -128 .. 127)

ADC(s, v) ==
    LET sum == IntegerFromBCD(v) + IntegerFromBCD(s.a) + Carry(s) IN
    IF "D" \notin s.p THEN AddBinary(s, v)
    ELSE SetOrClear(LoadA(s, BCDFromInteger(IF sum > 99 THEN sum - 100 ELSE sum)), "C", sum > 99)

\* In binary, the sum with the operand's complement.
SBC(s, v) ==
    LET diff == IntegerFromBCD(s.a) - IntegerFromBCD(v) - (1 - Carry(s)) IN
    IF "D" \notin s.p THEN AddBinary(s, 255 - v)
    ELSE SetOrClear(LoadA(s, BCDFromInteger(IF diff < 0 THEN diff + 100 ELSE diff)), "C", diff >= 0)

\* CMP, CPX and CPY: the register r against the operand.
Compare(s, r, v) == SetOrClear(UpdateZeroNegative(s, (r - v) % 256), "C", r >= v)

CMP(s, v) == Compare(s, s.a, v)
CPX(s, v) == Compare(s, s.x, v)
CPY(s, v) == Compare(s, s.y, v)

AND(s, v) == LoadA(s, s.a & v)
ORA(s, v) == LoadA(s, s.a | v)
EOR(s, v) == LoadA(s, s.a ^^ v)
BIT(s, v) == SetOrClear(UpdateNegative(UpdateZero(s, s.a & v), v), "V", Bit(v, 6))

\* Shifts and counts write their result r back where the operand came from.
Shifted(s, ins, r, c) == WriteResult(UpdateZeroNegative(SetOrClear(s, "C", c), r), ins, r)
ASL(s, ins, v) == Shifted(s, ins, (v * 2) % 256, Bit(v, 7))
LSR(s, ins, v) == Shifted(s, ins, v \div 2, Bit(v, 0))
ROL(s, ins, v) == Shifted(s, ins, ((v * 2) % 256) + Carry(s), Bit(v, 7))
ROR(s, ins, v) == Shifted(s, ins, (v \div 2) + (128 * Carry(s)), Bit(v, 0))

INC(s, ins, v) == UpdateZeroNegative(WriteResult(s, ins, (v + 1) % 256), (v + 1) % 256)
DEC(s, ins, v) == UpdateZeroNegative(WriteResult(s, ins, (v - 1) % 256), (v - 1) % 256)

LoadX(s, v) == UpdateZeroNegative([s EXCEPT !.x = v], v)
LoadY(s, v) == UpdateZeroNegative([s EXCEPT !.y = v], v)
INX(s) == LoadX(s, (s.x + 1) % 256)
INY(s) == LoadY(s, (s.y + 1) % 256)
DEX(s) == LoadX(s, (s.x - 1) % 256)
DEY(s) == LoadY(s, (s.y - 1) % 256)

LDA(s, v) == LoadA(s, v)
LDX(s, v) == LoadX(s, v)
LDY(s, v) == LoadY(s, v)
STA(s, ins) == MCS6502WriteByte(s, EffectiveAddress(s, ins), s.a)
STX(s, ins) == MCS6502WriteByte(s, EffectiveAddress(s, ins), s.x)
STY(s, ins) == MCS6502WriteByte(s, EffectiveAddress(s, ins), s.y)

TAX(s) == LoadX(s, s.a)
TAY(s) == LoadY(s, s.a)
TSX(s) == LoadX(s, s.sp)
TXA(s) == LoadA(s, s.x)
TXS(s) == [s EXCEPT !.sp = s.x]
TYA(s) == LoadA(s, s.y)

PHA(s) == PushByte(s, s.a)
PHP(s) == PushFlags(s, TRUE)
PLA(s) == LoadA(PullByte(s), Pulled(s))
PLP(s) == [PullByte(s) EXCEPT !.p = FlagsOf(Pulled(s))]

\* CLC, CLD, CLI, CLV; SEC, SED, SEI.
ClearFlag == [CLC |-> "C", CLD |-> "D", CLI |-> "I", CLV |-> "V"]
SetFlag == [SEC |-> "C", SED |-> "D", SEI |-> "I"]

-----------------------------------------------------------------------------
(* Instructions that set the program counter. *)

BCC(s) == "C" \notin s.p
BCS(s) == "C" \in s.p
BEQ(s) == "Z" \in s.p
BMI(s) == "N" \in s.p
BNE(s) == "Z" \notin s.p
BPL(s) == "N" \notin s.p
BVC(s) == "V" \notin s.p
BVS(s) == "V" \in s.p

ExecuteConditionalBranch(s, ins, condition) ==
    [s EXCEPT !.pc = IF condition THEN EffectiveAddress(s, ins) ELSE (@ + 2) % 65536]

JMP(s, ins) == [s EXCEPT !.pc = EffectiveAddress(s, ins)]

\* The address of the last byte of the JSR; RTS adds one.
JSR(s, ins) == [PushWord(s, (s.pc + 2) % 65536) EXCEPT !.pc = EffectiveAddress(s, ins)]
RTS(s) == [PullByte(PullByte(s)) EXCEPT !.pc = (Word(Pulled(s), Pulled(PullByte(s))) + 1) % 65536]

\* Flags, then the return address.
RTI(s) ==
    LET t == PLP(s) IN
    [PullByte(PullByte(t)) EXCEPT !.pc = Word(Pulled(t), Pulled(PullByte(t)))]

Interrupted(s, return, b, vector) ==
    [PushFlags(PushWord(s, return), b)
        EXCEPT !.p = @ \cup {"I"}, !.pc = ReadWordAtAddress(s, vector)]

BRK(s) == Interrupted(s, (s.pc + 2) % 65536, TRUE, 65534)
HandleIRQ(s) == Interrupted(s, s.pc, FALSE, 65534)
HandleNMI(s) == Interrupted(s, s.pc, FALSE, 65530)

\* MCS6502Reset(), on memory m.
MCS6502Reset(m) ==
    LET s == [a |-> 0, x |-> 0, y |-> 0, p |-> {"I"}, sp |-> 253, pc |-> 0, mem |-> m]
    IN  [s EXCEPT !.pc = ReadWordAtAddress(s, 65532)]

-----------------------------------------------------------------------------
(* MCS6502ExecNext(): the switch, and the program counter after it. *)

ByRegister(s, ins, v) ==
    CASE ins.op = "ADC" -> ADC(s, v) [] ins.op = "SBC" -> SBC(s, v)
      [] ins.op = "AND" -> AND(s, v) [] ins.op = "ORA" -> ORA(s, v)
      [] ins.op = "EOR" -> EOR(s, v) [] ins.op = "BIT" -> BIT(s, v)
      [] ins.op = "CMP" -> CMP(s, v) [] ins.op = "CPX" -> CPX(s, v) [] ins.op = "CPY" -> CPY(s, v)
      [] ins.op = "LDA" -> LDA(s, v) [] ins.op = "LDX" -> LDX(s, v) [] ins.op = "LDY" -> LDY(s, v)
ByMemory(s, ins, v) ==
    CASE ins.op = "ASL" -> ASL(s, ins, v) [] ins.op = "LSR" -> LSR(s, ins, v)
      [] ins.op = "ROL" -> ROL(s, ins, v) [] ins.op = "ROR" -> ROR(s, ins, v)
      [] ins.op = "INC" -> INC(s, ins, v) [] ins.op = "DEC" -> DEC(s, ins, v)
Store(s, ins) ==
    CASE ins.op = "STA" -> STA(s, ins) [] ins.op = "STX" -> STX(s, ins) [] ins.op = "STY" -> STY(s, ins)
ByItself(s, op) ==
    CASE op = "TAX" -> TAX(s) [] op = "TAY" -> TAY(s) [] op = "TSX" -> TSX(s)
      [] op = "TXA" -> TXA(s) [] op = "TXS" -> TXS(s) [] op = "TYA" -> TYA(s)
      [] op = "INX" -> INX(s) [] op = "INY" -> INY(s) [] op = "DEX" -> DEX(s) [] op = "DEY" -> DEY(s)
      [] op = "PHA" -> PHA(s) [] op = "PHP" -> PHP(s) [] op = "PLA" -> PLA(s) [] op = "PLP" -> PLP(s)
      [] op \in DOMAIN ClearFlag -> SetOrClear(s, ClearFlag[op], FALSE)
      [] op \in DOMAIN SetFlag -> SetOrClear(s, SetFlag[op], TRUE)
      [] op = "NOP" -> s
Jump(s, ins) ==
    CASE ins.op = "JMP" -> JMP(s, ins) [] ins.op = "JSR" -> JSR(s, ins)
      [] ins.op = "RTS" -> RTS(s) [] ins.op = "RTI" -> RTI(s) [] ins.op = "BRK" -> BRK(s)
Taken(s, op) ==
    CASE op = "BCC" -> BCC(s) [] op = "BCS" -> BCS(s) [] op = "BEQ" -> BEQ(s) [] op = "BNE" -> BNE(s)
      [] op = "BMI" -> BMI(s) [] op = "BPL" -> BPL(s) [] op = "BVC" -> BVC(s) [] op = "BVS" -> BVS(s)

MCS6502ExecNext(s, ins) ==
    LET onward(t) == [t EXCEPT !.pc = (s.pc + LengthForInstruction(ins.mode)) % 65536] IN
    CASE ins.op \in {"JMP", "JSR", "RTS", "RTI", "BRK"} -> Jump(s, ins)
      [] ins.mode = "Relative" -> ExecuteConditionalBranch(s, ins, Taken(s, ins.op))
      [] ins.op \in {"STA", "STX", "STY"} -> onward(Store(s, ins))
      [] ins.op \in {"ASL", "LSR", "ROL", "ROR", "INC", "DEC"} -> onward(ByMemory(s, ins, Operand(s, ins)))
      [] ins.mode = "Implied" /\ ins.op \notin {"RTS", "RTI", "BRK"} -> onward(ByItself(s, ins.op))
      [] OTHER -> onward(ByRegister(s, ins, Operand(s, ins)))
=============================================================================
