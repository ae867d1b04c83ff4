------------------------------ MODULE Opcodes ------------------------------
(***************************************************************************)
(* The two tables of opcodes: MCS6502Instructions, from which the CPU      *)
(* decodes (machine/MCS6502.c), and valid_opcode_table, from which the     *)
(* MMU's watchdog tells the opcodes user code may run (machine.c).         *)
(***************************************************************************)
EXTENDS Integers, Sequences, FiniteSets

MCS6502Instructions ==
    [ADC |-> [Immediate |-> \h69, ZeroPage |-> \h65, ZeroPageX |-> \h75, Absolute |-> \h6D,
        AbsoluteX |-> \h7D, AbsoluteY |-> \h79, XIndirect |-> \h61, IndirectY |-> \h71],
     AND |-> [Immediate |-> \h29, ZeroPage |-> \h25, ZeroPageX |-> \h35, Absolute |-> \h2D,
        AbsoluteX |-> \h3D, AbsoluteY |-> \h39, XIndirect |-> \h21, IndirectY |-> \h31],
     ASL |-> [Accumulator |-> \h0A, ZeroPage |-> \h06, ZeroPageX |-> \h16, Absolute |-> \h0E,
        AbsoluteX |-> \h1E], BCC |-> [Relative |-> \h90], BCS |-> [Relative |-> \hB0],
     BEQ |-> [Relative |-> \hF0], BIT |-> [ZeroPage |-> \h24, Absolute |-> \h2C],
     BMI |-> [Relative |-> \h30], BNE |-> [Relative |-> \hD0], BPL |-> [Relative |-> \h10],
     BRK |-> [Implied |-> \h00], BVC |-> [Relative |-> \h50], BVS |-> [Relative |-> \h70],
     CLC |-> [Implied |-> \h18], CLD |-> [Implied |-> \hD8], CLI |-> [Implied |-> \h58],
     CLV |-> [Implied |-> \hB8],
     CMP |-> [Immediate |-> \hC9, ZeroPage |-> \hC5, ZeroPageX |-> \hD5, Absolute |-> \hCD,
        AbsoluteX |-> \hDD, AbsoluteY |-> \hD9, XIndirect |-> \hC1, IndirectY |-> \hD1],
     CPX |-> [Immediate |-> \hE0, ZeroPage |-> \hE4, Absolute |-> \hEC],
     CPY |-> [Immediate |-> \hC0, ZeroPage |-> \hC4, Absolute |-> \hCC],
     DEC |-> [ZeroPage |-> \hC6, ZeroPageX |-> \hD6, Absolute |-> \hCE, AbsoluteX |-> \hDE],
     DEX |-> [Implied |-> \hCA], DEY |-> [Implied |-> \h88],
     EOR |-> [Immediate |-> \h49, ZeroPage |-> \h45, ZeroPageX |-> \h55, Absolute |-> \h4D,
        AbsoluteX |-> \h5D, AbsoluteY |-> \h59, XIndirect |-> \h41, IndirectY |-> \h51],
     INC |-> [ZeroPage |-> \hE6, ZeroPageX |-> \hF6, Absolute |-> \hEE, AbsoluteX |-> \hFE],
     INX |-> [Implied |-> \hE8], INY |-> [Implied |-> \hC8],
     JMP |-> [Absolute |-> \h4C, Indirect |-> \h6C], JSR |-> [Absolute |-> \h20],
     LDA |-> [Immediate |-> \hA9, ZeroPage |-> \hA5, ZeroPageX |-> \hB5, Absolute |-> \hAD,
        AbsoluteX |-> \hBD, AbsoluteY |-> \hB9, XIndirect |-> \hA1, IndirectY |-> \hB1],
     LDX |-> [Immediate |-> \hA2, ZeroPage |-> \hA6, ZeroPageY |-> \hB6, Absolute |-> \hAE,
        AbsoluteY |-> \hBE],
     LDY |-> [Immediate |-> \hA0, ZeroPage |-> \hA4, ZeroPageX |-> \hB4, Absolute |-> \hAC,
        AbsoluteX |-> \hBC],
     LSR |-> [Accumulator |-> \h4A, ZeroPage |-> \h46, ZeroPageX |-> \h56, Absolute |-> \h4E,
        AbsoluteX |-> \h5E], NOP |-> [Implied |-> \hEA],
     ORA |-> [Immediate |-> \h09, ZeroPage |-> \h05, ZeroPageX |-> \h15, Absolute |-> \h0D,
        AbsoluteX |-> \h1D, AbsoluteY |-> \h19, XIndirect |-> \h01, IndirectY |-> \h11],
     PHA |-> [Implied |-> \h48], PHP |-> [Implied |-> \h08], PLA |-> [Implied |-> \h68],
     PLP |-> [Implied |-> \h28],
     ROL |-> [Accumulator |-> \h2A, ZeroPage |-> \h26, ZeroPageX |-> \h36, Absolute |-> \h2E,
        AbsoluteX |-> \h3E],
     ROR |-> [Accumulator |-> \h6A, ZeroPage |-> \h66, ZeroPageX |-> \h76, Absolute |-> \h6E,
        AbsoluteX |-> \h7E], RTI |-> [Implied |-> \h40], RTS |-> [Implied |-> \h60],
     SBC |-> [Immediate |-> \hE9, ZeroPage |-> \hE5, ZeroPageX |-> \hF5, Absolute |-> \hED,
        AbsoluteX |-> \hFD, AbsoluteY |-> \hF9, XIndirect |-> \hE1, IndirectY |-> \hF1],
     SEC |-> [Implied |-> \h38], SED |-> [Implied |-> \hF8], SEI |-> [Implied |-> \h78],
     STA |-> [ZeroPage |-> \h85, ZeroPageX |-> \h95, Absolute |-> \h8D, AbsoluteX |-> \h9D,
        AbsoluteY |-> \h99, XIndirect |-> \h81, IndirectY |-> \h91],
     STX |-> [ZeroPage |-> \h86, ZeroPageY |-> \h96, Absolute |-> \h8E],
     STY |-> [ZeroPage |-> \h84, ZeroPageX |-> \h94, Absolute |-> \h8C],
     TAX |-> [Implied |-> \hAA], TAY |-> [Implied |-> \hA8], TSX |-> [Implied |-> \hBA],
     TXA |-> [Implied |-> \h8A], TXS |-> [Implied |-> \h9A], TYA |-> [Implied |-> \h98]]

\* Rows by high digit, columns by low digit.
valid_opcode_table ==
    <<<<1, 1, 0, 0, 0, 1, 1, 0, 1, 1, 1, 0, 0, 1, 1, 0>>,
      <<1, 1, 0, 0, 0, 1, 1, 0, 1, 1, 0, 0, 0, 1, 1, 0>>,
      <<1, 1, 0, 0, 1, 1, 1, 0, 1, 1, 1, 0, 1, 1, 1, 0>>,
      <<1, 1, 0, 0, 0, 1, 1, 0, 1, 1, 0, 0, 0, 1, 1, 0>>,
      <<1, 1, 0, 0, 0, 1, 1, 0, 1, 1, 1, 0, 1, 1, 1, 0>>,
      <<1, 1, 0, 0, 0, 1, 1, 0, 1, 1, 0, 0, 0, 1, 1, 0>>,
      <<1, 1, 0, 0, 0, 1, 1, 0, 1, 1, 1, 0, 1, 1, 1, 0>>,
      <<1, 1, 0, 0, 0, 1, 1, 0, 1, 1, 0, 0, 0, 1, 1, 0>>,
      <<0, 1, 0, 0, 1, 1, 1, 0, 1, 0, 1, 0, 1, 1, 1, 0>>,
      <<1, 1, 0, 0, 1, 1, 1, 0, 1, 1, 1, 0, 0, 1, 0, 0>>,
      <<1, 1, 1, 0, 1, 1, 1, 0, 1, 1, 1, 0, 1, 1, 1, 0>>,
      <<1, 1, 0, 0, 1, 1, 1, 0, 1, 1, 1, 0, 1, 1, 1, 0>>,
      <<1, 1, 0, 0, 1, 1, 1, 0, 1, 1, 1, 0, 1, 1, 1, 0>>,
      <<1, 1, 0, 0, 0, 1, 1, 0, 1, 1, 0, 0, 0, 1, 1, 0>>,
      <<1, 1, 0, 0, 1, 1, 1, 0, 1, 1, 1, 0, 1, 1, 1, 0>>,
      <<1, 1, 0, 0, 0, 1, 1, 0, 1, 1, 0, 0, 0, 1, 1, 0>>>>

ValidOpcode(o) == valid_opcode_table[(o \div 16) + 1][(o % 16) + 1] = 1

-----------------------------------------------------------------------------
Pairs == UNION {{<<op, mode>> : mode \in DOMAIN MCS6502Instructions[op]}
                : op \in DOMAIN MCS6502Instructions}
OpcodeOf(pair) == MCS6502Instructions[pair[1]][pair[2]]

\* The watchdog lets through exactly the opcodes the CPU decodes, and no two
\* instructions share one: an opcode only the watchdog knows would end the
\* emulation (CPU_step() stops at an invalid opcode), one only the CPU knows
\* would end the process that uses it. There are no variables in this: TLC
\* evaluates it at the start of a run.
ASSUME TablesAgree ==
    /\ {o \in 0 .. 255 : ValidOpcode(o)} = {OpcodeOf(pair) : pair \in Pairs}
    /\ \A q, r \in Pairs : OpcodeOf(q) = OpcodeOf(r) => q = r
=============================================================================
