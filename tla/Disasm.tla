------------------------------- MODULE Disasm -------------------------------
(***************************************************************************)
(* The listing of disasm.c, next to the instructions it lists: for every   *)
(* opcode the verb and the kinds of its operands as the text has them, how *)
(* many bytes the listing goes on by, and the jump target it shows.        *)
(***************************************************************************)
EXTENDS Isa

(* Columns 0 to 7 of two rows of the table at a time; "mem" is a direct    *)
(* byte, "rel" an offset, "page" the target of AJMP and ACALL.             *)

Rows01 ==
  << <<"NOP">>, <<"AJMP", "page">>, <<"LJMP", "addr16">>, <<"RR", "A">>,
     <<"INC", "A">>, <<"INC", "mem">>, <<"INC", "@Ri">>, <<"INC", "@Ri">>,
     <<"JBC", "bit", "rel">>, <<"ACALL", "page">>, <<"LCALL", "addr16">>, <<"RRC", "A">>,
     <<"DEC", "A">>, <<"DEC", "mem">>, <<"DEC", "@Ri">>, <<"DEC", "@Ri">> >>

Rows23 ==
  << <<"JB", "bit", "rel">>, <<"AJMP", "page">>, <<"RET">>, <<"RL", "A">>,
     <<"ADD", "A", "imm">>, <<"ADD", "A", "mem">>, <<"ADD", "A", "@Ri">>, <<"ADD", "A", "@Ri">>,
     <<"JNB", "bit", "rel">>, <<"ACALL", "page">>, <<"RETI">>, <<"RLC", "A">>,
     <<"ADDC", "A", "imm">>, <<"ADDC", "A", "mem">>, <<"ADDC", "A", "@Ri">>, <<"ADDC", "A", "@Ri">> >>

Rows45 ==
  << <<"JC", "rel">>, <<"AJMP", "page">>, <<"ORL", "mem", "A">>, <<"ORL", "mem", "imm">>,
     <<"ORL", "A", "imm">>, <<"ORL", "A", "mem">>, <<"ORL", "A", "@Ri">>, <<"ORL", "A", "@Ri">>,
     <<"JNC", "rel">>, <<"ACALL", "page">>, <<"ANL", "mem", "A">>, <<"ANL", "mem", "imm">>,
     <<"ANL", "A", "imm">>, <<"ANL", "A", "mem">>, <<"ANL", "A", "@Ri">>, <<"ANL", "A", "@Ri">> >>

Rows67 ==
  << <<"JZ", "rel">>, <<"AJMP", "page">>, <<"XRL", "mem", "A">>, <<"XRL", "mem", "imm">>,
     <<"XRL", "A", "imm">>, <<"XRL", "A", "mem">>, <<"XRL", "A", "@Ri">>, <<"XRL", "A", "@Ri">>,
     <<"JNZ", "rel">>, <<"ACALL", "page">>, <<"ORL", "C", "bit">>, <<"JMP", "@A+DPTR">>,
     <<"MOV", "A", "imm">>, <<"MOV", "mem", "imm">>, <<"MOV", "@Ri", "imm">>, <<"MOV", "@Ri", "imm">> >>

Rows89 ==
  << <<"SJMP", "rel">>, <<"AJMP", "page">>, <<"ANL", "C", "bit">>, <<"MOVC", "A", "@A+PC">>,
     <<"DIV", "AB">>, <<"MOV", "mem", "mem">>, <<"MOV", "mem", "@Ri">>, <<"MOV", "mem", "@Ri">>,
     <<"MOV", "DPTR", "imm16">>, <<"ACALL", "page">>, <<"MOV", "bit", "C">>, <<"MOVC", "A", "@A+DPTR">>,
     <<"SUBB", "A", "imm">>, <<"SUBB", "A", "mem">>, <<"SUBB", "A", "@Ri">>, <<"SUBB", "A", "@Ri">> >>

RowsAB ==
  << <<"ORL", "C", "/bit">>, <<"AJMP", "page">>, <<"MOV", "C", "bit">>, <<"INC", "DPTR">>,
     <<"MUL", "AB">>, <<"??UNKNOWN">>, <<"MOV", "@Ri", "mem">>, <<"MOV", "@Ri", "mem">>,
     <<"ANL", "C", "/bit">>, <<"ACALL", "page">>, <<"CPL", "bit">>, <<"CPL", "C">>,
     <<"CJNE", "A", "imm", "rel">>, <<"CJNE", "A", "mem", "rel">>,
     <<"CJNE", "@Ri", "imm", "rel">>, <<"CJNE", "@Ri", "imm", "rel">> >>

RowsCD ==
  << <<"PUSH", "mem">>, <<"AJMP", "page">>, <<"CLR", "bit">>, <<"CLR", "C">>,
     <<"SWAP", "A">>, <<"XCH", "A", "mem">>, <<"XCH", "A", "@Ri">>, <<"XCH", "A", "@Ri">>,
     <<"POP", "mem">>, <<"ACALL", "page">>, <<"SETB", "bit">>, <<"SETB", "C">>,
     <<"DA", "A">>, <<"DJNZ", "mem", "rel">>, <<"XCHD", "A", "@Ri">>, <<"XCHD", "A", "@Ri">> >>

RowsEF ==
  << <<"MOVX", "A", "@DPTR">>, <<"AJMP", "page">>, <<"MOVX", "A", "@Ri">>, <<"MOVX", "A", "@Ri">>,
     <<"CLR", "A">>, <<"MOV", "A", "mem">>, <<"MOV", "A", "@Ri">>, <<"MOV", "A", "@Ri">>,
     <<"MOVX", "@DPTR", "A">>, <<"ACALL", "page">>, <<"MOVX", "@Ri", "A">>, <<"MOVX", "@Ri", "A">>,
     <<"CPL", "A">>, <<"MOV", "mem", "A">>, <<"MOV", "@Ri", "A">>, <<"MOV", "@Ri", "A">> >>

(* Columns 8 to 15, by row.                                                *)
Registers ==
  << <<"INC", "Rn">>, <<"DEC", "Rn">>, <<"ADD", "A", "Rn">>, <<"ADDC", "A", "Rn">>,
     <<"ORL", "A", "Rn">>, <<"ANL", "A", "Rn">>, <<"XRL", "A", "Rn">>, <<"MOV", "Rn", "imm">>,
     <<"MOV", "mem", "Rn">>, <<"SUBB", "A", "Rn">>, <<"MOV", "Rn", "mem">>,
     <<"CJNE", "Rn", "imm", "rel">>, <<"XCH", "A", "Rn">>, <<"DJNZ", "Rn", "rel">>,
     <<"MOV", "A", "Rn">>, <<"MOV", "Rn", "A">> >>

Text ==              \* disasm_setptrs
  LET pairs == <<Rows01, Rows23, Rows45, Rows67, Rows89, RowsAB, RowsCD, RowsEF>>
  IN  [o \in Byte |-> IF o % 16 > 7 THEN Registers[1 + o \div 16]
                      ELSE pairs[1 + o \div 32][1 + 8 * ((o \div 16) % 2) + (o % 8)]]

Has(o, kind) == \E i \in 2..Len(Text[o]) : Text[o][i] = kind

(* What a line tells apart beyond its words: the register's number, the    *)
(* page of an absolute target.                                             *)
Line(o) ==
  <<Text[o], IF Has(o, "@Ri") THEN o % 2 ELSE IF Has(o, "Rn") THEN o % 8
             ELSE IF Has(o, "page") THEN o \div 32 ELSE 0>>

\* MOV DPTR taken for two bytes.
BytesOfShort(kind) == IF kind \in {"mem", "imm", "bit", "/bit", "rel", "page", "imm16"} THEN 1
                      ELSE IF kind = "addr16" THEN 2 ELSE 0

(* Operand bytes of a kind: each function returns one more than its own.   *)
BytesOf(kind) == IF kind \in {"mem", "imm", "bit", "/bit", "rel", "page"} THEN 1
                 ELSE IF kind \in {"addr16", "imm16"} THEN 2 ELSE 0

ListedLen(o) ==
  LET sum[i \in 1..Len(Text[o])] == IF i = 1 THEN 1 ELSE sum[i - 1] + BytesOf(Text[o][i])
  IN  sum[Len(Text[o])]

(* The target on the line, absolute or "+n" from the next line.            *)
ListedTarget(p) ==
  LET o == Code(p)
      next == p + ListedLen(o)
  IN  CASE Has(o, "page") -> {((p + 2) \div 2048) * 2048 + 256 * (o \div 32) + Code(p + 1)}
        [] Has(o, "addr16") -> {256 * Code(p + 1) + Code(p + 2)}
        [] Has(o, "rel") -> {next + Rel(Code(next - 1))}
        [] OTHER -> {}

(***************************************************************************)
(* The listing follows the program: wherever an instruction leads, unless  *)
(* it returns or jumps by A and DPTR, is the next line or the target its   *)
(* line shows, and no other opcode has the same line.                      *)
(***************************************************************************)
ListingFollows ==
  [][/\ op \in {34, 50, 115} \/
          pc' \in {p % 65536 : p \in {pc + ListedLen(op)} \cup ListedTarget(pc)}
     /\ \A o \in Byte \ {op} : Line(o) # Line(op)]_vars

=============================================================================
