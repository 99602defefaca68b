------------------------------- MODULE MCIsa -------------------------------
(***************************************************************************)
(* Small programs for Isa: each is loaded at an address, started on chosen *)
(* bytes and run to its end, where memory is compared with what arithmetic *)
(* on numbers (not on bits and flags) says the program must leave.         *)
(***************************************************************************)
EXTENDS Disasm, TLC

CONSTANTS
  Sample,     \* bytes the operands are drawn from
  Origins     \* where the programs that jump are loaded

VARIABLE prog   \* what is being run: kind, its bytes' count, start and goal

mcvars == <<vars, prog>>

Cell == 48      \* a direct address
Flags == 38     \* the byte of bit addresses 48..55

Base ==
  [p \in 0..10 \cup {Flags, Cell, 126, 127, 256 + 128, 256 + 129} |-> 0]
    @@ (P1 :> 255 @@ SP :> 8 @@ DPL :> 64 @@ DPH :> 0 @@ PSW :> 0 @@ ACC :> 0 @@ B :> 0)

\* The flags c, ac, ov with the parity of a.
Psw(c, ac, ov, a) == 128 * c + 64 * ac + 4 * ov + Parity(a)

(* Loads text at address at, starts it on memory start.                    *)
Load(kind, at, text, start, goal) ==
  /\ code = [p \in {(at + i - 1) % CodeSize : i \in DOMAIN text} |->
               text[1 + ((p + CodeSize - at) % CodeSize)]]
  /\ mem = start @@ Base
  /\ prog = [kind |-> kind, at |-> at, end |-> (at + Len(text)) % 65536, start |-> mem, goal |-> goal]
  /\ pc = at

Undriven == pins = [mask |-> 0, level |-> 0]

-----------------------------------------------------------------------------
Bcd(n) == 16 * (n \div 10) + (n % 10)

DecimalSums ==
  \E x, y \in 0..99, c \in {0, 1} :
    LET r == Bcd((x + y + c) % 100)
    IN  Load("decimal", 0, <<52, Bcd(y), 212>>,
             ACC :> Bcd(x) @@ PSW :> Psw(c, 0, 0, Bcd(x)),
             [p \in {ACC} |-> r])

Signed(x) == IF x > 127 THEN x - 256 ELSE x

(* The operand columns of the table: the operand y goes where the column   *)
(* finds it.                                                               *)
At(column, y) ==
  CASE column = 4 -> <<>>
    [] column = 5 -> Cell :> y
    [] column \in {6, 7} -> (column - 6) :> Cell @@ Cell :> y
    [] column > 7 -> (column - 8) :> y

Bytes(op1, column, y) ==
  CASE column = 4 -> <<16 * op1 + 4, y>>
    [] column = 5 -> <<16 * op1 + 5, Cell>>
    [] column > 5 -> <<16 * op1 + column>>

Sums ==
  \E x, y \in Sample, c \in {0, 1}, row \in {2, 3, 9}, column \in 4..15 :
    LET in  == IF row = 2 THEN 0 ELSE c
        s   == IF row = 9 THEN -1 ELSE 1
        r   == x + s * (y + in)
        sg  == Signed(x) + s * (Signed(y) + in)
        dig == (x % 16) + s * ((y % 16) + in)
        out == r % 256
    IN  Load("flags", 0, Bytes(row, column, y),
             ACC :> x @@ PSW :> Psw(c, 1 - c, c, x) @@ At(column, y),
             ACC :> out @@
             PSW :> Psw(Flag(r # out), Flag(dig \notin 0..15), Flag(sg \notin -128..127), out))

-----------------------------------------------------------------------------
(* Programs that undo themselves: nothing but the cells of the stack they  *)
(* pushed to may differ at the end.                                        *)
Undone ==
  { <<3, 35>>, <<19, 51>>, <<196, 196>>, <<244, 244>>, <<179, 179>>,       \* rotations, SWAP, CPL
    <<3, 3, 3, 3, 3, 3, 3, 3>>, <<51, 51, 51, 51, 51, 51, 51, 51, 51>>,
    <<197, Cell, 197, Cell>>, <<198, 198>>, <<202, 202>>,                  \* XCH
    <<214, 214>>, <<215, 198, 215, 198>>,                             \* XCHD
    <<5, Cell, 21, Cell>>, <<6, 22>>, <<10, 26>>, <<4, 20>>,               \* INC, DEC
    <<100, 90, 100, 90>>, <<98, Cell, 98, Cell>>, <<99, Cell, 77, 99, Cell, 77>>,
    <<178, 50, 178, 50>>, <<178, 215, 178, 215>>,                          \* CPL bit
    <<192, Cell, 117, Cell, 3, 208, Cell, 229, ACC>>, <<192, ACC, 228, 208, ACC>>,  \* PUSH, POP
    <<192, ACC, 192, PSW, 36, 200, 208, PSW, 208, ACC>>,
    <<250, 138, Cell, 228, 229, Cell>>, <<246, 228, 230>>, <<246, 166, ACC, 134, 2, 234>>,                               \* MOV there and back
    <<240, 228, 224>>, <<242, 228, 226>> }                                 \* MOVX

Inverses ==
  \E text \in Undone, x \in Sample, c \in {0, 1}, sp \in {8, 126, 127} :
    LET m == ACC :> x @@ PSW :> Psw(c, 0, 0, x) @@ SP :> sp @@ 2 :> 7 @@ 0 :> Cell @@
             1 :> Cell @@ Cell :> (x * 7) % 256
        scratch == IF text[1] \in {246, 250} THEN {2, Cell} ELSE {}
    IN  Load("undone", 0, text, m,
             [p \in {ACC, PSW, SP, DPL, DPH, B, P1, 0, 1, 2, Flags, Cell} \ scratch |->
                (m @@ Base)[p]])

Divided ==           \* (x / y) * y + x % y
  \E x \in Sample, y \in Sample \ {0} :
    Load("undone", 0, <<132, 170, B, 117, B, y, 164, 42>>,
         ACC :> x @@ B :> y @@ PSW :> Psw(1, 0, 1, x), [p \in {ACC} |-> x])

(* Calls that come back and jumps over an illegal byte.                    *)
Journeys ==
  \E at \in Origins :
    LET to(n)  == (at + n) % 65536
        hi(n)  == to(n) \div 256
        lo(n)  == to(n) % 256
        page(n) == 32 * ((to(n) \div 256) % 8)
        m == 7 :> 9 @@ SP :> 126 @@ DPH :> hi(0) @@ DPL :> lo(0)
        same == [p \in {ACC, PSW, SP, 7} |-> (m @@ Base)[p]]
    IN  \E text \in {<<18, hi(5), lo(5), 128, 1, 34>>,      \* LCALL, SJMP, RET
                     <<17 + page(4), lo(4), 128, 1, 50>>,   \* ACALL, SJMP, RETI
                     <<1 + page(3), lo(3), 165>>,           \* AJMP
                     <<2, hi(4), lo(4), 165>>,              \* LJMP
                     <<96, 3, 165, 128, 4, 112, 251, 80, 250>>} :  \* JZ, JNZ, JNC, SJMP
          Load("undone", at, text, m, same)

-----------------------------------------------------------------------------
(* R2 or A at the end: 0, 1 or 2 for x less than, equal to, above y.       *)
Compared ==
  \E x, y \in Sample, column \in {4, 5, 6, 7, 8, 11, 15} :
    LET direct == IF column = 5 THEN Cell ELSE IF column = 4 THEN y ELSE y
        m == IF column \in {4, 5} THEN ACC :> x @@ Cell :> y @@ PSW :> Parity(x)
             ELSE At(column, x)
    IN  Load("compared", 0,
             <<176 + column, direct, 4, 116, 1, 128, 8,      \* CJNE; MOV A,#1; SJMP
               64, 4, 116, 2, 128, 2, 116, 0>>,              \* JC; MOV A,#2; SJMP; MOV A,#0
             m, [p \in {ACC} |-> IF x < y THEN 0 ELSE IF x = y THEN 1 ELSE 2])

(* INC DPTR under a DJNZ of n: DPTR counts the rounds, 256 for n = 0.      *)
Loops ==
  \E n \in {0, 1, 2, 17, 255}, text \in {<<163, 223, 253>>, <<163, 213, Cell, 252>>} :
    LET rounds == IF n = 0 THEN 256 ELSE n
    IN  Load("loop", 0, text, 7 :> n @@ Cell :> n @@ DPH :> 1 @@ DPL :> 250,
             7 :> (IF Len(text) = 3 THEN 0 ELSE n) @@
             DPH :> (506 + rounds) \div 256 @@ DPL :> (506 + rounds) % 256)

(* C := (C ? b0) ? b1, moved to b2.                                        *)
Logic ==
  \E c, b0, b1, b2 \in {0, 1}, first \in {114, 130, 160, 176}, second \in {114, 130, 160, 176} :
    LET step(o, p, q) ==
          CASE o = 114 -> Flag(p = 1 \/ q = 1) [] o = 130 -> p * q
            [] o = 160 -> Flag(p = 1 \/ q = 0) [] o = 176 -> p * (1 - q)
        r == step(second, step(first, c, b0), b1)
    IN  Load("logic", 0, <<first, Cell, second, Cell + 1, 146, Cell + 2>>,
             PSW :> Psw(c, 1, 0, 0) @@ Flags :> 8 + b0 + 2 * b1 + 4 * b2,
             PSW :> Psw(r, 1, 0, 0) @@ Flags :> 8 + b0 + 2 * b1 + 4 * r)

(* One instruction that changes bit k of a driven port.                    *)
PortBits ==
  \E latch \in {255, 165, 0}, mask \in {240, 129}, level \in {0, 144}, k \in {0, 4, 7},
     c \in {0, 1}, o \in {16, 146, 178, 194, 210} :
    LET was == (latch \div 2^k) % 2
        now == CASE o = 146 -> c [] o = 178 -> 1 - was [] o = 210 -> 1 [] OTHER -> 0
    IN  /\ pins = [mask |-> mask, level |-> level]
        /\ Load("port", 0, <<o, P1 + k>> \o (IF o = 16 THEN <<0>> ELSE <<>>),
                P1 :> latch @@ PSW :> Psw(c, 0, 0, 0), P1 :> latch + (now - was) * 2^k)

(* Every opcode once.                                                      *)
Singles ==
  \E o \in Byte, at \in Origins, x \in {0, 255} :
    Load("single", at, <<o, Cell, Cell, 0>>, ACC :> x @@ SP :> 7 @@ 7 :> 9 @@ 0 :> Cell @@ 1 :> 127, <<>>)

-----------------------------------------------------------------------------
MCInit ==
  /\ faults = {}
  /\ ext = [a \in 0..ExtSize - 1 |-> 0]
  /\ \/ PortBits
     \/ /\ Undriven
        /\ \/ DecimalSums \/ Sums \/ Inverses \/ Divided \/ Journeys
           \/ Compared \/ Loops \/ Logic \/ Singles
  /\ told = mem[P1]

Ended == IF prog.kind = "single" THEN pc # prog.at
         ELSE pc = prog.end

MCNext == ~Ended /\ Instruction /\ UNCHANGED prog

MCSpec == MCInit /\ [][MCNext]_mcvars

Reaches(kind) ==
  prog.kind = kind /\ Ended => \A p \in DOMAIN prog.goal : mem[p] = prog.goal[p]

-----------------------------------------------------------------------------
(***************************************************************************)
(* Small programs compute what they are written for: ADDC and DA A add     *)
(* packed decimals, sums in every addressing mode leave what the numbers   *)
(* say, CJNE followed by JC takes the branch of the three that comparing   *)
(* unsigned bytes calls for, a DJNZ loop over INC DPTR runs as often as    *)
(* its counter says, 256 times for a zero, bit instructions evaluate       *)
(* Boolean expressions, one on a driven port changes its bit of the latch  *)
(* and nothing else, instructions that undo each other restore registers,  *)
(* flags and memory, and calls return, across the edges of pages, of       *)
(* memory and of the address space.                                        *)
(***************************************************************************)
ProgramsCompute ==
  /\ \A kind \in {"decimal", "flags", "compared", "loop", "logic", "port", "undone"} : Reaches(kind)
  /\ prog.kind = "decimal" /\ Ended =>
       LET n(v) == 10 * (v \div 16) + (v % 16)
       IN  100 * Carry + n(A) = n(prog.start[ACC]) + n(Code(1)) + Bit(prog.start[PSW], 7)
  /\ prog.kind = "undone" => "ILLEGAL_OPCODE" \notin faults

=============================================================================
