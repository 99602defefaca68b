------------------------------ MODULE HexLoad ------------------------------
(***************************************************************************)
(* The Intel HEX loader, load_obj() in core.c, one record a step, on files *)
(* that may have been damaged on their way, and loaded again after that.   *)
(* A file is what follows its first colon, two characters at a time: a     *)
(* byte, or the line feed and colon between two records, Eol.              *)
(***************************************************************************)
EXTENDS Integers, Sequences

CONSTANTS
  Programs,     \* what files are made from: sequences of records, addr and data
  DamageBytes,  \* what a byte of a file may become
  MaxLoads      \* bound: files loaded

Bytes == 0..255

\* Records that end within code memory wherever they start.
Records == {r \in [addr : 0..65279, data : Seq(Bytes)] : Len(r.data) <= 255}

ASSUME HexAssumption ==
  Programs \subseteq Seq(Records) /\ DamageBytes \subseteq Bytes /\ MaxLoads \in Nat

VARIABLES
  file,      \* the file, and its program
  damage,    \* "none", "frame" for a length or a type, "byte" for any other, "cut"
  hexpos,    \* units read
  hexcode,   \* mCodeMem where loads wrote
  result,    \* of load_obj, 1 while it runs
  loads

hexvars == <<file, damage, hexpos, hexcode, result, loads>>

Eol == 256
Reading == 1

-----------------------------------------------------------------------------
(* Files.                                                                  *)

Total(bytes) ==      \* their sum
  LET upto[n \in 0..Len(bytes)] == IF n = 0 THEN 0 ELSE upto[n - 1] + bytes[n]
  IN  upto[Len(bytes)]

Line(r) ==
  LET bytes == <<Len(r.data), r.addr \div 256, r.addr % 256, 0>> \o r.data
  IN  bytes \o <<(256 - (Total(bytes) % 256)) % 256, Eol>>

Text(program) ==     \* the records, then the end record
  LET upto[n \in 0..Len(program)] == IF n = 0 THEN <<>> ELSE upto[n - 1] \o Line(program[n])
  IN  upto[Len(program)] \o <<0, 0, 0, 1, 255>>

\* The units of a text that say how long a record is, or of what type.
FramingUnits(text) ==
  {i \in DOMAIN text : \E first \in {1} \cup {j + 1 : j \in {k \in DOMAIN text : text[k] = Eol}} :
     i \in {first, first + 3}}

Cut(text, n, half) ==
  IF half THEN SubSeq(text, 1, n) \o (IF text[n + 1] = Eol THEN <<>> ELSE <<text[n + 1] \div 16>>)
  ELSE SubSeq(text, 1, n)

-----------------------------------------------------------------------------
(* load_obj.                                                               *)

At(i) == IF i \in DOMAIN file.text /\ file.text[i] # Eol THEN file.text[i] ELSE 0   \* readbyte

\* The byte that completes the sum, 256 left as it is.
CompletingWhole(sum) == 256 - (sum % 256)

Completing(sum) == (256 - (sum % 256)) % 256

Returns(r) == result' = r /\ UNCHANGED hexpos

EndRecord ==
  /\ At(hexpos + 4) = 1
  /\ Returns(0)
  /\ UNCHANGED hexcode

OtherRecord ==
  /\ At(hexpos + 4) \notin {0, 1}
  /\ Returns(-3)
  /\ UNCHANGED hexcode

(* The bytes are written as they are read, the sum is compared after.      *)
DataRecord ==
  LET length == At(hexpos + 1)
      addr   == 256 * At(hexpos + 2) + At(hexpos + 3)
      last   == hexpos + 4 + length
      sum    == Total([i \in 1..(4 + length) |-> At(hexpos + i)])
      eols   == {i \in DOMAIN file.text : i > last + 1 /\ file.text[i] = Eol}
  IN  /\ At(hexpos + 4) = 0
      /\ hexcode' = [a \in DOMAIN hexcode \cup (addr..(addr + length - 1)) |->
                       IF a \in addr..(addr + length - 1) THEN At(hexpos + 5 + a - addr)
                       ELSE hexcode[a]]
      /\ IF At(last + 1) # Completing(sum) THEN Returns(-4)
         ELSE IF eols = {} THEN Returns(-5)
         ELSE /\ hexpos' = CHOOSE i \in eols : \A j \in eols : i <= j
              /\ UNCHANGED result

Record ==
  /\ result = Reading
  /\ EndRecord \/ OtherRecord \/ DataRecord
  /\ UNCHANGED <<file, damage, loads>>

Opened(program, text) ==
  /\ file' = [text |-> text, program |-> program]
  /\ hexpos' = 0 /\ result' = Reading
  /\ UNCHANGED hexcode

Load ==              \* a file as it was made, altered in a byte, or cut short
  /\ result # Reading /\ loads < MaxLoads
  /\ loads' = loads + 1
  /\ \E program \in Programs :
       LET text == Text(program)
       IN  \/ Opened(program, text) /\ damage' = "none"
           \/ \E i \in {j \in DOMAIN text : text[j] # Eol}, b \in DamageBytes :
                /\ b # text[i]
                /\ Opened(program, [text EXCEPT ![i] = b])
                /\ damage' = IF i \in FramingUnits(text) THEN "frame" ELSE "byte"
           \/ \E n \in 0..(Len(text) - 1), half \in BOOLEAN :
                Opened(program, Cut(text, n, half)) /\ damage' = "cut"

LoadOther ==         \* no file, or no HEX file
  /\ result # Reading /\ loads < MaxLoads
  /\ loads' = loads + 1
  /\ result' \in {-1, -2}
  /\ UNCHANGED <<file, damage, hexpos, hexcode>>

HexInit ==
  /\ file = [text |-> <<>>, program |-> <<>>] /\ damage = "none"
  /\ hexpos = 0 /\ hexcode = <<>> /\ result = -1 /\ loads = 0

HexNext == Record \/ Load \/ LoadOther

HexSpec == HexInit /\ [][HexNext]_hexvars

-----------------------------------------------------------------------------
Cells(r) == r.addr..(r.addr + Len(r.data) - 1)

(* The first n records are in code memory, where they overlap the latest.  *)
Stored(program, n) ==
  \A i \in 1..n : \A k \in DOMAIN program[i].data :
    LET a == program[i].addr + k - 1
    IN  \/ \E later \in i + 1..n : a \in Cells(program[later])
        \/ a \in DOMAIN hexcode /\ hexcode[a] = program[i].data[k]

Whole == Stored(file.program, Len(file.program))

(***************************************************************************)
(* A file that is whole is accepted, and one that is accepted has left its *)
(* whole program in code memory, over whatever refused files left there:   *)
(* no altered byte and no cut gets past the checksums, unless it is a      *)
(* length or a type: a type altered to 1 ends the load with 0 at once.     *)
(***************************************************************************)
LoadTellsTheTruth ==
  /\ result \in {-3, -4, -5} => damage # "none"
  /\ result = 0 /\ damage # "frame" => Whole

=============================================================================
