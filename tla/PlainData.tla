------------------------------ MODULE PlainData ------------------------------
(***************************************************************************)
(* PlainData of an unsigned type (stdsc_plaindata.hpp) over BasicData: a    *)
(* vector saved as the bytes of a text, its length first, a line for each   *)
(* number, and loaded from bytes that need not be the whole of a text: a    *)
(* stream that ends anywhere, or goes on with zero bytes.                   *)
(***************************************************************************)
EXTENDS Integers, Sequences

Seqs == INSTANCE SequencesExt

\* Values of a variable that was not initialised.
CONSTANT Junk

ASSUME JunkAssumption == Junk \subseteq Nat /\ Junk # {}

-----------------------------------------------------------------------------
(***************************************************************************)
(* Numbers and bytes.                                                       *)
(***************************************************************************)

Nul     == 0      \* what an empty buffer is filled with
NewLine == 10
Zero    == 48

IsDigit(byte)   == byte \in Zero .. Zero + 9
IsNewLine(byte) == byte = NewLine

\* The decimal digits of a number.
numeral[n \in Nat] ==
    IF n < 10 THEN <<Zero + n>> ELSE Append(numeral[n \div 10], Zero + (n % 10))

\* ... and the number of some digits.
number(digits) == Seqs!FoldLeft(LAMBDA n, digit : 10 * n + (digit - Zero), 0, digits)

\* How many of the first bytes are of one kind.
Run(Kind(_), bytes) ==
    CHOOSE n \in 0 .. Len(bytes) :
        /\ \A k \in 1 .. n : Kind(bytes[k])
        /\ n = Len(bytes) \/ ~Kind(bytes[n + 1])

Drop(bytes, n) == SubSeq(bytes, n + 1, Len(bytes))

-----------------------------------------------------------------------------
(***************************************************************************)
(* Saving and loading.                                                      *)
(***************************************************************************)

Line(n)    == Append(numeral[n], NewLine)
Lines(vec) == Seqs!FlattenSeq([i \in DOMAIN vec |-> Line(vec[i])])

save_to_stream(vec) == IF vec = <<>> THEN <<>> ELSE Line(Len(vec)) \o Lines(vec)

stream_size(vec) == Len(save_to_stream(vec))

\* White space is skipped, digits are taken.
Text(is)     == Drop(is, Run(IsNewLine, is))
Digits(text) == SubSeq(text, 1, Run(IsDigit, text))

\* is >> v, v not initialised: the values v may have. A stream that fails before it has
\* a byte leaves v as it was; a byte that is no digit makes it 0.
values[is \in Seq(Nat)] == IF Text(is) = <<>> THEN Junk ELSE {number(Digits(Text(is)))}

\* ... and the bytes that are left to the next: none of a stream that is not good, because
\* there was no digit, or that came to its end, be it right behind the digits.
rest[is \in Seq(Nat)] ==
    IF Digits(Text(is)) = <<>> THEN <<>> ELSE Drop(Text(is), Len(Digits(Text(is))))

clear(vec) == <<>>

\* What start may be after sz has been extracted and then, sz times, v is extracted and
\* pushed back.
Loaded(start, bytes) ==
    LET is[i \in Nat] == IF i = 0 THEN bytes ELSE rest[is[i - 1]]
        vecs[i \in Nat] == IF i = 0 THEN {start}
                           ELSE {Append(x, v) : x \in vecs[i - 1], v \in values[is[i]]}
    IN  UNION {vecs[sz] : sz \in values[is[0]]}

\* Mutant of load_from_stream: the vector is not cleared.
load_keeping(vec, bytes) == Loaded(vec, bytes)

\* What the vector may be after a load.
load_from_stream(vec, bytes) == Loaded(clear(vec), bytes)

=============================================================================
