----------------------------- MODULE Formatting -----------------------------
(***************************************************************************)
(* hlib::format_to and to_chars: a format string is copied up to a brace,  *)
(* the argument is converted digit by digit, from its last one, into a     *)
(* buffer on the stack, and the buffer is printed up to its terminator.    *)
(*                                                                         *)
(* A digit is its value, a character of a text anything else.              *)
(***************************************************************************)
EXTENDS Integers, Sequences, SequencesExt

CONSTANTS
    Bits,     \* of int32_t, uint32_t and size_t
    NUL, minus, dot,   \* the terminator, and the characters that are no digits
    Unit,     \* fractions are multiples of 1 / Unit, which a float holds
    Precision,    \* of a float, if the format has none (3)
    FloatRoom,    \* the characters of a float (11)
    Calls     \* the calls of format_to: their format and arguments

ASSUME BitsAssumption == Bits \in Nat /\ Bits > 4 /\ Bits % 4 = 0

Power(b, k) ==
    LET power[i \in 0..k] == IF i = 0 THEN 1 ELSE b * power[i - 1]
    IN  power[k]

Word == Power(2, Bits)
MIN == -(Word \div 2)
ASSUME FloatAssumption ==
    /\ Unit \in Nat \ {0} /\ Precision \in 0..9
    /\ FloatRoom \in Nat /\ FloatRoom < Bits
ASSUME CharactersAssumption ==
    /\ NUL # minus /\ NUL # dot /\ minus # dot
    /\ NUL \notin Nat /\ minus \notin Nat /\ dot \notin Nat

MAX_LENGTH == Bits \div 4   \* the digits of a padded half of a uint64_t (8)

\* An argument: a signed or an unsigned word, an address, a uint64_t, a number
\* of units, a truth value, or a text.
Kinds == {"int", "uint", "pointer", "uint64", "float", "bool", "text"}
Argument(kind, content) == [kind |-> kind, value |-> content]

Inputs(kind) ==
    CASE kind = "int" -> MIN..((Word \div 2) - 1)
      [] kind \in {"uint", "pointer"} -> 0..(Word - 1)
      [] kind = "float" -> (Unit * (MIN + 1))..(-Unit * (MIN + 1))
      [] kind = "bool" -> BOOLEAN
      [] kind = "uint64" -> 0..(Word * Word - 1)

\* formatter<float>::parse: a digit behind the brace.
PrecisionOf(ch) ==
    LET digits == <<"0", "1", "2", "3", "4", "5", "6", "7", "8", "9">>
        i == SelectInSeq(digits, LAMBDA d : d = ch)
    IN  IF i = 0 THEN Precision ELSE i - 1

\* As in all the calls of the kernel there is a pair of braces for each
\* argument, and a brace is always closed.
Count(s, ch) == Len(SelectSeq(s, LAMBDA c : c = ch))
FormatCharacters == UNION {{call.fmt[i] : i \in DOMAIN call.fmt} : call \in Calls}
Arguments == UNION {{call.args[i] : i \in DOMAIN call.args} : call \in Calls}
ASSUME CallsAssumption ==
    \A call \in Calls :
        /\ call.fmt \in Seq(FormatCharacters) /\ call.args \in Seq(Arguments)
        /\ Count(call.fmt, "{") = Len(call.args)
        /\ Count(call.fmt, "}") = Len(call.args)
ASSUME ArgumentsAssumption ==
    \A arg \in Arguments :
        arg.kind \in Kinds /\ (arg.kind # "text" => arg.value \in Inputs(arg.kind))
\* A word holds the digits of a fraction: 10^9 < 2^32.
ASSUME FractionAssumption ==
    \A ch \in FormatCharacters \cup {NUL} : Power(10, PrecisionOf(ch)) <= Word

VARIABLES
    fmt, args,      \* what is left of them
    pc,
    base, zeros,    \* the formatter's num_base and leading_zero
    pieces,         \* the words format still has to convert, and where to
    first,          \* of to_chars: where the word starts in the buffer,
    value, it,      \* what is left to convert, and where
    count,          \* digits_count
    buffer,
    output,
    printed         \* history: what was printed for the current argument

formatter == <<base, zeros, pieces>>
conversion == <<first, value, it, count, buffer>>
vars == <<fmt, args, pc, formatter, conversion, output, printed>>

Cleared == [i \in 0..Bits |-> NUL]

TypeOK ==
    /\ pc \in {"text", "float", "convert", "digits", "print", "skip"}
    /\ base \in {2, 8, 10, 16} /\ zeros \in BOOLEAN
    /\ value \in MIN..(Word - 1)
    /\ first \in 0..Bits /\ it \in -Bits..Bits /\ count \in 0..(Bits + 1)
    /\ DOMAIN buffer = 0..Bits

Init ==
    /\ \E call \in Calls : fmt = call.fmt /\ args = call.args
    /\ pc = "text"
    /\ base = 10 /\ zeros = FALSE /\ pieces = <<>>
    /\ first = 0 /\ value = 0 /\ it = 0 /\ count = 0 /\ buffer = Cleared
    /\ output = <<>> /\ printed = <<>>

----------------------------------------------------------------------------
(* format_to and the formatters.                                           *)

\* Text up to a brace, and all of it when there is no argument left.
Copy ==
    /\ pc = "text" /\ fmt # <<>> /\ (args = <<>> \/ Head(fmt) # "{")
    /\ output' = Append(output, Head(fmt))
    /\ fmt' = Tail(fmt)
    /\ UNCHANGED <<args, pc, formatter, conversion, printed>>

Character(i) == IF i <= Len(fmt) THEN fmt[i] ELSE NUL

BaseOf(ch) ==
    CASE ch = "x" -> 16 [] ch = "b" -> 2 [] ch = "o" -> 8 [] OTHER -> 10

\* A word to convert, from where, with that much room.
Piece(word, start, room) == [word |-> word, start |-> start, room |-> room]
Whole(word) == Piece(word, 0, Bits)

\* The words of a number: uint64_t is printed by halves.
LowWord(arg, padded) == <<Whole(arg.value % Word)>>   \* mutant: uint32_t's formatter
Words(arg, padded) ==
    IF arg.kind = "uint64" /\ (arg.value >= Word \/ padded)
      THEN <<Whole(arg.value \div Word), Whole(arg.value % Word)>>
      ELSE <<Whole(arg.value)>>

\* What formatter<bool> and the formatters of texts print.
Text(arg, ch) ==
    IF arg.kind = "text" THEN arg.value
    ELSE IF ch = "s" THEN <<arg.value>>
    ELSE <<IF arg.value THEN 1 ELSE 0>>

Say(text) ==
    /\ output' = output \o text /\ printed' = text /\ pc' = "skip"
    /\ UNCHANGED formatter

\* parse looks at the one or two characters behind the brace.
Parse ==
    /\ pc = "text" /\ args # <<>> /\ fmt # <<>> /\ Head(fmt) = "{"
    /\ LET arg == Head(args)
           padded == arg.kind = "uint64" /\ Character(3) = "0"
       IN  IF arg.kind \in {"text", "bool"} THEN Say(Text(arg, Character(2)))
           ELSE /\ base' = CASE arg.kind = "pointer" -> 16
                             [] arg.kind = "float" -> 10
                             [] OTHER -> BaseOf(Character(2))
                /\ zeros' = padded
                /\ pc' = IF arg.kind = "float" THEN "float" ELSE "convert"
                /\ pieces' = IF arg.kind = "float" THEN <<>> ELSE Words(arg, padded)
                /\ printed' = <<>> /\ UNCHANGED output
    /\ fmt' = Tail(fmt)
    /\ UNCHANGED <<args, conversion>>

Skip ==
    /\ pc = "skip"
    /\ fmt' = SubSeq(fmt, SelectInSeq(fmt, LAMBDA c : c = "}") + 1, Len(fmt))
    /\ args' = Tail(args) /\ pc' = "text"
    /\ UNCHANGED <<formatter, conversion, output, printed>>

----------------------------------------------------------------------------
(* to_chars.                                                               *)

CountToBase(n) ==   \* mutant: <= for <
    LET divisions[m \in 0..n] == IF m = 0 THEN 0 ELSE 1 + divisions[m \div base]
    IN  IF n <= base THEN 1 ELSE divisions[n]
digits_count(n) ==
    LET divisions[m \in 0..n] == IF m = 0 THEN 0 ELSE 1 + divisions[m \div base]
    IN  IF n < base THEN 1 ELSE divisions[n]

\* value = -value, which the smallest number does not have.
Negated(n) == IF n = MIN THEN MIN ELSE -n

precision == PrecisionOf(Character(1))

\* to_chars of a float: what both parts will take is counted, and the sign is
\* written; the integer part and the digits of the fraction follow as integers.
FloatPieces(m, fraction, sign) ==
    LET size == digits_count(m \div Unit)
    IN  <<Piece(m \div Unit, sign, size)>>
          \o IF fraction = <<>> THEN <<>>
             ELSE <<Piece(fraction[1], sign + size + 1, digits_count(fraction[1]))>>
Float ==
    /\ pc = "float"
    /\ LET n == Head(args).value
           sign == IF n < 0 THEN 1 ELSE 0
           m == IF n < 0 THEN -n ELSE n
           fraction ==
               IF m % Unit > 0 /\ precision > 0
                 THEN <<((m % Unit) * Power(10, precision)) \div Unit>> ELSE <<>>
           size == digits_count(m \div Unit)
           needed == size + IF fraction = <<>> THEN 0 ELSE 1 + digits_count(fraction[1])
       IN  IF needed > FloatRoom
             THEN pc' = "print" /\ UNCHANGED <<pieces, conversion>>
             ELSE /\ pieces' = FloatPieces(m, fraction, sign)
                  /\ buffer' = [i \in 0..Bits |->
                         IF sign = 1 /\ i = 0 THEN minus
                         ELSE IF fraction # <<>> /\ i = sign + size THEN dot
                         ELSE buffer[i]]
                  /\ pc' = "convert" /\ UNCHANGED <<first, value, it, count>>
    /\ UNCHANGED <<fmt, args, base, zeros, output, printed>>

\* The sign, the number of characters, and the test for room.
Convert ==
    /\ pc = "convert"
    /\ LET n == Head(pieces).word
           start == Head(pieces).start
           sign == IF n < 0 THEN 1 ELSE 0
           total == sign + digits_count(IF n < 0 THEN Negated(n) ELSE n)
           signed == IF n < 0 THEN [buffer EXCEPT ![start] = minus] ELSE buffer
       IN  IF total > Head(pieces).room
             THEN /\ count' = 0 /\ buffer' = signed /\ pc' = "print"
                  /\ UNCHANGED <<first, value, it>>
             ELSE /\ value' = IF n < 0 THEN Negated(n) ELSE n
                  /\ count' = total /\ it' = start + total - 1 /\ first' = start
                  /\ buffer' = IF n = 0 THEN [signed EXCEPT ![start + total - 1] = 0]
                               ELSE signed
                  /\ pc' = "digits"
    /\ UNCHANGED <<fmt, args, formatter, output, printed>>

\* The arithmetic is size_t's, so that a value that is still negative is a
\* large one.  What is written below the buffer is not followed.
Digit ==
    /\ pc = "digits" /\ value # 0
    /\ buffer' = IF it >= 0 THEN [buffer EXCEPT ![it] = (value % Word) % base]
                 ELSE buffer
    /\ value' = (value % Word) \div base
    /\ it' = it - 1
    /\ UNCHANGED <<fmt, args, pc, formatter, first, count, output, printed>>

\* The parts of a float are converted into one buffer.
DigitsEnd ==
    /\ pc = "digits" /\ value = 0
    /\ IF Head(args).kind = "float" /\ Len(pieces) > 1
         THEN pc' = "convert" /\ pieces' = Tail(pieces)
         ELSE pc' = "print" /\ UNCHANGED pieces
    /\ UNCHANGED <<fmt, args, base, zeros, conversion, output, printed>>

\* What format prints: the padding, and the buffer up to its terminator.
Padding == IF zeros /\ base = 16 THEN [i \in 1..(MAX_LENGTH - count) |-> 0] ELSE <<>>
Shown ==
    LET size == CHOOSE n \in 0..Bits :
                    buffer[n] = NUL /\ \A i \in 0..(n - 1) : buffer[i] # NUL
    IN  [i \in 1..size |-> buffer[i - 1]]

Flush ==
    /\ pc = "print"
    /\ output' = output \o Padding \o Shown
    /\ printed' = printed \o Padding \o Shown
    /\ pieces' = IF pieces = <<>> THEN <<>> ELSE Tail(pieces)
    /\ pc' = IF Len(pieces) > 1 THEN "convert" ELSE "skip"
    /\ buffer' = Cleared
    /\ UNCHANGED <<fmt, args, base, zeros, first, value, it, count>>

Returned == pc = "text" /\ fmt = <<>> /\ UNCHANGED vars

Next == Copy \/ Parse \/ Skip \/ Float \/ Convert \/ Digit \/ DigitsEnd \/ Flush \/ Returned

Spec == Init /\ [][Next]_vars

----------------------------------------------------------------------------
(* What holds of the output.                                               *)

Magnitude(arg) == IF arg.value < 0 THEN -arg.value ELSE arg.value
Fraction(arg) == Magnitude(arg) % Unit
FractionDigits(arg) == (Fraction(arg) * Power(10, precision)) \div Unit

\* The arguments that are not printed as what they are: the smallest signed
\* number, which is never printed by the kernel; a number of two words whose low
\* one is not padded, as the addresses of mmap::init above 4 GB; a fraction that
\* starts with a zero, as in the seconds of uptime, and a float too long for its
\* buffer, for which its sign was not counted.
AsIs(arg) ==
    CASE arg.kind = "int" -> arg.value # MIN
      [] arg.kind = "uint64" -> arg.value < Word \/ (zeros /\ base = 16)
      [] arg.kind = "float" ->
           /\ Fraction(arg) = 0 \/ precision = 0
                 \/ FractionDigits(arg) >= Power(10, precision - 1)
           /\ (IF arg.value < 0 THEN 1 ELSE 0)
                 + digits_count(Magnitude(arg) \div Unit)
                 + (IF Fraction(arg) = 0 \/ precision = 0 THEN 0 ELSE 1 + precision)
              <= FloatRoom
      [] OTHER -> TRUE

\* The conversion, which starts at the last digit, ends at the first one: it
\* writes exactly the characters that were counted, below the terminator.
FillsBuffer ==
    pc \in {"digits", "print"} /\ AsIs(Head(args)) =>
        /\ value # 0 => it >= first
        /\ pc = "print" => Len(Shown) = first + count

\* The number that digits stand for, and a number behind its sign.
Denotes(digits) ==
    LET sum[i \in 0..Len(digits)] ==
            IF i = 0 THEN 0 ELSE sum[i - 1] * base + digits[i]
    IN  sum[Len(digits)]
Unsigned(s) == IF Head(s) = minus THEN Tail(s) ELSE s
IsNumeral(digits) ==
    /\ digits # <<>> /\ \A i \in DOMAIN digits : digits[i] \in 0..(base - 1)
    /\ digits[1] = 0 => Len(digits) = 1 \/ zeros
ReadsAs(s, n) ==
    /\ IsNumeral(Unsigned(s))
    /\ n = IF Head(s) = minus THEN -Denotes(Unsigned(s)) ELSE Denotes(Unsigned(s))

\* A float up to its precision: the numerals on both sides of the dot.
ReadsAsFloat(s, arg) ==
    LET i == SelectInSeq(s, LAMBDA c : c = dot)
        whole == Unsigned(IF i = 0 THEN s ELSE SubSeq(s, 1, i - 1))
    IN  /\ IsNumeral(whole) /\ Denotes(whole) = Magnitude(arg) \div Unit
        /\ (Head(s) = minus) = (arg.value < 0)
        /\ (i = 0) = (Fraction(arg) = 0 \/ precision = 0)
        /\ i # 0 => LET digits == SubSeq(s, i + 1, Len(s))
                    IN  /\ Len(digits) = precision
                        /\ Denotes(digits) = FractionDigits(arg)

\* What is printed for an argument is the argument: read as a numeral of the
\* base that was asked for, without zeros in front unless they were asked for,
\* with its sign and its fraction, and a text as it is, braces included.
PrintsArgument ==
    pc = "skip" /\ AsIs(Head(args)) =>
        LET arg == Head(args)
        IN  CASE arg.kind \in {"text", "bool"} -> printed = Text(arg, Character(1))
              [] arg.kind = "float" -> ReadsAsFloat(printed, arg)
              [] OTHER -> ReadsAs(printed, arg.value)
=============================================================================
