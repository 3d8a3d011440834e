---------------------------- MODULE SignalSafeText ----------------------------
(***************************************************************************)
(* Text that is made without the C library, for use in signal handlers:    *)
(* class MinimalFormatter of glog/src/signalhandler.cc, and the functions  *)
(* on numbers and strings of glog/src/symbolize.cc.                        *)
(*                                                                         *)
(* Text is a sequence of characters, which are numbers: 0 .. 15 are the    *)
(* digits.  Integers have Bits bits.  The buffer of a C string has room    *)
(* for the text and a final 0, which is not part of the sequence.          *)
(***************************************************************************)
EXTENDS Integers, Sequences

CONSTANTS Bits, Numbers, Strings, Widths, Paddings, Sizes, MaxPieces

TextAssumption ==
  /\ Bits \in Nat \ {0} /\ \A i \in Numbers : i >= -(2 ^ (Bits - 1)) /\ i < 2 ^ Bits
  /\ Widths \subseteq Nat /\ Paddings \subseteq Nat /\ Sizes \subseteq Nat \ {0}

Dash == 16
Space == 17
LetterX == 18

VARIABLES
  formatter,  \* a MinimalFormatter: its text, and what it would be without limit
  string,     \* a C string that SafeAppendString appends to, likewise
  number,     \* the last number, and its text
  use         \* which of the three is used, and the size of its buffer

textVars == <<formatter, string, number, use>>

size == use.size

MinOf(a, b) == IF a < b THEN a ELSE b
Backwards(s) == [i \in 1 .. Len(s) |-> s[Len(s) - i + 1]]
Repeat(c, n) == [i \in 1 .. (IF n < 0 THEN 0 ELSE n) |-> c]

\* The digits of a number from the lowest, at least one.
Low(i, base) ==
  LET digits[n \in Nat] == IF n = 0 THEN <<>> ELSE <<n % base>> \o digits[n \div base]
  IN IF i = 0 THEN <<0>> ELSE digits[i]

\* An integer as an unsigned one.
Word(i) == i % 2 ^ Bits

-----------------------------------------------------------------------------
(* MinimalFormatter, with room for n characters *)

AppendString(text, n, str) == text \o SubSeq(str, 1, MinOf(Len(str), n - Len(text)))

\* The digits are written from the lowest and turned round; if there is no room
\* the highest are missing.
AppendUint64(text, n, i, radix) ==
  LET low == Low(i, radix)
  IN text \o Backwards(SubSeq(low, 1, MinOf(Len(low), n - Len(text))))

\* "0x" and the number are moved to the right over spaces.  Faulty variant: the
\* spaces are put behind.
PaddedLeft(text, hex, width) == text \o hex \o Repeat(Space, width - Len(hex))
Padded(text, hex, width) == text \o Repeat(Space, width - Len(hex)) \o hex

AppendHexWithPadding(text, n, i, width) ==
  LET hex == AppendUint64(AppendString(text, n, <<0, LetterX>>), n, i, 16)
  IN Padded(text, SubSeq(hex, Len(text) + 1, Len(hex)), width)

-----------------------------------------------------------------------------
(* symbolize.cc *)

NULL == [ok |-> FALSE, text |-> <<>>]

\* Faulty variant: no room is left for the 0 at the end.
FitsBarely(text, sz) == Len(text) <= sz
Fits(text, sz) == Len(text) + 1 <= sz

itoa_r(i, sz, base, padding) ==
  LET negative == i < 0 /\ base = 10
      low == Low(IF negative THEN -i ELSE Word(i), base)
      text == (IF negative THEN <<Dash>> ELSE <<>>)
                \o Backwards(low \o Repeat(0, padding - Len(low)))
  IN IF base \in 2 .. 16 /\ Fits(text, sz) THEN [ok |-> TRUE, text |-> text] ELSE NULL

\* strncpy and a 0 in the last place.
SafeAppendString(source, dest, dest_size) ==
  SubSeq(dest \o source, 1, MinOf(Len(dest) + Len(source), dest_size - 1))

\* A buffer for all the digits that a number can have.
SafeAppendHexNumber(value, dest, dest_size) ==
  SafeAppendString(itoa_r(value, (Bits + 3) \div 4 + 1, 16, 0).text, dest, dest_size)

\* The digits at the start of a text as a number.
GetHex(text) ==
  LET digits == {n \in 0 .. Len(text) : \A i \in 1 .. n : text[i] < 16}
      hex[n \in Nat] == IF n = 0 THEN 0 ELSE Word(16 * hex[n - 1] + text[n])
  IN hex[CHOOSE n \in digits : \A k \in digits : k <= n]

-----------------------------------------------------------------------------
Empty == [text |-> <<>>, full |-> <<>>]
Unlimited == 1000

Init ==
  /\ formatter = Empty /\ string = Empty
  /\ use \in [part : {"formatter", "string", "number"}, size : Sizes]
  /\ number = [i |-> 0, base |-> 10, padding |-> 0, sz |-> 0, made |-> NULL]

\* Each piece is appended to the buffer and to one that is large enough.
FormatString(str) ==
  formatter' = [text |-> AppendString(formatter.text, size, str),
                full |-> AppendString(formatter.full, Unlimited, str)]
FormatNumber(i, radix) ==
  formatter' = [text |-> AppendUint64(formatter.text, size, i, radix),
                full |-> AppendUint64(formatter.full, Unlimited, i, radix)]
FormatPadded(i, width) ==
  /\ Len(formatter.text) + width <= size
  /\ formatter' = [text |-> AppendHexWithPadding(formatter.text, size, i, width),
                   full |-> AppendHexWithPadding(formatter.full, Unlimited, i, width)]

AppendToString(source) ==
  string' = [text |-> SafeAppendString(source, string.text, size),
             full |-> SafeAppendString(source, string.full, Unlimited)]
AppendHexToString(i) ==
  string' = [text |-> SafeAppendHexNumber(i, string.text, size),
             full |-> SafeAppendHexNumber(i, string.full, Unlimited)]

Convert(i, base, padding) ==
  number' = [i |-> i, base |-> base, padding |-> padding, sz |-> size,
             made |-> itoa_r(i, size, base, padding)]

Next ==
  /\ UNCHANGED use
  /\ \/ /\ use.part = "formatter" /\ Len(formatter.full) < MaxPieces
        /\ \/ \E str \in Strings : FormatString(str)
           \/ \E i \in Numbers, radix \in {10, 16} : FormatNumber(Word(i), radix)
           \/ \E i \in Numbers, width \in Widths : FormatPadded(Word(i), width)
        /\ UNCHANGED <<string, number>>
     \/ /\ use.part = "string" /\ Len(string.full) < MaxPieces
        /\ \/ \E str \in Strings : AppendToString(str)
           \/ \E i \in Numbers : AppendHexToString(Word(i))
        /\ UNCHANGED <<formatter, number>>
     \/ /\ use.part = "number"
        /\ \E i \in Numbers, base \in {1, 2, 10, 16}, padding \in Paddings :
             Convert(i, base, padding)
        /\ UNCHANGED <<formatter, string>>

-----------------------------------------------------------------------------
(* Properties *)

\* A formatter stays in its buffer, and has everything if there is room for it.
FormatterFits ==
  /\ Len(formatter.text) <= size
  /\ Len(formatter.full) <= size => formatter.text = formatter.full

\* A C string ends in its buffer, and is the start of what was appended.
StringTerminated ==
  string.text = SubSeq(string.full, 1, MinOf(size - 1, Len(string.full)))

\* The value of digits.
Value(text, base) ==
  LET value[n \in Nat] == IF n = 0 THEN 0 ELSE base * value[n - 1] + text[n]
  IN value[Len(text)]

\* itoa_r gives the number, padded and with its 0 at the end in the buffer, or
\* nothing; and GetHex reads it.
NumberExact ==
  LET text == number.made.text
      minus == text # <<>> /\ text[1] = Dash
      digits == IF minus THEN Tail(text) ELSE text
  IN number.made.ok =>
       /\ Len(text) < number.sz /\ Len(digits) >= number.padding /\ digits # <<>>
       /\ Value(digits, number.base) =
            (IF minus THEN -number.i ELSE Word(number.i))
       /\ minus => number.i < 0
       /\ number.base = 16 => GetHex(text) = Word(number.i)

\* A padded number can be read behind the spaces in front of it.
PaddedExact ==
  \A i \in Numbers, width \in Widths :
    LET text == AppendHexWithPadding(<<>>, Unlimited, Word(i), width)
    IN /\ Len(text) >= width
       /\ \E n \in 0 .. Len(text) :
            /\ SubSeq(text, 1, n) = Repeat(Space, n)
            /\ SubSeq(text, n + 1, n + 2) = <<0, LetterX>>
            /\ \A k \in n + 3 .. Len(text) : text[k] < 16
            /\ GetHex(SubSeq(text, n + 3, Len(text))) = Word(i)

TextExact == FormatterFits /\ StringTerminated /\ NumberExact /\ PaddedExact
=============================================================================
