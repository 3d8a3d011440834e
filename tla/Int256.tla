------------------------------- MODULE Int256 -------------------------------
(***************************************************************************)
(* int256.h and int256.cc: numbers of 4 H bits made of two words of 2 H    *)
(* bits, H being 64.  Two registers go through the operators; number is    *)
(* what each register stands for, computed with integers.                  *)
(***************************************************************************)
EXTENDS Integers, Sequences, SequencesExt

CONSTANTS
  H,         \* bits of half a word
  Words,     \* bound: words that the registers start with
  Numbers,   \* bound: values of the int that a register is constructed from
  Bases,     \* bases in which numbers are printed
  MaxOps     \* bound: operations

WordsAssumption ==
  /\ H \in Nat \ {0} /\ Words \subseteq 0 .. 2 ^ (2 * H) - 1
  /\ Numbers \subseteq Int /\ Bases \subseteq 2 .. 2 ^ H - 1 /\ MaxOps \in Nat

VARIABLES reg, number, ops

vars == <<reg, number, ops>>

Regs == {1, 2}
Half == 2 ^ H
Word == 2 ^ (2 * H)          \* one more than the largest uint128
Whole == Word * Word

uint256 == [hi : 0 .. Word - 1, lo : 0 .. Word - 1]
ToInt(a) == a.hi * Word + a.lo
Uint256(hi, lo) == [hi |-> hi % Word, lo |-> lo % Word]
FromWord(x) == Uint256(0, x)

-----------------------------------------------------------------------------
(* Operators of the class *)

\* A negative int fills the high word with ones.
FromInt(x) == Uint256(IF x < 0 THEN -1 ELSE 0, x)

\* CMP256.
Less(a, b) == IF a.hi = b.hi THEN a.lo < b.lo ELSE a.hi < b.hi
AtLeast(a, b) == IF a.hi = b.hi THEN a.lo >= b.lo ELSE a.hi >= b.hi

Minus(a) ==
  LET hi_flip == Word - 1 - a.hi
      lo_flip == Word - 1 - a.lo
      lo_add == (lo_flip + 1) % Word
  IN IF lo_add < lo_flip THEN Uint256(hi_flip + 1, lo_add) ELSE Uint256(hi_flip, lo_add)

\* The carry is noticed by the sum being smaller.
Plus(a, b) ==
  LET lolo == (a.lo + b.lo) % Word
  IN Uint256(a.hi + b.hi + (IF lolo < a.lo THEN 1 ELSE 0), lolo)

Subtract(a, b) == Uint256(a.hi - b.hi - (IF b.lo > a.lo THEN 1 ELSE 0), a.lo - b.lo)

Increment(a) ==
  LET lo == (a.lo + 1) % Word IN Uint256(a.hi + (IF lo = 0 THEN 1 ELSE 0), lo)
Decrement(a) == Uint256(a.hi - (IF a.lo = 0 THEN 1 ELSE 0), a.lo - 1)

\* Shifts of a word by less than its bits, and of two words by any number.
ShiftLeft(a, n) ==
  IF n < 2 * H
  THEN IF n = 0 THEN a
       ELSE Uint256(a.hi * 2 ^ n + a.lo \div 2 ^ (2 * H - n), a.lo * 2 ^ n)
  ELSE IF n < 4 * H THEN Uint256(a.lo * 2 ^ (n - 2 * H), 0) ELSE Uint256(0, 0)
ShiftRight(a, n) ==
  IF n < 2 * H
  THEN IF n = 0 THEN a
       ELSE Uint256(a.hi \div 2 ^ n, a.lo \div 2 ^ n + a.hi * 2 ^ (2 * H - n))
  ELSE IF n < 4 * H THEN Uint256(0, a.hi \div 2 ^ (n - 2 * H)) ELSE Uint256(0, 0)

\* Schoolbook multiplication of halves of the low words.  Faulty variant: the
\* middle terms are added in a word, which loses their carry.
TimesCarryless(a, b) ==
  LET a64 == a.lo \div Half
      a00 == a.lo % Half
      b64 == b.lo \div Half
      b00 == b.lo % Half
      middle_term == FromWord((a64 * b00) + (a00 * b64))
  IN Plus(Uint256(a.hi * b.lo + a64 * b64 + a.lo * b.hi, a00 * b00),
          ShiftLeft(middle_term, H))
Times(a, b) ==
  LET a64 == a.lo \div Half
      a00 == a.lo % Half
      b64 == b.lo \div Half
      b00 == b.lo % Half
      middle_term == Plus(FromWord(a64 * b00), FromWord(a00 * b64))
  IN Plus(Uint256(a.hi * b.lo + a64 * b64 + a.lo * b.hi, a00 * b00),
          ShiftLeft(middle_term, H))

-----------------------------------------------------------------------------
(* Division and output *)

\* Fls64, by steps of halves of the bits that are left; Fls128 and Fls256.
Fls64(n) ==
  LET fls[m \in Nat] == IF m = 1 THEN 0 ELSE 1 + fls[m \div 2] IN fls[n]
Fls256(a) ==
  IF a.hi # 0 THEN Fls64(a.hi) + 2 * H ELSE Fls64(a.lo)

Zero == FromWord(0)
One == FromWord(1)

\* The loop of DivModImpl.
ShiftSubtract(dividend, divisor) ==
  LET shift == Fls256(dividend) - Fls256(divisor)
      pass(d, i) ==
        LET fits == AtLeast(d.dividend, d.denominator)
        IN [dividend |-> IF fits THEN Subtract(d.dividend, d.denominator) ELSE d.dividend,
            denominator |-> ShiftRight(d.denominator, 1),
            quotient |-> IF fits THEN Plus(ShiftLeft(d.quotient, 1), One)
                         ELSE ShiftLeft(d.quotient, 1)]
  IN FoldLeft(pass, [dividend |-> dividend, quotient |-> Zero,
                     denominator |-> ShiftLeft(divisor, shift)],
              [i \in 1 .. shift + 1 |-> i])

DivMod(dividend, divisor) ==
  IF Less(dividend, divisor) THEN [quotient |-> Zero, remainder |-> dividend]
  ELSE IF divisor = dividend THEN [quotient |-> One, remainder |-> Zero]
  ELSE LET d == ShiftSubtract(dividend, divisor)
       IN [quotient |-> d.quotient, remainder |-> d.dividend]

\* The digits of a word, the highest first, at least width of them.
Digits(x, base, width) ==
  LET digits[y \in Nat, w \in Nat] ==
        IF y < base /\ w <= 1 THEN <<y>>
        ELSE Append(digits[y \div base, IF w = 0 THEN 0 ELSE w - 1], y % base)
  IN digits[x, width]

\* operator<<: five chunks, each below the largest power of the base that a
\* half word holds; padding with zeros once a chunk has been printed.
Printed(a, base) ==
  LET log == CHOOSE l \in 1 .. H : base ^ l < Half /\ base ^ (l + 1) >= Half
      div == FromWord(base ^ log)
      high[i \in 0 .. 4] == IF i = 0 THEN a ELSE DivMod(high[i - 1], div).quotient
      chunk(i) == (IF i = 4 THEN high[4] ELSE DivMod(high[i], div).remainder).lo
      print[i \in 0 .. 5] == IF i = 5 THEN FALSE ELSE print[i + 1] \/ chunk(i) # 0
      text[i \in 0 .. 5] ==
        IF i = 5 THEN <<>>
        ELSE IF print[i] \/ i = 0
             THEN text[i + 1] \o Digits(chunk(i), base, IF print[i + 1] THEN log ELSE 1)
             ELSE <<>>
  IN text[0]

-----------------------------------------------------------------------------

Init ==
  /\ reg \in [Regs -> [hi : Words, lo : Words]]
  /\ number = [r \in Regs |-> ToInt(reg[r])]
  /\ ops = 0

\* The first register becomes a, which stands for n.
Becomes(a, n) ==
  /\ ops < MaxOps /\ ops' = ops + 1
  /\ reg' = [reg EXCEPT ![1] = a] /\ number' = [number EXCEPT ![1] = n % Whole]

Convert(x) == Becomes(FromInt(x), x)
Negate == Becomes(Minus(reg[1]), 0 - number[1])
Add == Becomes(Plus(reg[1], reg[2]), number[1] + number[2])
Sub == Becomes(Subtract(reg[1], reg[2]), number[1] - number[2])
Mul == Becomes(Times(reg[1], reg[2]),
               \* The factors reduced first, since TLC's integers are short.
               LET low == number[2] % Word
                   high == number[2] \div Word
               IN ((number[1] * low) % Whole) + (((number[1] * high) % Word) * Word))
Div == reg[2] # Zero /\ Becomes(DivMod(reg[1], reg[2]).quotient, number[1] \div number[2])
Mod == reg[2] # Zero /\ Becomes(DivMod(reg[1], reg[2]).remainder, number[1] % number[2])
Step == \/ Becomes(Increment(reg[1]), number[1] + 1)
        \/ Becomes(Decrement(reg[1]), number[1] - 1)
Shift(n) ==
  \/ Becomes(ShiftLeft(reg[1], n), IF n < 4 * H THEN (number[1] % 2 ^ (4 * H - n)) * 2 ^ n ELSE 0)
  \/ Becomes(ShiftRight(reg[1], n), number[1] \div 2 ^ n)

Next ==
  \/ Negate \/ Add \/ Sub \/ Mul \/ Div \/ Mod \/ Step
  \/ \E n \in 0 .. 4 * H + 1 : Shift(n)
  \/ \E x \in Numbers : Convert(x)

Spec == Init /\ [][Next]_vars

-----------------------------------------------------------------------------

TypeOK == reg \in [Regs -> uint256] /\ number \in [Regs -> 0 .. Whole - 1]

\* The two words hold the number modulo 2 ^ 256, whatever carries, borrows and
\* shifts across the words the operators had to make, and comparisons are those
\* of the numbers.
WordsExact ==
  /\ \A r \in Regs : ToInt(reg[r]) = number[r]
  /\ Less(reg[1], reg[2]) <=> number[1] < number[2]
  /\ AtLeast(reg[1], reg[2]) <=> number[1] >= number[2]

\* What is printed is the number in the base, without leading zeros.
PrintsExactly ==
  \A base \in Bases :
    LET text == Printed(reg[1], base)
    IN /\ FoldLeft(LAMBDA x, d : x * base + d, 0, text) = number[1]
       /\ Len(text) > 1 => text[1] # 0
       /\ \A i \in DOMAIN text : text[i] \in 0 .. base - 1
=============================================================================
