---------------------------- MODULE NumberFormats ---------------------------
(***************************************************************************)
(* internal/numfmt and amountOf of convert.go: from the text of a cell to  *)
(* a number.                                                               *)
(*                                                                         *)
(* A text is a sequence of Unicode code points, a number the decimal       *)
(* literal strconv.ParseFloat is given; the rounding to float64 and the    *)
(* literals too long for it are left out.                                  *)
(***************************************************************************)
EXTENDS Integers, SequencesExt

Space == 32  Open == 40  Shut == 41  Plus == 43  Comma == 44  Minus == 45  Dot == 46
Percent == 37
NonJoiner == 8204          \* U+200C
ArabicDecimal == 1643      \* U+066B
ArabicThousands == 1644    \* U+066C

AsciiDigits == 48..57
ArabicDigits == 1632..1641
PersianDigits == 1776..1785
ZeroWidth == 8203..8207 \cup {65279}
Spaces == 9..13 \cup {Space, 160}

Visible(r) == r \notin ZeroWidth

\* The elements of s at the indices in where, in order, and those that pass a test.
At(s, where) ==
    LET kept[n \in 0..Len(s)] ==
            IF n = 0 THEN <<>>
            ELSE IF n \in where THEN Append(kept[n - 1], s[n]) ELSE kept[n - 1]
    IN kept[Len(s)]
Select(s, Test(_)) == At(s, {i \in DOMAIN s : Test(s[i])})

\* Digits: one rune, and the whole text.
Ascii(r) ==
    CASE r \in PersianDigits -> r - 1776 + 48
      [] r \in ArabicDigits -> r - 1632 + 48
      [] r = ArabicDecimal -> Dot
      [] OTHER -> r
Digits(s) ==
    LET kept == Select(s, Visible) IN [i \in DOMAIN kept |-> Ascii(kept[i])]

\* Clean: a run of spaces becomes one, those at the ends go.
Collapsed(s) ==
    LET Word(i) == s[i] \notin Spaces
        Gap(i) == /\ i > 1 /\ s[i] \in Spaces
                  /\ Word(i - 1)
                  /\ \E j \in DOMAIN s : j > i /\ Word(j)
        t == [i \in DOMAIN s |-> IF Word(i) THEN s[i] ELSE Space]
    IN At(t, {i \in DOMAIN s : Word(i) \/ Gap(i)})
Clean(s) == Collapsed(Digits(s))

TrimSpace(s) ==
    LET words == {i \in DOMAIN s : s[i] \notin Spaces}
    IN At(s, {i \in DOMAIN s : \E j, k \in words : j <= i /\ i <= k})

----------------------------------------------------------------------------
\* Value: the digits in order, the first dot, a sign in front; all else is
\* dropped.  Unreadable stands for a text without digits.
Number(negative, digits, scale) ==
    [negative |-> negative, digits |-> digits, scale |-> scale]
Unreadable == Number(FALSE, <<>>, 0)
Readable(v) == v.digits # <<>>

IsDigit(r) == r \in AsciiDigits
FirstDot(s) == SelectInSeq(s, LAMBDA r : r = Dot)
Value(text) ==
    LET s == Digits(text)
        digits == Select(s, IsDigit)
        decimals == {i \in DOMAIN s : IsDigit(s[i]) /\ FirstDot(s) \in 1..i}
    IN IF digits = <<>> THEN Unreadable
       ELSE Number(s[1] = Minus, [i \in DOMAIN digits |-> digits[i] - 48],
                   Cardinality(decimals))

\* amountOf: the text goes with its number, and both are missing together.
NoAmount == [text |-> <<>>, value |-> Unreadable]
AmountOf(text) ==
    LET t == TrimSpace(text) IN
    IF Readable(Value(t)) THEN [text |-> t, value |-> Value(t)] ELSE NoAmount

\* Change: what stands in the first parentheses, and what follows them.
ChangeToEnd(cell) ==  \* mutant: the percentage stays in the amount
    LET s == Clean(cell) IN [percent |-> Value(s), amount |-> s]
UnclosedChange(cell) ==  \* mutant: the closing parenthesis is not required
    LET s == Clean(cell)
        open == SelectInSeq(s, LAMBDA r : r = Open)
        shut == SelectInSubSeq(s, open + 1, Len(s), LAMBDA r : r = Shut)
    IN IF open = 0 THEN [percent |-> Unreadable, amount |-> s]
       ELSE [percent |-> Value(SubSeq(s, open + 1, IF shut = 0 THEN Len(s) ELSE shut - 1)),
             amount |-> TrimSpace(SubSeq(s, shut + 1, Len(s)))]
Change(cell) ==
    LET s == Clean(cell)
        open == SelectInSeq(s, LAMBDA r : r = Open)
        shut == SelectInSubSeq(s, open + 1, Len(s), LAMBDA r : r = Shut)
    IN IF open = 0 \/ shut = 0 THEN [percent |-> Unreadable, amount |-> s]
       ELSE [percent |-> Value(SubSeq(s, open + 1, shut - 1)),
             amount |-> TrimSpace(SubSeq(s, shut + 1, Len(s)))]

\* Two literals of one number; an unreadable one counts as the zero the code
\* uses for it.
Magnitude(v) ==
    LET m[n \in 0..Len(v.digits)] == IF n = 0 THEN 0 ELSE 10 * m[n - 1] + v.digits[n]
    IN m[Len(v.digits)]
Signed(v) == IF v.negative THEN -Magnitude(v) ELSE Magnitude(v)
TenTo[n \in Nat] == IF n = 0 THEN 1 ELSE 10 * TenTo[n - 1]
SameNumber(v, w) == Signed(v) * TenTo[w.scale] = Signed(w) * TenTo[v.scale]
=============================================================================
