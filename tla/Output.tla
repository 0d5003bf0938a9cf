------------------------------- MODULE Output -------------------------------
(***************************************************************************)
(* cmd/tgju/output.go: what the command line prints for an amount.  The    *)
(* site quotes rials; a toman is ten of them.  Columns, arrows and the     *)
(* JSON form, which knows no unit, are left out, and so is the rounding of *)
(* a quotient to float64.                                                  *)
(***************************************************************************)
EXTENDS NumberFormats

Units == {"rial", "toman", "raw"}
Dash == <<8212>>

\* strconv.FormatFloat(v, 'f', -1, 64): the digits before and after the point
\* that say something, at least one before it.
TrimmedZeros(v) ==  \* mutant: zeros are trimmed at the end of the whole text
    LET kept == {i \in DOMAIN v.digits : \E j \in DOMAIN v.digits :
                   j >= i /\ v.digits[j] # 0}
        n == Len(v.digits) - v.scale
    IN [whole |-> IF kept \cap 1..n = {} THEN <<0>> ELSE At(v.digits, kept \cap 1..n),
        part |-> At(v.digits, kept \ 1..n)]
FormatFloat(v) ==
    LET n == Len(v.digits) - v.scale
        NonZero(i) == v.digits[i] # 0
        whole == {i \in 1..n : \E j \in 1..i : NonZero(j)}
        part == {i \in DOMAIN v.digits : i > n /\ \E j \in i..Len(v.digits) : NonZero(j)}
    IN [whole |-> IF whole = {} THEN <<0>> ELSE At(v.digits, whole),
        part |-> At(v.digits, part)]

\* group: a comma before every third digit from the right.
Thousands(v) ==
    LET s == FormatFloat(v)
        Separator(i) == IF i > 1 /\ (Len(s.whole) - i + 1) % 3 = 0 THEN <<Comma>> ELSE <<>>
        whole == FlattenSeq([i \in DOMAIN s.whole |-> Separator(i) \o <<48 + s.whole[i]>>])
        part == [i \in DOMAIN s.part |-> 48 + s.part[i]]
    IN (IF v.negative THEN <<Minus>> ELSE <<>>) \o whole \o
       (IF part = <<>> THEN <<>> ELSE <<Dot>> \o part)

\* Amount.Toman: a tenth.
Toman(v) == Number(v.negative, <<0>> \o v.digits, v.scale + 1)

\* unit.render
Render(unit, amount) ==
    CASE amount = NoAmount -> Dash
      [] amount # NoAmount /\ unit = "raw" -> amount.text
      [] amount # NoAmount /\ unit = "toman" -> Thousands(Toman(amount.value))
      [] amount # NoAmount /\ unit = "rial" -> Thousands(amount.value)

\* The row of an instrument in a table or a CSV file.
Row(item, unit) ==
    [key |-> item.key, title |-> item.title, category |-> item.category,
     status |-> item.status, time |-> item.time,
     price |-> Render(unit, item.price), low |-> Render(unit, item.low),
     high |-> Render(unit, item.high), amount |-> Render(unit, item.amount)]
=============================================================================
