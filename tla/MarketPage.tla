----------------------------- MODULE MarketPage -----------------------------
(***************************************************************************)
(* External: a board as tgju.org renders it, after the saved pages of      *)
(* internal/fixture/testdata and the variations the comments and tests of  *)
(* the scraper name.                                                       *)
(*                                                                         *)
(* A document is the sequence of its tables; a header cell the set of the  *)
(* words the scraper may look for in it; a link a sequence of path         *)
(* segments and marks.  A published number is a pair of digit sequences.   *)
(***************************************************************************)
EXTENDS NumberFormats

Fields == {"price", "change", "low", "high", "time"}
WordFor == [price |-> "livePrice", change |-> "change", low |-> "lowest",
            high |-> "highest", time |-> "time"]
Historical == <<"price", "change", "low", "high", "time">>
Missing == [whole |-> <<>>, part |-> <<>>]

\* How one number is written: its digits in a script, grouped by three.
Rendered(n, style) ==
    LET digit(d) == <<style.zero + d>>
        groups(i) == i > 1 /\ (Len(n.whole) - i + 1) % 3 = 0
        whole == [i \in DOMAIN n.whole |->
                    (IF groups(i) THEN style.group ELSE <<>>) \o digit(n.whole[i])]
        part == [i \in DOMAIN n.part |-> digit(n.part[i])]
    IN IF n = Missing THEN <<Minus>>
       ELSE FlattenSeq(whole) \o
            (IF part = <<>> THEN <<>> ELSE <<style.point>> \o FlattenSeq(part))

\* A cell of the column of a field: its text nodes and the classes of its span.
TextOf(x, f, style) ==
    CASE f = "price" -> Rendered(x.price, style)
      [] f = "low" -> Rendered(x.low, style)
      [] f = "high" -> Rendered(x.high, style)
      [] f = "time" -> x.time
      [] f = "other" -> <<57>>
      [] f = "change" ->
           IF style.raw # <<>> THEN style.raw
           ELSE <<Open>> \o Rendered(x.percent, style) \o <<Percent, Shut, Space>>
                \o Rendered(x.amount, style)
CellOf(x, f, style) ==
    [nodes |-> LET t == style.wrap \o TextOf(x, f, style) \o style.wrap
               IN IF style.split = 0 \/ style.split >= Len(t) \/ f = "time" THEN <<t>>
                  ELSE <<SubSeq(t, 1, style.split), SubSeq(t, style.split + 1, Len(t))>>,
     classes |-> IF f # "change" THEN <<>>
                 ELSE style.class \o (IF x.status = "" THEN <<>> ELSE <<x.status>>)]

\* The link to an instrument's page, relative or absolute.
Base == <<"https:", "/", "/", "tgju">>
HrefOf(x, style) ==
    CASE style.link = "relative" -> <<"profile", "/">> \o x.key
      [] style.link = "rooted" -> <<"/", "profile", "/">> \o x.key
      [] style.link = "absolute" -> Base \o <<"/", "profile", "/">> \o x.key
      [] style.link = "schemeless" -> Tail(Base) \o <<"/", "profile", "/">> \o x.key
      [] style.link = "query" -> <<"profile", "/">> \o x.key \o <<"?", "chart">>
      [] style.link = "slash" -> <<"profile", "/">> \o x.key \o <<"/">>

NoCell == [nodes |-> <<>>, classes |-> <<>>]
RowOf(x, style) ==
    LET all == [j \in DOMAIN style.order |-> CellOf(x, style.order[j], style)]
    IN [slug |-> IF style.slugged THEN x.key ELSE <<>>, title |-> x.title,
        dataPrice |-> Rendered(x.price, style),
        cells |-> IF style.short THEN <<all[1]>> ELSE Append(all, NoCell),
        href |-> IF style.short THEN <<>> ELSE HrefOf(x, style)]

\* Rows that are not instruments: a spacer, an advertisement across the table,
\* a row with a title and no name, a footer with a name and no title.
Spacer == [slug |-> <<>>, title |-> "", dataPrice |-> <<>>, cells |-> <<>>, href |-> <<>>]
Advertisement == [Spacer EXCEPT !.cells = <<NoCell>>, !.href = <<"shop">>]
Nameless == [Spacer EXCEPT !.title = "nameless", !.cells = <<NoCell, NoCell>>]
Footer == [Spacer EXCEPT !.slug = <<"footer">>]

HeaderOf(style) ==
    <<{}>> \o
    [j \in DOMAIN style.order |->
        IF style.order[j] \in style.named
        THEN {WordFor[style.order[j]]} \cup style.tip ELSE {}] \o
    <<{}>>

TableOf(section, style) ==
    [market |-> section.market, title |-> section.title,
     head |-> IF style.headed THEN HeaderOf(style) ELSE <<>>,
     rows |-> style.junk \o
              [i \in DOMAIN section.instruments |->
                  RowOf(section.instruments[i], style)] \o
              style.junk]

Page(board, style) == [i \in DOMAIN board |-> TableOf(board[i], style)]

----------------------------------------------------------------------------
\* What the site publishes: every price under a name and a title of its own, and
\* the ways there are to render it.  A row that is not an instrument is missing
\* a name or a title, and only captions tell of another order of the columns.
Marks == {"/", "?", "#"}
Numbers == {n \in [whole: Seq(0..9), part: Seq(0..9)] : n.whole = <<>> => n = Missing}
Instruments ==
    [key: Seq(STRING \ Marks) \ {<<>>}, title: STRING \ {""}, status: {"", "low", "high"},
     price: Numbers, low: Numbers, high: Numbers, percent: Numbers, amount: Numbers,
     time: Seq(Nat)]
Sections == [title: STRING, market: BOOLEAN, instruments: Seq(Instruments)]

Cells == [nodes: Seq(Seq(Nat)), classes: Seq(STRING)]
OtherRows ==
    {r \in [slug: Seq(STRING), title: STRING, dataPrice: Seq(Nat), cells: Seq(Cells),
            href: Seq(STRING)] :
        r.title = "" \/ (r.slug = <<>> /\ r.href = <<>>)}
Styles ==
    {s \in [order: Seq(Fields \cup {"other"}) \ {<<>>}, named: SUBSET Fields,
            headed: BOOLEAN, tip: SUBSET {"time"}, zero: {48, 1632, 1776},
            group: Seq({Comma, ArabicThousands, Space, NonJoiner}),
            point: {Dot, ArabicDecimal}, wrap: Seq(Spaces \cup ZeroWidth),
            class: Seq(STRING \ {"low", "high"}), raw: Seq(Nat), split: Nat,
            slugged: BOOLEAN, short: BOOLEAN, junk: Seq(OtherRows),
            link: {"relative", "rooted", "absolute", "schemeless", "query", "slash"}] :
        /\ IsInjective(s.order) /\ Fields \subseteq ToSet(s.order)
        /\ ~s.headed \/ Cardinality(s.named) < 3 => IsPrefix(Historical, s.order)
        /\ s.short => s.slugged}
=============================================================================
