------------------------------ MODULE MCScraper -----------------------------
(* Boards and renderings for TLC: every order of the columns with every set   *)
(* of recognised captions, every way to write a number, every kind of row and *)
(* link, and change cells of arbitrary text.                                  *)
EXTENDS BoardQuery

CONSTANT MaxRaw  \* bound: length of an arbitrary change cell

Dollar ==
    [key |-> <<"dollar">>, title |-> "Dollar", status |-> "low",
     price |-> [whole |-> <<1, 8, 6, 4>>, part |-> <<>>],
     low |-> [whole |-> <<7>>, part |-> <<>>], high |-> [whole |-> <<2, 0>>, part |-> <<5>>],
     percent |-> [whole |-> <<0>>, part |-> <<3, 2>>],
     amount |-> [whole |-> <<6, 0, 5, 0>>, part |-> <<>>],
     time |-> <<1777, 58, 52>>]
Ounce ==
    [Dollar EXCEPT !.key = <<"ounce">>, !.title = "Ounce", !.status = "",
                   !.low = Missing, !.percent = [whole |-> <<0>>, part |-> <<>>],
                   !.amount = [whole |-> <<0>>, part |-> <<>>], !.time = <<>>]

Section(title, market, instruments) ==
    [title |-> title, market |-> market, instruments |-> instruments]
Two == <<Section("cash", TRUE, <<Dollar, Ounce>>)>>
Boards ==
    {<<>>, <<Section("news", FALSE, <<Dollar>>)>>, <<Section("cash", TRUE, <<>>)>>,
     <<Section("news", FALSE, <<Ounce>>), Section("bubble", TRUE, <<>>),
       Section("cash", TRUE, <<Ounce, Dollar>>), Section("cash", TRUE, <<Dollar>>)>>}

Usual ==
    [order |-> Historical, named |-> Fields, headed |-> TRUE, tip |-> {},
     zero |-> 48, group |-> <<Comma>>, point |-> Dot, wrap |-> <<>>, class |-> <<>>,
     raw |-> <<>>, split |-> 0, slugged |-> TRUE,
     link |-> "relative", short |-> FALSE, junk |-> <<>>]

\* The columns in any order, some captions unknown, a column nobody knows.
Orders == {[i \in 1..5 |-> p[i]] : p \in SetToSeqs(Fields)}
Reordered ==
    {[Usual EXCEPT !.order = o, !.named = known, !.tip = t] :
        o \in Orders, known \in {k \in SUBSET Fields : Cardinality(k) >= 3},
        t \in {{}, {"time"}}}
Unknown ==
    {[Usual EXCEPT !.named = known, !.headed = h] :
        known \in {k \in SUBSET Fields : Cardinality(k) < 3}, h \in BOOLEAN}
Widened ==
    {[Usual EXCEPT !.order = InsertAt(Historical, i, "other"), !.short = s] :
        i \in 1..6, s \in BOOLEAN}

\* Scripts, separators and the spaces and invisible runes around them.
Written ==
    {[Usual EXCEPT !.zero = z, !.group = g, !.point = p, !.wrap = w, !.split = n,
                    !.class = IF n = 0 THEN <<>> ELSE <<"type">>] :
        z \in {48, 1632, 1776},
        g \in {<<>>, <<Comma>>, <<ArabicThousands>>, <<Space>>, <<NonJoiner>>},
        p \in {Dot, ArabicDecimal},
        w \in {<<>>, <<Space>>, <<NonJoiner, Space>>, <<160, 10>>},
        n \in {0, 2, 4}}

\* Rows: named by attribute or link, and what else a table may hold.
Tabled ==
    {[Usual EXCEPT !.slugged = s, !.link = l, !.junk = j] :
        s \in BOOLEAN,
        l \in {"relative", "rooted", "absolute", "schemeless", "query", "slash"},
        j \in {<<>>, <<Spacer>>, <<Advertisement, Nameless>>, <<Footer>>}}

Raw == {[Usual EXCEPT !.raw = r] :
          r \in BoundedSeq({53, 1785, Dot, Minus, Space, Open, Shut}, MaxRaw)}

\* Questions: blank, padded and unknown filters.
Ask(kind, category, keys, key) ==
    [kind |-> kind, category |-> category, keys |-> keys, key |-> key, unit |-> "raw"]
Whole == Ask("board", <<>>, <<<<>>>>, <<>>)
Questions ==
    [kind: {"board", "items", "get"},
     category: {<<>>, <<"cash">>, <<" ", "cash">>, <<"bubble">>, <<" ">>},
     keys: {<<<<>>>>, <<<<" ">>, <<>>>>, <<<<"ounce">>, <<" ", "ounce">>>>,
            <<<<"footer">>, <<"dollar", " ">>, <<"ounce">>>>, <<<<"gone">>>>},
     key: {<<>>}, unit: {"raw"}]
    \cup {Ask("item", <<>>, <<<<>>>>, k) : k \in {<<"dollar">>, <<"ounce">>, <<"footer">>}}
    \cup {Ask(kind, <<>>, <<<<>>>>, <<>>) : kind \in {"flat", "grouped"}}

AllPublications ==
    [board: {Two}, request: {Whole},
     style: Reordered \cup Unknown \cup Widened \cup Raw]
    \cup [board: {Two}, request: {Ask("flat", <<>>, <<<<>>>>, <<>>)},
          style: {s \in Written : s.split = 0}]
    \cup [board: {Two}, request: {Whole}, style: {s \in Written : s.split # 0}]
    \cup [board: {Two}, request: {[Whole EXCEPT !.kind = "get", !.unit = u] : u \in Units},
          style: {s \in Written : s.split = 0}]
    \cup [board: {Two} \cup Boards, request: {Whole}, style: Tabled]
    \cup [board: {Two} \cup Boards, request: Questions,
          style: {s \in Tabled : s.link = "relative" /\ s.slugged}]
=============================================================================
