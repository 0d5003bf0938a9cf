------------------------------ MODULE Scraper -------------------------------
(***************************************************************************)
(* The second half of Client.load: internal/scrape reads the tables of a   *)
(* page into rows of text, convert.go turns them into a snapshot.          *)
(*                                                                         *)
(* Columns are counted from 1; 0 is the code's -1, a column nobody saw.    *)
(* An element without a child counts as one with an empty child, which the *)
(* code treats alike: a row without th has no title, a table without head  *)
(* the default layout.                                                     *)
(***************************************************************************)
EXTENDS MarketPage

CONSTANT Publications  \* what the site may publish and is asked of it:
                       \*   [board, style, request]

ASSUME PublicationsAssumption ==
    \A p \in Publications : p.board \in Seq(Sections) /\ p.style \in Styles

VARIABLES
    published,  \* what it did publish; never changes
    pc,         \* "parsing", "reading", "done"; "answered" in BoardQuery
    tables,     \* the tables read so far
    result      \* of load: [kind, categories]

vars == <<published, pc, tables, result>>

----------------------------------------------------------------------------
(* Header cells. *)

Keyword(word, field) == [word |-> word, field |-> field]
HeaderKeywords ==
    <<Keyword("livePrice", "price"), Keyword("liveRate", "price"),
      Keyword("change", "change"), Keyword("lowest", "low"),
      Keyword("highest", "high"), Keyword("time", "time")>>
DefaultLayout == [price |-> 1, change |-> 2, low |-> 3, high |-> 4, time |-> 5]

\* The field a header cell names: the first keyword it contains.
FieldNamed(caption) ==
    LET k == SelectInSeq(HeaderKeywords, LAMBDA w : w.word \in caption)
    IN IF k = 0 THEN "none" ELSE HeaderKeywords[k].field

\* parseHead: the data columns start at the second header cell; the last cell
\* that names a field wins, and fewer than three named cells count as none.
LayoutOf(head) ==
    LET cells == IF head = <<>> THEN <<>> ELSE Tail(head)
        fields == [i \in DOMAIN cells |-> FieldNamed(cells[i])]
    IN IF Cardinality({i \in DOMAIN cells : fields[i] # "none"}) < 3 THEN DefaultLayout
       ELSE [f \in Fields |-> SelectLastInSeq(fields, LAMBDA g : g = f)]

----------------------------------------------------------------------------
(* Body rows. *)

\* dom.Text: the text nodes of a cell; an element boundary counts as a space.
Text(cell) ==
    Collapsed(FlattenSeq([i \in DOMAIN cell.nodes |-> Append(cell.nodes[i], Space)]))

StatusOf(cell) ==
    LET i == SelectInSeq(cell.classes, LAMBDA c : c \in {"low", "high"})
    IN IF i = 0 THEN "" ELSE cell.classes[i]

\* slugFromHref: the last segment, without a closing slash, query or fragment.
SlugWithQuery(href) ==  \* mutant: a query stays in the name
    SubSeq(href, SelectLastInSeq(href, LAMBDA t : t = "/") + 1, Len(href))
SlugFromHref(href) ==
    LET path == IF href # <<>> /\ Last(href) = "/" THEN Front(href) ELSE href
        name == SubSeq(path, SelectLastInSeq(path, LAMBDA t : t = "/") + 1, Len(path))
        mark == SelectInSeq(name, LAMBDA t : t \in {"?", "#"})
    IN IF mark = 0 THEN name ELSE SubSeq(name, 1, mark - 1)

\* parseRow: the cells of the row where the layout says.
ReadRow(tr, cols) ==
    LET at(f) == IF cols[f] \in DOMAIN tr.cells THEN tr.cells[cols[f]] ELSE NoCell
        text(f) == Clean(Text(at(f)))
    IN [slug |-> IF tr.slug = <<>> THEN SlugFromHref(tr.href) ELSE tr.slug,
        title |-> tr.title,
        price |-> IF text("price") = <<>> THEN Clean(tr.dataPrice) ELSE text("price"),
        change |-> text("change"), status |-> StatusOf(at("change")),
        low |-> text("low"), high |-> text("high"), time |-> text("time"),
        profile |-> tr.href]

\* A row without a slug or a title is not a price.
IsPrice(row) == row.slug # <<>> /\ row.title # ""

ParseTable(table) ==
    LET cols == LayoutOf(table.head)
    IN [title |-> table.title,
        rows |-> Select([i \in DOMAIN table.rows |-> ReadRow(table.rows[i], cols)],
                           IsPrice)]

----------------------------------------------------------------------------
(* convert.go. *)

StartsWith(href, prefix) ==
    Len(prefix) <= Len(href) /\ SubSeq(href, 1, Len(prefix)) = prefix

AbsoluteURL(href) ==
    CASE href = <<>> -> <<>>
      [] StartsWith(href, <<"http:", "/", "/">>)
         \/ StartsWith(href, <<"https:", "/", "/">>) -> href
      [] StartsWith(href, <<"/", "/">>) -> <<"https:">> \o href
      [] StartsWith(href, <<"/">>) /\ ~StartsWith(href, <<"/", "/">>) -> Base \o href
      [] OTHER -> Base \o <<"/">> \o href

ItemFrom(category, row) ==
    [key |-> row.slug, title |-> row.title, category |-> category,
     price |-> AmountOf(row.price),
     low |-> AmountOf(row.low), high |-> AmountOf(row.high),
     status |-> row.status, percent |-> Change(row.change).percent,
     amount |-> AmountOf(Change(row.change).amount),
     time |-> row.time, profile |-> AbsoluteURL(row.profile)]

\* snapshotFrom: a table without rows leaves no category.
SnapshotFrom(read) ==
    LET filled == Select(read, LAMBDA t : t.rows # <<>>)
    IN [i \in DOMAIN filled |->
          [title |-> filled[i].title,
           items |-> [j \in DOMAIN filled[i].rows |->
                        ItemFrom(filled[i].title, filled[i].rows[j])]]]

\* Snapshot.All and IsEmpty.
All(categories) == FlattenSeq([i \in DOMAIN categories |-> categories[i].items])
NoTables(categories) == tables = <<>>  \* mutant: rows are not counted
IsEmpty(categories) == Len(All(categories)) = 0

----------------------------------------------------------------------------
MarketTables == Select(Page(published.board, published.style), LAMBDA t : t.market)

Pending == [kind |-> "pending", categories |-> <<>>]
Error(kind) == [kind |-> kind, categories |-> <<>>]

Init ==
    /\ published \in Publications
    /\ pc = "parsing"
    /\ tables = <<>>
    /\ result = Pending

Return(r) == pc' = "done" /\ result' = r

\* Tables: a page that holds no market table is not a board.
FindTables ==
    /\ pc = "parsing"
    /\ IF MarketTables = <<>>
       THEN Return(Error("ErrNoTables"))
       ELSE pc' = "reading" /\ UNCHANGED result
    /\ UNCHANGED <<published, tables>>

ReadTable ==
    /\ pc = "reading"
    /\ Len(tables) < Len(MarketTables)
    /\ tables' = Append(tables, ParseTable(MarketTables[Len(tables) + 1]))
    /\ UNCHANGED <<published, pc, result>>

\* What load does with the tables: a snapshot, unless nothing is in it.
Assemble ==
    /\ pc = "reading"
    /\ Len(tables) = Len(MarketTables)
    /\ LET snap == SnapshotFrom(tables)
       IN Return(IF IsEmpty(snap) THEN Error("ErrEmpty")
                 ELSE [kind |-> "snapshot", categories |-> snap])
    /\ UNCHANGED <<published, tables>>

Next == FindTables \/ ReadTable \/ Assemble

Spec == Init /\ [][Next]_vars

----------------------------------------------------------------------------
(* What makes the reading of a page correct. *)

\* What the site listed, in page order, each with its section's caption.
Listed ==
    LET sections == Select(published.board, LAMBDA s : s.market)
        captioned(s) == [i \in DOMAIN s.instruments |->
                           [caption |-> s.title, instrument |-> s.instruments[i]]]
    IN FlattenSeq([i \in DOMAIN sections |-> captioned(sections[i])])

Items == All(result.categories)
Read == result.kind = "snapshot"

\* ErrNoTables and ErrEmpty of scrape.go and errors.go: "tgju changed its
\* markup" is told from "tgju published nothing", and neither from a board.
EmptyReported ==
    pc \in {"done", "answered"} =>
        /\ result.kind = "ErrNoTables" <=> \A i \in DOMAIN published.board :
                                              ~published.board[i].market
        /\ Read <=> Listed # <<>>

\* No instrument is lost, repeated, invented or moved, whatever stands between
\* the rows and whether a row carries its name as an attribute or in its link.
RowsKept ==
    /\ Len(Items) = Len(Listed)
    /\ \A i \in DOMAIN Items :
         /\ Items[i].key = Listed[i].instrument.key
         /\ Items[i].title = Listed[i].instrument.title
         /\ Items[i].category = Listed[i].caption

\* Every link names the instrument's own page on the site, however the page
\* wrote it; only a closing slash or a query may follow.
ProfileReached ==
    \A i \in DOMAIN Items :
        \/ published.style.short
        \/ StartsWith(Items[i].profile,
                      Base \o <<"/", "profile", "/">> \o Listed[i].instrument.key)

\* The rows of the snapshot are the rows of the board, each with its link.
InstrumentsKept == Read => RowsKept /\ ProfileReached

\* A column can be found: by its caption if three are known, by the historical
\* order otherwise - and the row is long enough to have it.
Found(f) ==
    LET style == published.style
        columns == {j \in DOMAIN style.order : style.order[j] = f}
    IN /\ Cardinality(style.named) >= 3 /\ style.headed => f \in style.named
       /\ style.short => 1 \in columns

NumberOf(n) == Number(FALSE, n.whole \o n.part, Len(n.part))
Shows(amount, n) ==
    IF n = Missing THEN amount = NoAmount
    ELSE Readable(amount.value) /\ SameNumber(amount.value, NumberOf(n))

\* scrape.go:82: a reshuffle upstream does not swap the daily low with the daily
\* high.  Every amount is the number published under that caption, in any order
\* of the columns and any script, grouping and spacing, as long as three captions
\* are known; a column that is not there is missing, never another column.  With
\* fewer known captions the columns are read in the historical order, and the
\* boards here are published in it (Styles).
AmountsUnderTheirCaptions ==
    \A i \in DOMAIN Items :
        LET x == Items[i]  n == Listed[i].instrument IN
        /\ Shows(x.price, n.price)
        /\ Shows(x.low, IF Found("low") THEN n.low ELSE Missing)
        /\ Shows(x.high, IF Found("high") THEN n.high ELSE Missing)
        /\ x.time = IF Found("time") THEN Clean(n.time) ELSE <<>>

\* numfmt.Change: the percentage and the absolute part of a change are not mixed
\* up, and the direction is the one the classes of the cell give.
ChangeSplit ==
    published.style.raw = <<>> => \A i \in DOMAIN Items :
        LET x == Items[i]
            n == Listed[i].instrument
            found == Found("change")
        IN /\ x.status = IF found THEN n.status ELSE ""
           /\ SameNumber(x.percent, IF found THEN NumberOf(n.percent) ELSE Unreadable)
           /\ Shows(x.amount, IF found THEN n.amount ELSE Missing)

\* No value of a board is found under another caption than the site's.
ColumnsKept == Read => AmountsUnderTheirCaptions /\ ChangeSplit

\* FuzzChange: whatever a cell holds, parsing invents nothing.  The digits of
\* the percentage and of the amount are digits of the cell, each once, in order,
\* and only what precedes the parentheses is dropped.
NothingInvented ==
    Read => \A i \in DOMAIN Items :
        LET cell == Digits(TextOf(Listed[i].instrument, "change", published.style))
            digits == Select(cell, IsDigit)
            values == [j \in DOMAIN digits |-> digits[j] - 48]
            used == Items[i].percent.digits \o Items[i].amount.value.digits
        IN Found("change") => /\ IsSuffix(used, values)
                              /\ Open \notin ToSet(cell) => used = values
=============================================================================
