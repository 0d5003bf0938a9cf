----------------------------- MODULE BoardQuery -----------------------------
(***************************************************************************)
(* What the interfaces make of a snapshot: the /v1/markets handlers with   *)
(* their filters, the legacy shapes, and tgju get.  One question is asked  *)
(* of each page that Scraper reads; published.request holds it.            *)
(*                                                                         *)
(* A text of the question is a sequence of words and spaces; ?keys= and    *)
(* --keys are the sequence of such texts between the commas.               *)
(***************************************************************************)
EXTENDS Scraper, Output

LOCAL INSTANCE ErrorTaxonomy

VARIABLE answer  \* [status, groups]; status is 0 for a command that succeeded

queryVars == <<published, pc, tables, result, answer>>

request == published.request

\* What may be asked.
Texts == Seq(STRING)
Requests ==
    [kind: {"board", "items", "item", "flat", "grouped", "get"},
     category: Texts, keys: Seq(Texts), key: Texts, unit: Units]

ASSUME RequestsAssumption == \A p \in Publications : p.request \in Requests

Trimmed(text) == Select(text, LAMBDA w : w # " ")

\* splitKeys and splitCSV: blank parts do not count, so "," is no filter.
AllParts(parts) == {Trimmed(p) : p \in ToSet(parts)}  \* mutant: blank parts count
SplitKeys(parts) == {Trimmed(p) : p \in ToSet(parts)} \ {<<>>}

\* filterCategories, and filter of the command line: what the keys leave empty
\* is dropped; a category alone is kept whole.
Filter(categories, category, keys) ==
    LET titled == Select(categories,
                            LAMBDA c : category = <<>> \/ category = <<c.title>>)
        kept == [i \in DOMAIN titled |->
                   [title |-> titled[i].title,
                    items |-> Select(titled[i].items, LAMBDA x : x.key \in keys)]]
    IN IF keys = {} THEN titled ELSE Select(kept, LAMBDA c : c.items # <<>>)

\* Snapshot.Lookup: the first item with the key.
Lookup(categories, key) ==
    LET i == SelectInSeq(All(categories), LAMBDA x : x.key = key)
    IN IF i = 0 THEN <<>> ELSE <<All(categories)[i]>>

\* toLegacyItem: strings only, a missing amount is the empty one.
SwappedItem(x) ==  \* mutant: the daily extremes change places
    [key |-> x.key, title |-> x.title, category |-> x.category, status |-> x.status,
     price |-> x.price.text, low |-> x.high.text, high |-> x.low.text]
LegacyItem(x) ==
    [key |-> x.key, title |-> x.title, category |-> x.category, status |-> x.status,
     price |-> x.price.text, low |-> x.low.text, high |-> x.high.text]
LegacyItems(items) == [i \in DOMAIN items |-> LegacyItem(items[i])]

Group(title, items) == [title |-> title, items |-> items]
OK(groups) == [status |-> 200, groups |-> groups]
Refused(status) == [status |-> status, groups |-> <<>>]

\* The error load returned, as the API and the command line report it.
LoadError ==
    Rich("parse", 0, 0, {IF result.kind = "ErrNoTables" THEN "ErrParse" ELSE "ErrEmpty"})

----------------------------------------------------------------------------
\* handleMarket and handleMarketItems, with filterCategories.
FilterCategories(snap) ==
    Filter(snap, Trimmed(request.category), SplitKeys(request.keys))
Board(snap) == OK(FilterCategories(snap))
BoardItems(snap) == OK(<<Group("", All(FilterCategories(snap)))>>)

\* handleMarketItem.
BoardItem(snap) ==
    LET found == Lookup(snap, request.key)
    IN IF found = <<>> THEN Refused(404) ELSE OK(<<Group("", found)>>)

\* legacyBody: flat as /api/price/currency was, grouped as /api/price/gold.
Flat(snap) == OK(<<Group("", LegacyItems(All(snap)))>>)
Grouped(snap) ==
    OK([i \in DOMAIN snap |-> Group(snap[i].title, LegacyItems(snap[i].items))])

\* tgju get: the category is taken as it is, nothing left is an error, and the
\* amounts are printed in the unit asked for.
Get(snap) ==
    LET left == Filter(snap, request.category, SplitKeys(request.keys))
        Rows(items) == [i \in DOMAIN items |-> Row(items[i], request.unit)]
    IN IF IsEmpty(left) THEN Refused(ExitCode(Bare({"ErrNotFound"})))
       ELSE [status |-> 0,
             groups |-> [i \in DOMAIN left |-> Group(left[i].title, Rows(left[i].items))]]

Reply ==
    LET snap == result.categories
        failed == result.kind # "snapshot"
    IN CASE failed /\ request.kind = "get" -> Refused(ExitCode(LoadError))
         [] failed /\ request.kind # "get" -> Refused(Classify(LoadError).status)
         [] ~failed /\ request.kind = "board" -> Board(snap)
         [] ~failed /\ request.kind = "items" -> BoardItems(snap)
         [] ~failed /\ request.kind = "item" -> BoardItem(snap)
         [] ~failed /\ request.kind = "flat" -> Flat(snap)
         [] ~failed /\ request.kind = "grouped" -> Grouped(snap)
         [] ~failed /\ request.kind = "get" -> Get(snap)

Answer ==
    /\ pc = "done"
    /\ pc' = "answered"
    /\ answer' = Reply
    /\ UNCHANGED <<published, tables, result>>

QueryInit == Init /\ answer = Refused(0)
QueryNext == (Next /\ UNCHANGED answer) \/ Answer
QuerySpec == QueryInit /\ [][QueryNext]_queryVars

----------------------------------------------------------------------------
(* What makes an answer correct. *)

\* What of the board is asked for.
Wanted(entry) ==
    LET key == entry.instrument.key
        category == IF request.kind = "get" THEN request.category
                    ELSE Trimmed(request.category)
        asked == {text \in ToSet(request.keys) : \E i \in DOMAIN text : text[i] # " "}
    IN IF request.kind = "item" THEN key = request.key
       ELSE request.kind \in {"board", "items", "get"} =>
              /\ category = <<>> \/ category = <<entry.caption>>
              /\ asked = {} \/ \E text \in asked : Trimmed(text) = key

\* Through every interface a reader is given exactly the instruments the site
\* listed and the question asked for, in page order, under their captions, no
\* caption without one - and is refused only where there are none to give.
SelectionExact ==
    pc = "answered" =>
        LET matching == Select(Listed, Wanted)
            one == request.kind = "item" /\ matching # <<>>
            wanted == IF one THEN <<Head(matching)>> ELSE matching
            given == All(answer.groups)
        IN /\ Len(given) = Len(wanted)
           /\ \A i \in DOMAIN given : /\ given[i].key = wanted[i].instrument.key
                                      /\ given[i].category = wanted[i].caption
           /\ answer.status \in {0, 200} =>
                \A i \in DOMAIN answer.groups :
                    LET g == answer.groups[i]
                        captions == {g.items[j].category : j \in DOMAIN g.items}
                    IN g.title # "" => captions = {g.title}
           /\ answer.status \notin {0, 200} => wanted = <<>>

\* server/legacy.go: the strings of the old interface are the site's own
\* rendering with the digits of a program, and "" where the site showed a dash or
\* no such column.  (An element inside a number reads as a space: split.)
LegacyFaithful ==
    pc = "answered" /\ request.kind \in {"flat", "grouped"} /\ published.style.split = 0 =>
        \A i \in DOMAIN All(answer.groups) :
            LET x == All(answer.groups)[i]
                n == Listed[i].instrument
                shown(f) == IF n[f] = Missing THEN <<>>
                            ELSE Clean(TextOf(n, f, published.style))
            IN /\ x.price = shown("price")
               /\ x.low = IF Found("low") THEN shown("low") ELSE <<>>
               /\ x.high = IF Found("high") THEN shown("high") ELSE <<>>
               /\ x.status = IF Found("change") THEN n.status ELSE ""

\* The price a person reads on the terminal is the site's, in whatever unit: the
\* printed text, read back with the library's own parser, is the number published
\* for that instrument, or a tenth of it, and what the site did not publish, or
\* not in a column that can be found, is a dash.
UnitsAgree ==
    pc = "answered" /\ request.kind = "get" =>
        LET listed == Select(Listed, Wanted)
            given == All(answer.groups)
            shown == {"price", "low", "high"}
                     \cup IF published.style.raw = <<>> THEN {"amount"} ELSE {}
        IN \A i \in DOMAIN given, f \in shown :
             LET n == listed[i].instrument[f]
                 there == f = "price" \/ Found(IF f = "amount" THEN "change" ELSE f)
                 rials == NumberOf(n)
             IN IF n = Missing \/ ~there THEN given[i][f] = Dash
                ELSE SameNumber(Value(given[i][f]),
                                IF request.unit = "toman"
                                THEN Number(FALSE, rials.digits, rials.scale + 1)
                                ELSE rials)
=============================================================================
