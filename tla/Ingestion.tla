------------------------------ MODULE Ingestion ------------------------------
(***************************************************************************)
(* From an uploaded export to orders: which cells the reader of an HTML    *)
(* table or a CSV file finds, and what MapOrder makes of a row (packages   *)
(* ingestion and normalize).  A cell is a sequence of what it is made of:  *)
(* the words of a text, the digits of a number, the amounts of a journal,  *)
(* the parts of a place; <<>> is a blank cell.  Words are in lower case,   *)
(* Latin letters stand for the Russian ones.                               *)
(***************************************************************************)
EXTENDS OrderRows, SequencesExt

CONSTANTS Codes,        \* words like [s1], the codes of Bitrix in brackets
          Genders,      \* gender words and what they are normalised to
          ShortWords,   \* the words of at most four characters
          DateLayouts   \* the layouts of a date that Time knows

Words(cell) == FoldLeft(LAMBDA text, w : IF text = "" THEN w ELSE text \o " " \o w, "", cell)

-----------------------------------------------------------------------------
(* normalize *)

Gap == 10     \* any character of a number that is not a digit

Money(cell) == FoldLeft(LAMBDA n, d : IF d = Gap THEN n ELSE n * 10 + d, 0, cell)

Bool(cell) == Words(cell) \in {"da", "yes", "y", "true", "1"}

(* The country in front is dropped, unless it is all there is. *)
Location(parts) ==
    LET local == IF Len(parts) > 1 /\ Head(parts) = "russia" THEN Tail(parts) ELSE parts
    IN  IF local = <<>> THEN [region |-> "", city |-> ""]
        ELSE [region |-> Head(local), city |-> local[Len(local)]]

statusMap ==
    [s \in {"ne podtverzhden"} |-> "new"] ++ [s \in {"oplachen"} |-> "paid"] ++
    [s \in {"prinyat", "obrabotan", "ozhidaet otpravku", "sobiraetsya"} |-> "processing"] ++
    [s \in {"otpravlen"} |-> "shipped"] ++ [s \in {"pribyl v pvz"} |-> "in_pvz"] ++
    [s \in {"vypolnen"} |-> "completed"] ++ [s \in {"zakryt"} |-> "closed"] ++
    [s \in {"vozvrat zakaza", "sovershyon chastichnyy vozvrat sredstv",
            "sovershen chastichnyy vozvrat sredstv", "sovershyon vozvrat sredstv",
            "sovershen vozvrat sredstv"} |-> "returned"]

StatusStage(statusRaw, isCanceled) ==
    IF isCanceled THEN "canceled"
    ELSE IF statusRaw \in DOMAIN statusMap THEN statusMap[statusRaw] ELSE "other"

Part(words, k) == IF k \in DOMAIN words THEN words[k] ELSE ""

normalizeGender(word) == IF word \in DOMAIN Genders THEN Genders[word] ELSE ""

Product(words) ==
    [brand    |-> Part(words, 1),
     category |-> Part(words, 2),
     gender   |-> normalizeGender(Part(words, 3)),
     size     |-> IF Len(words) > 2 /\ words[Len(words)] \in ShortWords
                  THEN words[Len(words)] ELSE ""]

(* A date of no known layout is the zero time. *)
Time(cell) ==
    IF Len(cell) = 2 /\ Head(cell) \in DateLayouts THEN cell[2] ELSE NoDay

-----------------------------------------------------------------------------
(* bitrix.go *)

Blank(rec, h) == h \notin DOMAIN rec \/ rec[h] = <<>>

(* A header, or else a longer one that begins like it: Longer[h].          *)
get(rec, h, Longer) ==
    LET alike == {x \in Longer[h] : ~Blank(rec, x)}
    IN  IF ~Blank(rec, h) THEN rec[h]
        ELSE IF alike = {} THEN <<>> ELSE rec[CHOOSE x \in alike : TRUE]

(* Faulty variant: what was paid back is not held against the sum.         *)
refundAmountUncapped(status, total, payments) ==
    IF total <= 0 \/ "vozvrat" \notin Range(status) THEN 0
    ELSE IF "chastichnyy" \notin Range(status) THEN total
    ELSE IF Len(payments) < 2 THEN 0 ELSE Money(payments[Len(payments)])

(* A partial return pays back the last amount of the journal, if there is  *)
(* one after the payment itself, and no more than the sum.                 *)
refundAmount(status, total, payments) ==
    IF total <= 0 \/ "vozvrat" \notin Range(status) THEN 0
    ELSE IF "chastichnyy" \notin Range(status) THEN total
    ELSE IF Len(payments) < 2 THEN 0
    ELSE Min({total, Money(payments[Len(payments)])})

splitPrices(prices) == [k \in DOMAIN prices |-> Money(prices[k])]

(* A number, and 1 where there is none or it is 0. *)
atoi(digits) == LET n == Money(digits) IN IF n = 0 THEN 1 ELSE n

parseItems(positions, prices) ==
    LET list == splitPrices(prices)
        Item(k) ==
            LET p     == positions[k]
                price == IF k \in DOMAIN list THEN list[k] ELSE 0
                qty   == atoi(p.qty)
            IN  [name |-> Words(p.name), qty |-> qty, sum |-> price * qty] ++ Product(p.name)
    IN  [k \in DOMAIN positions |-> Item(k)]

(* The codes go, and a value that says the same twice says it once. *)
cleanDict(cell) ==
    LET words == SelectSeq(cell, LAMBDA w : w \notin Codes)
        half  == Len(words) \div 2
        first == SubSeq(words, 1, half)
    IN  Words(IF half > 0 /\ words = first \o first THEN first ELSE words)

channel(fromApp) == IF Bool(fromApp) THEN "app" ELSE "site"

(* A row of the export as an order; NoNumber when it has no number.        *)
MapOrder(rec, Longer, NoNumber) ==
    LET Cell(h)  == get(rec, h, Longer)
        canceled == Bool(Cell("canceled"))
        status   == Cell("status")
        total    == Money(Cell("total"))
        place    == Location(Cell("location"))
        lines    == parseItems(Cell("positions"), Cell("prices"))
    IN  [order   |-> IF Cell("number") = <<>> THEN NoNumber ELSE Head(Cell("number")),
         created |-> Time(Cell("created")),
         updated |-> Time(Cell("updated")),
         lines   |-> Len(lines),
         content |->
            [customer     |-> Words(Cell("customer")),
             email        |-> Words(Cell("email")),
             phone        |-> Words(Cell("phone")),
             total        |-> total,
             refund       |-> refundAmount(status, total, Cell("payments")),
             deliveryCost |-> Money(Cell("deliveryCost")),
             statusRaw    |-> Words(status),
             stage        |-> StatusStage(Words(status), canceled),
             paid         |-> Bool(Cell("paid")),
             canceled     |-> canceled,
             payment      |-> cleanDict(Cell("payment")),
             delivery     |-> cleanDict(Cell("delivery")),
             channel      |-> channel(Cell("fromApp")),
             coupon       |-> cleanDict(Cell("coupon")),
             region       |-> place.region,
             city         |-> place.city,
             problem      |-> Bool(Cell("problem")),
             problemDesc  |-> Words(Cell("problemDesc")),
             cancelReason |-> Words(Cell("cancelReason")),
             items        |-> lines]]

-----------------------------------------------------------------------------
(* parser.go: what a reader holds, and what each token does to it.         *)
NoHeaders == <<>>

Start == [depth |-> 0, inRow |-> FALSE, inCell |-> FALSE, cell |-> <<>>,
          row |-> <<>>, headers |-> NoHeaders, out |-> <<>>, over |-> FALSE]

(* The cells of the first row name the columns. *)
Names(row) == [k \in DOMAIN row |-> Words(row[k])]

recordFromRow(headers, row) ==
    [h \in {headers[k] : k \in DOMAIN headers \cap DOMAIN row} |->
        row[Max({k \in DOMAIN headers \cap DOMAIN row : headers[k] = h})]]

finishCell(s) ==
    IF s.inCell THEN [s EXCEPT !.row = Append(@, s.cell), !.cell = <<>>, !.inCell = FALSE]
    ELSE s

(* The first row with cells is the header, every later one a record.       *)
finishRow(s) ==
    LET t == [finishCell(s) EXCEPT !.inRow = FALSE]
    IN  CASE t.row = <<>>          -> t
          [] t.headers = NoHeaders -> [t EXCEPT !.headers = Names(t.row)]
          [] OTHER -> [t EXCEPT !.out = Append(@, recordFromRow(t.headers, t.row))]

FinishOpenRow(s) == IF s.inRow THEN finishRow(s) ELSE s

StartTag(s, tag) ==
    CASE tag = "table"                               -> [s EXCEPT !.depth = @ + 1]
      [] tag = "tr" /\ s.depth = 1 /\ ~s.inRow       -> [s EXCEPT !.inRow = TRUE, !.row = <<>>]
      [] tag \in {"td", "th"} /\ s.depth = 1 /\ s.inRow /\ ~s.inCell
                                                     -> [s EXCEPT !.inCell = TRUE, !.cell = <<>>]
      [] OTHER                                       -> s

(* Faulty variant: the end of a table inside a cell ends the outer one.    *)
EndTagAnyTable(s, tag) ==
    CASE tag = "table" /\ s.depth > 0          -> [FinishOpenRow(s) EXCEPT !.depth = 0, !.over = TRUE]
      [] tag \in {"td", "th"} /\ s.depth = 1   -> finishCell(s)
      [] tag = "tr" /\ s.depth = 1 /\ s.inRow  -> finishRow(s)
      [] OTHER                                 -> s

(* The reader stops where the outer table ends. *)
EndTag(s, tag) ==
    CASE tag = "table" /\ s.depth > 1          -> [s EXCEPT !.depth = @ - 1]
      [] tag = "table" /\ s.depth = 1          -> [FinishOpenRow(s) EXCEPT !.depth = 0, !.over = TRUE]
      [] tag \in {"td", "th"} /\ s.depth = 1   -> finishCell(s)
      [] tag = "tr" /\ s.depth = 1 /\ s.inRow  -> finishRow(s)
      [] OTHER                                 -> s

Token(s, token) ==
    CASE s.over               -> s
      [] token[1] = "start"   -> StartTag(s, token[2])
      [] token[1] = "end"     -> EndTag(s, token[2])
      [] OTHER                -> IF s.inCell /\ s.depth = 1
                                 THEN [s EXCEPT !.cell = @ \o token[2]] ELSE s

Refused == [ok |-> FALSE, records |-> <<>>]
Read(records) == [ok |-> TRUE, records |-> records]

(* The file may end before its table does: what was read so far counts.    *)
streamHTML(tokens) ==
    LET s == FinishOpenRow(FoldLeft(Token, Start, tokens))
    IN  IF s.headers = NoHeaders THEN Refused ELSE Read(s.out)

(* The first row is the header, also a shorter or a longer row is a record.*)
streamCSV(rows) ==
    IF rows = <<>> THEN Refused
    ELSE Read([k \in 1..Len(rows) - 1 |-> recordFromRow(Names(Head(rows)), rows[k + 1])])

(* Told apart by how the file begins; a real XLSX is refused. *)
Stream(doc) ==
    CASE doc.kind = "xlsx" -> Refused
      [] doc.kind = "html" -> streamHTML(doc.tokens)
      [] OTHER             -> streamCSV(doc.rows)
=============================================================================
