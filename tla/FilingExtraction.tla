--------------------------- MODULE FilingExtraction ---------------------------
(***************************************************************************)
(* From a delivered spreadsheet to the rows of the customer's landing      *)
(* table: sidecar/ingest/extract.ts over infrastructure/workbook-reader.ts *)
(* and the ingest domain's extraction.ts and landing.ts, and the landing   *)
(* transaction of infrastructure/postgres-landing.ts.                      *)
(*                                                                         *)
(* A file is streamed three times: when it is inspected, and twice while   *)
(* it lands (the rows are inspected again before they are read).  Each     *)
(* reading hashes the path before and after, and takes its rows one by one *)
(* from whatever the path holds then.  The declarations of the rule may be *)
(* exported anew, and the source configured anew, whenever none of this    *)
(* runs.  FilingRegister has the register, its passes and its receipts.    *)
(*                                                                         *)
(* A sheet is a set of row numbers with their cells, and the merges.  Left *)
(* out: the size limits, the ZIP and XML of a workbook, batches, BOOLEAN.  *)
(***************************************************************************)
EXTENDS Naturals, Sequences, FiniteSets, FiniteSetsExt, SequencesExt, Functions

CONSTANTS
  Sheet,       \* the contents the first delivery may have
  Later,       \* those of a later delivery, and of a rewritten file
  Declaration, \* what rules and filing parties may declare
  None,
  MaxFilings,  \* bound on deliveries
  MaxChanges,  \* bound on rewritten files, new exports and failures
  Restored     \* a rewritten file may get its identified bytes back

VARIABLES
  file,        \* what the path holds now
  filing,      \* number, identified bytes, status, the stored extraction and,
               \* as history, the declarations it was made under
  declared,    \* the declarations exported last
  strategy,    \* the strategy the source is configured with
  reader,      \* the running reading of the file, or None
  landing,     \* the open landing transaction, or None
  spilled,     \* the temporary index of shared strings exists
  landed,      \* landing database: what the current filing left there, if any
  group,       \* landing database: the established columns
  recorded,    \* landing database: the source's strategy
  alterations

database == <<landed, group, recorded>>
vars == <<file, filing, declared, strategy, reader, landing, spilled, database, alterations>>

Altered == alterations < MaxChanges /\ alterations' = alterations + 1

-------------------------------------------------------------------------------
(* Cells: <<kind>> or <<kind, value>>.  "number" and "day" are typed cells,   *)
(* "serial" a day counted by Excel; "figure" and "slashes" are texts that a   *)
(* locale may read as a number or a date, "words" one that none does.         *)
(* Values: a text or the cell, <<"numeric", cell>>, <<"date", date>>, None.   *)

Empty == <<"empty">>

MonthDays(y, mo) ==
  IF mo \in {4, 6, 9, 11} THEN 30
  ELSE IF mo # 2 THEN 31
  ELSE IF y % 4 = 0 /\ (y % 100 # 0 \/ y % 400 = 0) THEN 29 ELSE 28

\* Mutant of dateValue: every year has a leap day.
dateValueLeap(parts, order) ==
  LET day == parts[IF order = "DMY" THEN 1 ELSE 2]
      month == parts[IF order = "DMY" THEN 2 ELSE 1]
  IN  IF month \in 1..12 /\ day \in 1..MonthDays(2024, month)
      THEN <<parts[3], month, day>> ELSE None

dateValue(parts, order) ==
  LET day == parts[IF order = "DMY" THEN 1 ELSE 2]
      month == parts[IF order = "DMY" THEN 2 ELSE 1]
  IN  IF month \in 1..12 /\ day \in 1..MonthDays(parts[3], month)
      THEN <<parts[3], month, day>> ELSE None

(* Serial 60 is the leap day Excel gives 1900, which had none. *)
excelDate(serial) ==
  LET days == IF serial < 60 THEN serial ELSE serial - 1
  IN  IF days <= 31 THEN <<1900, 1, days>>
      ELSE IF days <= 59 THEN <<1900, 2, days - 31>> ELSE <<1900, 3, days - 59>>

Malformed(cell) == cell[1] \in {"error", "uncached"} \/ cell = <<"serial", 60>>

(* The reader's cell: a formula is its cached value. *)
Decoded(cell) == IF cell[1] = "serial" THEN <<"day", excelDate(cell[2])>> ELSE cell

(* What the party's declarations make of a cell. *)
inferCell(cell, d) ==
  CASE cell[1] = "number" -> <<"NUMERIC", <<"numeric", cell>>>>
    [] cell[1] = "day" -> <<"DATE", <<"date", cell[2]>>>>
    [] cell[1] = "slashes" /\ dateValue(cell[2], d.order) # None
         -> <<"DATE", <<"date", dateValue(cell[2], d.order)>>>>
    [] cell[1] = "figure" /\ d.separator = cell[2] -> <<"NUMERIC", <<"numeric", cell>>>>
    [] OTHER -> <<"TEXT", cell>>

(* Names are sequences: "a" is <<"a">>, "a_2" is <<"a", 2>>, "column_1" is    *)
(* <<"column", 1>>.  A generated name never takes a literal header's place.   *)
columnNames(headers) ==
  LET literal == Range(headers) \ {None}
      Free(name, generated, base, used) ==
        name \notin used /\ ((generated \/ name # base) => name \notin literal)
      Named(names, i) ==
        LET generated == headers[i] = None
            base == IF generated THEN <<"column", i>> ELSE headers[i]
            suffixed == {k \in 2..Len(headers) + 2 : Free(Append(base, k), generated, base, Range(names))}
        IN  Append(names, IF Free(base, generated, base, Range(names)) THEN base
                          ELSE Append(base, Min(suffixed)))
  IN  FoldLeft(Named, << >>, [i \in 1..Len(headers) |-> i])

(* The as-at date of a period <<year, number>>, when the rule declares one.   *)
periodAsAt(period, form) ==
  LET month == IF form = "quarter_end" THEN 3 * period[2] ELSE period[2]
  IN  <<period[1], month, IF form = "month_start" THEN 1 ELSE MonthDays(period[1], month)>>

-------------------------------------------------------------------------------
(* Deliveries, rewritten files, and what is declared *)

Fresh(n, s) == [number |-> n, bytes |-> s, status |-> "ready", extraction |-> None,
                 under |-> None]

Idle == reader = None /\ landing = None

Init ==
  /\ \E s \in Sheet : file = s /\ filing = Fresh(1, s)
  /\ declared \in Declaration /\ strategy \in {"append_as_at", "table_per_filing"}
  /\ reader = None /\ landing = None /\ spilled = FALSE
  /\ landed = {} /\ group = {} /\ recorded = None
  /\ alterations = 0

(* The next delivery of the same party and kind, once this one is settled. *)
Deliver(s) ==
  /\ Idle /\ filing.status # "ready" /\ filing.number < MaxFilings
  /\ file' = s /\ filing' = Fresh(filing.number + 1, s)
  /\ landed' = {}
  /\ UNCHANGED <<declared, strategy, reader, landing, spilled, group, recorded, alterations>>

Rewrite(s) ==
  /\ Altered /\ filing.status = "ready"
  /\ s # file /\ (s = filing.bytes => Restored)
  /\ file' = s
  /\ UNCHANGED <<filing, declared, strategy, reader, landing, spilled, database>>

(* Rules and parties are exported anew; the operator may change the source.   *)
Reconfigure ==
  /\ Altered /\ Idle
  /\ \/ declared' \in Declaration \ {declared} /\ UNCHANGED strategy
     \/ strategy' \in {"append_as_at", "table_per_filing"} \ {strategy} /\ UNCHANGED declared
  /\ UNCHANGED <<file, filing, reader, landing, spilled, database>>

-------------------------------------------------------------------------------
(* One reading *)

Reading(pass, merges) ==
  [pass |-> pass, merges |-> merges, next |-> 1, active |-> {}, headers |-> None,
   types |-> << >>, count |-> 0]

Unchanged == file = filing.bytes

Closes == spilled' = FALSE

(* A failed reading or landing: the transaction is rolled back, the filing    *)
(* is in quarantine.                                                          *)
Quarantines ==
  /\ reader' = None /\ landing' = None /\ Closes
  /\ filing' = [filing EXCEPT !.status = "quarantined"]
  /\ UNCHANGED <<file, declared, strategy, database, alterations>>

(* open: the declarations, the hash, and the parts of the workbook. *)
Opened(pass) ==
  /\ Unchanged
  /\ reader' = Reading(pass, file.merges)
  /\ spilled' = file.strings
  /\ UNCHANGED <<file, filing, declared, strategy, database, alterations>>

(* SpreadsheetExtractor.inspect of a ready filing without an extraction. *)
Inspect ==
  /\ Idle /\ filing.status = "ready" /\ filing.extraction = None
  /\ \/ Opened("inspect") /\ UNCHANGED landing
     \/ ~Unchanged /\ Quarantines

Running == reader # None

LastOf(numbers) == Max(numbers \union {0})

More == reader.next <= Max({LastOf(DOMAIN file.rows)} \union {mg.lastRow : mg \in reader.merges})

Raw == IF reader.next \in DOMAIN file.rows THEN file.rows[reader.next] ELSE << >>

(* expand: the merges that start in this row join the active ones with the    *)
(* value of their anchor, and every active one fills its columns.             *)
Starting == {mg \in reader.merges : mg.firstRow = reader.next}

Meet(a, b) == a.firstColumn <= b.lastColumn /\ b.firstColumn <= a.lastColumn

Overlapping ==
  \E mg \in Starting : \E other \in {e.merge : e \in reader.active} \union (Starting \ {mg}) : Meet(mg, other)

CellAt(cells, c) == IF c \in DOMAIN cells THEN Decoded(cells[c]) ELSE Empty

\* Mutant of Active: a merge ends with the row before its last.
ActiveShort ==
  {e \in reader.active : e.merge.lastRow > reader.next}
    \union {[merge |-> mg, value |-> CellAt(Raw, mg.firstColumn)] : mg \in Starting}

Active ==
  reader.active \union {[merge |-> mg, value |-> CellAt(Raw, mg.firstColumn)] : mg \in Starting}

Expanded ==
  LET filled(c) == {e \in Active : c \in e.merge.firstColumn..e.merge.lastColumn}
      width == Max({Len(Raw)} \union {e.merge.lastColumn : e \in Active})
  IN  [c \in 1..width |-> IF filled(c) = {} THEN CellAt(Raw, c) ELSE (CHOOSE e \in filled(c) : TRUE).value]

AllEmpty(cells) == \A c \in DOMAIN cells : cells[c] = Empty

Remaining == {e \in Active : e.merge.lastRow # reader.next}

Advanced == [reader EXCEPT !.next = @ + 1, !.active = Remaining]

(* The workbook's next row is read, and its cells decoded, before the rows    *)
(* that are missing in front of it are given out.                             *)
Ahead ==
  LET following == {n \in DOMAIN file.rows : n >= reader.next}
  IN  IF following = {} THEN << >> ELSE file.rows[Min(following)]

NoError == (\A c \in DOMAIN Ahead : ~Malformed(Ahead[c])) /\ ~Overlapping

Name(cell) == IF cell = Empty THEN None ELSE IF cell[1] = "words" THEN cell[2] ELSE cell

(* The header row: literal, not empty, and with one verification column.      *)
Verifies(headers) ==
  declared.verify # None => Cardinality({c \in DOMAIN headers : headers[c] = declared.verify}) = 1

HeaderRead ==
  LET headers == [c \in DOMAIN Expanded |-> Name(Expanded[c])]
  IN  /\ ~AllEmpty(Expanded) /\ Verifies(headers)
      /\ reader' = [Advanced EXCEPT !.headers = headers]

VerifyIndex == CHOOSE c \in DOMAIN reader.headers : reader.headers[c] = declared.verify

Attributed(cells) ==
  declared.verify # None => VerifyIndex \in DOMAIN cells /\ cells[VerifyIndex] = <<"words", <<"party">>>>

\* Mutant of Mixed: the last type wins.
MixedLast(old, new) == new

Mixed(old, new) == IF old = None \/ old = new THEN new ELSE "TEXT"

Widened(types, cells) ==
  [c \in 1..Max({Len(types), LastOf({k \in DOMAIN cells : cells[k] # Empty})}) |->
     LET old == IF c \in DOMAIN types THEN types[c] ELSE None
     IN  IF c \in DOMAIN cells /\ cells[c] # Empty
         THEN Mixed(old, inferCell(cells[c], declared)[1]) ELSE old]

DataRead ==
  /\ Attributed(Expanded)
  /\ reader' = [Advanced EXCEPT !.types = Widened(@, Expanded), !.count = @ + 1]

Below == reader.next > declared.header

(* The first empty row below the header ends the data. *)
Ended == ~More \/ (Below /\ NoError /\ AllEmpty(Expanded))

Inspecting == Running /\ reader.pass # "rows"

MergedHeader ==
  \E mg \in reader.merges : declared.header \in mg.firstRow..mg.lastRow

ReadOne ==
  /\ Inspecting /\ ~MergedHeader /\ ~Ended /\ NoError
  /\ \/ reader.next < declared.header /\ reader' = Advanced
     \/ reader.next = declared.header /\ HeaderRead
     \/ Below /\ DataRead
  /\ UNCHANGED <<file, filing, declared, strategy, landing, spilled, database, alterations>>

(* A cell error, overlapping or header merges, an empty or ambiguous header,  *)
(* a row of another party, no data to verify, or other bytes at the end.      *)
Refused ==
  /\ Inspecting
  /\ \/ MergedHeader
     \/ ~Ended /\ ~NoError
     \/ ~Ended /\ NoError /\ reader.next = declared.header
          /\ (AllEmpty(Expanded) \/ ~Verifies([c \in DOMAIN Expanded |-> Name(Expanded[c])]))
     \/ ~Ended /\ NoError /\ Below /\ ~Attributed(Expanded)
     \/ Ended /\ (reader.headers = None \/ (declared.verify # None /\ reader.count = 0) \/ ~Unchanged)
  /\ Quarantines

Columns ==
  LET width == Max({Len(reader.headers), Len(reader.types)})
      padded == [c \in 1..width |-> IF c \in DOMAIN reader.headers THEN reader.headers[c] ELSE None]
      names == columnNames(padded)
  IN  [c \in 1..width |-> [name |-> names[c],
         type |-> IF c \in DOMAIN reader.types /\ reader.types[c] # None THEN reader.types[c] ELSE "TEXT"]]

Sound == Ended /\ Unchanged /\ reader.headers # None /\ (declared.verify # None => reader.count > 0)

(* The register keeps the summary with the filing. *)
Inspected ==
  /\ Running /\ reader.pass = "inspect" /\ ~MergedHeader /\ Sound
  /\ filing' = [filing EXCEPT !.extraction = Columns, !.under = declared]
  /\ reader' = None /\ Closes
  /\ UNCHANGED <<file, declared, strategy, landing, database, alterations>>

-------------------------------------------------------------------------------
(* The landing transaction *)

Established(name) == {c \in group : c.name = name}

\* Mutant of Drifts: types are not compared.
DriftsNever(columns) == FALSE

(* A column keeps the type the filing that brought it gave it. *)
Drifts(columns) == \E c \in Range(columns) : \E old \in Established(c.name) : old.type # c.type

Reserved(columns) == \E c \in Range(columns) : c.name[1] = "_opintel_"

Unlandable ==
  \/ recorded \notin {None, strategy}
  \/ Reserved(filing.extraction)
  \/ Drifts(filing.extraction)

(* The scope, the replay, the columns and the DDL; then the file is opened.   *)
Begin ==
  /\ Idle /\ filing.status = "ready" /\ filing.extraction # None
  /\ landed = {}
  /\ \/ /\ ~Unlandable /\ Opened("again")
        /\ landing' = [columns |-> None, rows |-> << >>]
     \/ (Unlandable \/ ~Unchanged) /\ Quarantines

(* A commit whose answer was lost: the receipt is returned again. *)
Replay ==
  /\ Idle /\ filing.status = "ready" /\ landed # {}
  /\ filing' = [filing EXCEPT !.status = "landed"]
  /\ UNCHANGED <<file, declared, strategy, reader, landing, spilled, database, alterations>>

(* Inspected again: hashed, closed, hashed and opened for its rows. *)
Again ==
  /\ Running /\ reader.pass = "again" /\ ~MergedHeader /\ Sound
  /\ landing' = [landing EXCEPT !.columns = Columns]
  /\ reader' = Reading("rows", file.merges)
  /\ UNCHANGED <<file, filing, declared, strategy, spilled, database, alterations>>

Converted(cells) ==
  [c \in DOMAIN landing.columns |->
     LET cell == IF c \in DOMAIN cells THEN cells[c] ELSE Empty
     IN  IF cell = Empty THEN None
         ELSE IF landing.columns[c].type = "TEXT" THEN cell ELSE inferCell(cell, declared)[2]]

(* What Postgres makes of a value: anything is a text, and a text that reads  *)
(* as a number or, month first, as a date is taken for one.                   *)
Stored(value, type) ==
  CASE value = None \/ type = "TEXT" -> value
    [] type = "NUMERIC" -> IF value[1] = "numeric" THEN value ELSE <<"numeric", value>>
    [] type = "DATE" -> IF value[1] = "date" THEN value
                        ELSE IF value[1] = "day" THEN <<"date", value[2]>>
                        ELSE <<"date", dateValue(value[2], "MDY")>>

Accepted(value, type) ==
  CASE value = None \/ type = "TEXT" -> TRUE
    [] type = "NUMERIC" -> value[1] \in {"numeric", "number"} \/ value = <<"figure", ".">>
    [] type = "DATE" -> IF value[1] = "slashes" THEN dateValue(value[2], "MDY") # None
                        ELSE value[1] \in {"date", "day"}

\* An appended table has the established types, another one its filing's.
ColumnType(c) ==
  LET own == filing.extraction[c]
  IN  IF strategy = "append_as_at" /\ Established(own.name) # {}
      THEN (CHOOSE old \in Established(own.name) : TRUE).type ELSE own.type

Insertable(row) ==
  /\ Len(row) = Len(filing.extraction)
  /\ \A c \in DOMAIN row : Accepted(row[c], ColumnType(c))

Insertion(row) == [c \in DOMAIN row |-> Stored(row[c], ColumnType(c))]

Rowing == Running /\ reader.pass = "rows"

Insert ==
  /\ Rowing /\ ~Ended /\ NoError
  /\ reader' = Advanced
  /\ IF Below
     THEN /\ Insertable(Converted(Expanded))
          /\ landing' = [landing EXCEPT !.rows = Append(@, Insertion(Converted(Expanded)))]
     ELSE UNCHANGED landing
  /\ UNCHANGED <<file, filing, declared, strategy, spilled, database, alterations>>

(* The late failure of a row, or other bytes at the end: all is rolled back.  *)
Aborts ==
  /\ Rowing
  /\ \/ ~Ended /\ (~NoError \/ (Below /\ ~Insertable(Converted(Expanded))))
     \/ Ended /\ ~Unchanged
  /\ Quarantines

AsAt == periodAsAt(declared.period, declared.form)

\* Mutant of Added: a column takes its new type.
AddedAnew ==
  LET brought == Range(filing.extraction)
  IN  {old \in group : \A c \in brought : c.name # old.name} \union brought

Added == group \union {c \in Range(filing.extraction) : Established(c.name) = {}}

Written ==
  /\ group' = Added
  /\ recorded' = strategy
  /\ landed' = {[names |-> [c \in DOMAIN filing.extraction |-> filing.extraction[c].name],
                 rows |-> landing.rows, asAt |-> AsAt, under |-> declared]}

\* Mutant of Commit: the hash is not compared after the last row.
CommitUnhashed(lost) ==
  /\ Rowing /\ Ended
  /\ Written
  /\ reader' = None /\ landing' = None /\ Closes
  /\ IF lost THEN Altered /\ UNCHANGED filing
             ELSE filing' = [filing EXCEPT !.status = "landed"] /\ UNCHANGED alterations
  /\ UNCHANGED <<file, declared, strategy>>

(* Rows, columns, strategy and receipt become durable together; the answer    *)
(* may be lost.                                                               *)
Commit(lost) ==
  /\ Rowing /\ Ended /\ Unchanged
  /\ Written
  /\ reader' = None /\ landing' = None /\ Closes
  /\ IF lost THEN Altered /\ UNCHANGED filing
             ELSE filing' = [filing EXCEPT !.status = "landed"] /\ UNCHANGED alterations
  /\ UNCHANGED <<file, declared, strategy>>

\* Mutant of Outage: what was written stays.
OutageKeeps ==
  /\ landing # None /\ Altered
  /\ group' = Added /\ UNCHANGED <<landed, recorded>>
  /\ reader' = None /\ landing' = None /\ Closes
  /\ UNCHANGED <<file, filing, declared, strategy>>

(* The database is lost, or the engine stops: the filing stays ready. *)
Outage ==
  /\ landing # None /\ Altered
  /\ reader' = None /\ landing' = None /\ Closes
  /\ UNCHANGED <<file, filing, declared, strategy, database>>

Next ==
  \/ \E s \in Later : Deliver(s)
  \/ \E s \in Later : Rewrite(s)
  \/ Reconfigure
  \/ Inspect
  \/ ReadOne
  \/ Refused
  \/ Inspected
  \/ Begin
  \/ Replay
  \/ Again
  \/ Insert
  \/ Aborts
  \/ \E lost \in BOOLEAN : Commit(lost)
  \/ Outage

Spec == Init /\ [][Next]_vars

-------------------------------------------------------------------------------
(* The sheet as a grid, without streams: a merged cell has its anchor's value *)

RawAt(s, n, c) == IF n \in DOMAIN s.rows /\ c \in DOMAIN s.rows[n] THEN Decoded(s.rows[n][c]) ELSE Empty

GridAt(s, n, c) ==
  LET covering == {mg \in s.merges : n \in mg.firstRow..mg.lastRow /\ c \in mg.firstColumn..mg.lastColumn}
  IN  IF covering = {} THEN RawAt(s, n, c)
      ELSE LET mg == CHOOSE mg \in covering : TRUE IN RawAt(s, mg.firstRow, mg.firstColumn)

Across == 1..3

DataRows(s, d) ==
  {n \in d.header + 1..6 : \A k \in d.header + 1..n : \E c \in Across : GridAt(s, k, c) # Empty}

TypeOf(s, d, c) ==
  LET types == {inferCell(GridAt(s, n, c), d)[1] : n \in {k \in DataRows(s, d) : GridAt(s, k, c) # Empty}}
  IN  IF Cardinality(types) = 1 THEN CHOOSE t \in types : TRUE ELSE "TEXT"

ValueOf(s, d, n, c) ==
  LET cell == GridAt(s, n, c)
  IN  IF cell = Empty THEN None ELSE IF TypeOf(s, d, c) = "TEXT" THEN cell ELSE inferCell(cell, d)[2]

WidthOf(s, d) ==
  Max({Len(s.rows[d.header])} \union {c \in Across : \E n \in DataRows(s, d) : GridAt(s, n, c) # Empty})

HeaderOf(s, d, c) == Name(RawAt(s, d.header, c))

(* What is landed has the established columns and is the delivered file:      *)
(* every row down to the first empty one, merged values repeated, as values   *)
(* of the one type a column has or as the texts they were; the rows, when the *)
(* declarations were not exported anew between the inspection and the landing.*)
(* (The readings of extract.ts, the hashes around them, postgres-landing.ts.) *)
LandedIsTheFile ==
  \A left \in landed :
    LET d == left.under
    IN  /\ Range(filing.extraction) \subseteq group
        /\ d = filing.under => left.rows =
             [i \in 1..Cardinality(DataRows(filing.bytes, d)) |->
                [c \in 1..WidthOf(filing.bytes, d) |-> ValueOf(filing.bytes, d, d.header + i, c)]]

(* The landed columns have distinct names; a header is the name of its first  *)
(* column, and every other name extends the column's own header or number.    *)
(* (columnNames, domain/extraction.ts.)                                       *)
NamesAreTheHeaders ==
  filing.extraction # None =>
    LET names == [c \in DOMAIN filing.extraction |-> filing.extraction[c].name]
        Head1(c) == HeaderOf(filing.bytes, filing.under, c)
    IN  /\ \A c, k \in DOMAIN names : names[c] = names[k] => c = k
        /\ \A c \in DOMAIN names :
             LET own == IF Head1(c) = None THEN <<"column", c>> ELSE Head1(c)
             IN  /\ names[c] = own \/ Front(names[c]) = own
                 /\ Head1(c) # None /\ (\A k \in 1..c - 1 : Head1(k) # Head1(c)) => names[c] = Head1(c)

(* An as-at date that ends a period is the last day its month has.            *)
(* (periodAsAt, domain/landing.ts, against dateValue of extraction.ts.)       *)
AsAtEndsItsPeriod ==
  \A left \in landed : left.under.form # "month_start" =>
    LET date == left.asAt
    IN  /\ dateValue(<<date[3], date[2], date[1]>>, "DMY") # None
        /\ dateValue(<<date[3] + 1, date[2], date[1]>>, "DMY") = None

(* The shared strings of a workbook are on disk only while it is read.        *)
(* (Strings and its close, workbook-reader.ts.)                               *)
NothingSpilled == spilled => reader # None

(* Established columns, the source's strategy and the rows of a filing do not *)
(* change, and no column takes the name of an established one; they come only *)
(* in the step that commits a whole file, and once for each filing.           *)
(* (The landing transaction, postgres-landing.ts.)                            *)
EstablishedStays ==
  [][/\ group \subseteq group'
     /\ \A old \in group, c \in group' \ group : c.name # old.name
     /\ recorded # None => recorded' = recorded
     /\ <<group, recorded>>' # <<group, recorded>> => landed = {} /\ landed' # {}
     /\ landed' \notin {landed, {}} => landed = {} /\ reader.pass = "rows"]_vars

-------------------------------------------------------------------------------
(* Sheets and declarations worth delivering *)

Text(name) == <<"words", name>>

Of(rows, merges) == [rows |-> rows, merges |-> merges, strings |-> TRUE]

Contents ==
  {Empty, <<"number", "n">>, <<"figure", ".">>, <<"figure", ",">>, <<"slashes", <<3, 4, 2023>>>>,
   <<"slashes", <<13, 4, 2023>>>>, Text(<<"party">>)}

Block(r1, c1, r2, c2) == [firstRow |-> r1, firstColumn |-> c1, lastRow |-> r2, lastColumn |-> c2]

\* Headers that are missing, repeated, or what a generated name would be.
Titles ==
  LET a == Text(<<"a">>)
      a2 == Text(<<"a", 2>>)
      column1 == Text(<<"column", 1>>)
  IN  {<<a, a, a2>>, <<a, a2, a>>, <<Empty, a, column1>>, <<column1, Empty, Empty>>,
       <<Empty, Empty, a>>, <<Empty, Empty, Empty>>}

A == <<Text(<<"a">>)>>
Number == <<"number", "n">>

SomeSheets ==
  {Of(<<A, <<x>>, <<y>>>>, {}) : x, y \in Contents}
    \union {Of(<<A, <<x>>, <<Empty>>>>, {Block(2, 1, 3, 1)}) : x \in Contents}
    \union {Of(<<titles, <<Number, Text(<<"t">>)>>>>, {}) : titles \in Titles}
    \union {Of((1 :> A @@ 2 :> <<Number>> @@ 4 :> <<y>>), {}) : y \in {Number, <<"error">>}}
    \union {Of(<<A, <<<<"serial", n>>>>>>, {}) : n \in {59, 60, 61}}
    \union {Of(<<A, <<Number>>, <<Text(<<"t">>), Number>>, <<Number>>>>, {Block(2, 1, 2, 3), Block(3, 2, 4, 2)}),
            Of(<<A, <<Number, Number>>>>, {Block(2, 1, 3, 2), Block(3, 2, 3, 3)}),
            Of(<<A, <<Number>>>>, {Block(1, 1, 2, 1)}),
            Of(<<<<Text(<<"_opintel_", "x">>)>>, <<Number>>>>, {})}

LaterSheets ==
  {Of(<<A, <<Number>>>>, {}), Of(<<A, <<Text(<<"party">>)>>>>, {}),
   Of(<<<<Text(<<"b">>), Text(<<"a">>)>>, <<Text(<<"t">>), Number>>>>, {})}

Declared(header, order, separator, verify, period, form) ==
  [header |-> header, order |-> order, separator |-> separator, verify |-> verify,
   period |-> period, form |-> form]

SomeDeclarations ==
  {Declared(1, "DMY", ",", None, <<2023, 2>>, "month_end"),
   Declared(1, "MDY", ".", None, <<2024, 1>>, "quarter_end"),
   Declared(2, "DMY", ".", None, <<2024, 2>>, "month_start"),
   Declared(1, "DMY", ".", <<"a">>, <<2024, 2>>, "month_end")}
=============================================================================
