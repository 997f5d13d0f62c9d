------------------------------ MODULE RowCodec ------------------------------
(***************************************************************************)
(* One row on its way into the file and back: Row.ToBytes turns the values *)
(* of the fields into cells and null flag bits, BytesToRow turns them into *)
(* values again, with the flags that ReadNullFlag finds for the column.    *)
(* Values and cells are records whose one field tells their kind; whole    *)
(* numbers are an int32, an int64 or a float64, which is not always exact. *)
(***************************************************************************)
EXTENDS Integers, Sequences, FiniteSets, FiniteSetsExt

CONSTANTS
    Schemas,     \* the columns of the tables: sequences of Columns
    Texts,       \* strings, as sequences of bytes
    Numbers,     \* whole numbers, given as integers or as float64
    Dates,       \* dates of the calendar, given as <<year, month, day>>
    Word32,      \* 2^32
    Word64,      \* 2^64
    MaxExact,    \* 2^53: up to here every whole number is a float64
    Indefinite,  \* the int64 the processor makes of a float64 that is too large
    MayBeEmpty,  \* may an empty string go into a column that is not nullable?
    MayBeCut     \* may a number have more digits than its column?

Kinds == {"char", "var", "varbinary", "raw", "int", "num", "logical", "date", "dateTime"}
Columns == [kind : Kinds, length : 1..255, nullable : BOOLEAN]

IsVar(column) == column.kind \in {"var", "varbinary"}

\* The null flag bits of a schema: one for every variable column, one more if
\* it is nullable.
FlagBits(schema, below) ==
    Cardinality({j \in below : IsVar(schema[j])})
        + Cardinality({j \in below : IsVar(schema[j]) /\ schema[j].nullable})

\* The dates a time.Time of the years 1 to 9999 can have.
IsLeap(y) == (y % 4 = 0 /\ y % 100 # 0) \/ y % 400 = 0
MonthLength(y, m) ==
    IF m = 2 THEN IF IsLeap(y) THEN 29 ELSE 28
    ELSE IF m \in {4, 6, 9, 11} THEN 30 ELSE 31
IsDate(y, m, d) == y \in 1..9999 /\ m \in 1..12 /\ d \in 1..31 /\ d <= MonthLength(y, m)

ASSUME SchemasAssumption ==
    \A s \in Schemas : s \in Seq(Columns) /\ FlagBits(s, DOMAIN s) <= 8
MaxInt32 == Word32 \div 2 - 1
Int32s == -MaxInt32-1..MaxInt32
MaxInt64 == Word64 \div 2 - 1
Int64s == -MaxInt64-1..MaxInt64

ASSUME ValuesAssumption ==
    /\ Texts \subseteq Seq(0..255)
    /\ Dates \subseteq Nat \X Nat \X Nat /\ \A date \in Dates : IsDate(date[1], date[2], date[3])
    /\ Word32 \in Nat \ {0} /\ Word32 % 2 = 0 /\ Numbers \subseteq Int64s
    /\ MayBeEmpty \in BOOLEAN /\ MayBeCut \in BOOLEAN
ASSUME WordsAssumption ==
    /\ Word64 \in Nat /\ Word64 % 2 = 0 /\ Word32 <= Word64
    /\ MaxExact \in Nat /\ Word32 <= MaxExact
    /\ Word64 <= 2048 * MaxExact
    /\ Indefinite \in Int64s

VARIABLES
    schema,      \* the columns of the table
    trimSpaces,  \* config.TrimSpaces
    fields,      \* the values of the row in memory
    deleted,     \* its Deleted
    disk,        \* the row in the file: its cells and its null flag
    mark,        \* and the byte in front of them
    stored       \* history: the values of the last row that was stored

vars == <<schema, trimSpaces, fields, deleted, disk, mark, stored>>

-----------------------------------------------------------------------------
(* Bytes and numbers *)

Space == 32
Zeros(n) == [k \in 1..n |-> 0]
Cut(s, n) == SubSeq(s, 1, IF Len(s) < n THEN Len(s) ELSE n)

\* Mutant: what does not fit runs into the next cell.
NeverCut(s, n, byte) ==
    [k \in 1..(IF Len(s) > n THEN Len(s) ELSE n) |-> IF k <= Len(s) THEN s[k] ELSE byte]

\* s filled up, or cut, to n bytes.
Filled(s, n, byte) == [k \in 1..n |-> IF k <= Len(s) THEN s[k] ELSE byte]

\* strings.TrimSpace; of bytes, these are the white space.
Blanks == {9, 10, 11, 12, 13, 32}
Trimmed(s) ==
    LET kept == {k \in DOMAIN s : s[k] \notin Blanks}
    IN  IF kept = {} THEN <<>> ELSE SubSeq(s, Min(kept), Max(kept))

\* The bytes of s that are not the given one, in their order.
Without(s, byte) ==
    LET kept[n \in 0..Len(s)] ==
            IF n = 0 THEN <<>>
            ELSE IF s[n] = byte THEN kept[n-1] ELSE Append(kept[n-1], s[n])
    IN  kept[Len(s)]

\* The decimal digits of a number, and the text strconv makes of it: what is left
\* of n after k digits, until nothing is.
Digits(n) ==
    LET rest[k \in 0..n+1] == IF k = 0 THEN n ELSE rest[k-1] \div 10
        count == Min({k \in 1..n+1 : rest[k] = 0})
    IN  [j \in 1..count |-> 48 + (rest[count - j] % 10)]
Minus == 45
FormatInt(n) == IF n < 0 THEN <<Minus>> \o Digits(-n) ELSE Digits(n)

\* prependSpaces; ToBytes copies no more than the column holds.
Aligned(s, n) ==
    IF Len(s) < n THEN [k \in 1..n |-> IF k <= n - Len(s) THEN Space ELSE s[k - n + Len(s)]]
    ELSE Cut(s, n)

\* Go divides towards zero.
Quo(x, y) == IF x >= 0 THEN x \div y ELSE -((-x) \div y)

\* The float64 next to a whole number: beyond MaxExact only every second number is
\* one, then every fourth; of two that are as near, the one with the even mantissa.
Spacings == {2, 4, 8, 16, 32, 64, 128, 256, 512, 1024}
Rounded(n) ==
    LET size == IF n < 0 THEN -n ELSE n
        spacing == Min({s \in Spacings : size <= s * MaxExact})
        below == size \div spacing
        rest == size % spacing
        up == 2 * rest > spacing \/ (2 * rest = spacing /\ below % 2 = 1)
        rounded == spacing * (IF up THEN below + 1 ELSE below)
    IN  IF size <= MaxExact THEN n ELSE IF n < 0 THEN -rounded ELSE rounded

Floats == {Rounded(n) : n \in Numbers}

\* Mutant: the divisions of the algorithm round down.
julianRoundingDown(y, m, d) ==
    (1461 * (y + 4800 + (m - 14) \div 12)) \div 4
        + (367 * (m - 2 - 12 * ((m - 14) \div 12))) \div 12
        - (3 * ((y + 4900 + (m - 14) \div 12) \div 100)) \div 4 + d - 32075

julianDate(y, m, d) ==
    Quo(1461 * (y + 4800 + Quo(m - 14, 12)), 4)
        + Quo(367 * (m - 2 - 12 * Quo(m - 14, 12)), 12)
        - Quo(3 * Quo(y + 4900 + Quo(m - 14, 12), 100), 4) + d - 32075

julianToDate(jd) ==
    LET n == Quo(4 * (jd + 68569), 146097)
        l == jd + 68569 - Quo(146097 * n + 3, 4)
        i == Quo(4000 * (l + 1), 1461001)
        k == l - Quo(1461 * i, 4) + 31
        j == Quo(80 * k, 2447)
    IN  <<100 * (n - 49) + i + Quo(j, 11), j + 2 - 12 * Quo(j, 11), k - Quo(2447 * j, 80)>>

-----------------------------------------------------------------------------
(* Values and cells *)

Nil == [nil |-> TRUE]
Text(s) == [text |-> s]
Raw(s) == [raw |-> s]

\* Where a text and raw bytes are both taken.
BytesOf(v) == IF "raw" \in DOMAIN v THEN v.raw ELSE v.text
ZeroTime == <<1, 1, 1>>

ValuesOf(kind) ==
    CASE kind \in {"char", "var"} -> {Text(s) : s \in Texts}
      [] kind \in {"varbinary", "raw"} -> {Raw(s) : s \in Texts}
      [] kind = "int" -> [int : Numbers \cap Int32s] \cup [float : Floats]
      [] kind = "num" -> [long : Numbers] \cup [float : Floats]
      [] kind = "logical" -> [bool : BOOLEAN]
      [] kind \in {"date", "dateTime"} -> [date : Dates \cup {ZeroTime}]

\* A float64 that is not positive, or too large, becomes 0.
Int32(v) ==
    IF "int" \in DOMAIN v THEN v.int
    ELSE IF v.float > 0 /\ v.float <= MaxInt32 THEN v.float ELSE 0

\* The number that is written for a value, int64(v) of a float64.
NumberOf(v) ==
    IF "int" \in DOMAIN v THEN v.int ELSE IF "long" \in DOMAIN v THEN v.long
    ELSE IF v.float \in Int64s THEN v.float ELSE Indefinite

\* A date is eight digits, the zero time eight spaces; nil is zero bytes.
DateCell(v) ==
    IF v = Nil THEN [blank |-> 0]
    ELSE IF v.date = ZeroTime THEN [blank |-> Space]
    ELSE [digits |-> v.date]

JulianDay(date) == IF date = ZeroTime THEN 0 ELSE julianDate(date[1], date[2], date[3])

\* Mutant: the length byte follows the bytes.
LengthAfterBytes(s, n) == [k \in 1..n |-> IF k = Len(s) + 1 THEN Len(s) ELSE Filled(s, n, 0)[k]]

\* A short string is followed by zeros, its length is the last byte.
ShortCell(s, n) == [Filled(s, n, 0) EXCEPT ![n] = Len(s)]

IsShort(s, n) == Len(s) > 0 /\ Len(s) < n

\* Represent, and what ToBytes does with the result: the bytes of a cell.
Cell(column, v) ==
    CASE column.kind = "int" -> [word |-> IF v = Nil THEN 0 ELSE Int32(v) % Word32]
      [] column.kind = "dateTime" -> [day |-> IF v = Nil THEN 0 ELSE JulianDay(v.date)]
      [] column.kind = "date" -> DateCell(v)
      [] column.kind = "logical" -> [flag |-> IF v = Nil THEN 0 ELSE IF v.bool THEN 84 ELSE 70]
      [] column.kind = "num" -> [bytes |-> IF v = Nil THEN Zeros(column.length)
                                           ELSE Aligned(FormatInt(NumberOf(v)), column.length)]
      [] column.kind = "char" -> [bytes |-> IF v = Nil THEN Zeros(column.length)
                                            ELSE Filled(v.text, column.length, Space)]
      [] column.kind = "raw" -> [bytes |-> IF v = Nil THEN Zeros(column.length)
                                           ELSE Filled(BytesOf(v), column.length, 0)]
      [] IsVar(column) -> [bytes |-> IF v = Nil THEN Zeros(column.length)
                                     ELSE IF IsShort(BytesOf(v), column.length)
                                     THEN ShortCell(BytesOf(v), column.length)
                                     ELSE Filled(BytesOf(v), column.length, 0)]

\* The bit ToBytes has counted up to when it comes to a column.
VarPosition(i) == FlagBits(schema, 1..i-1)

\* The bits ToBytes sets for a field; nil is zero bytes and sets none.
BitsSet(i, v) ==
    IF ~IsVar(schema[i]) \/ v = Nil THEN {}
    ELSE IF BytesOf(v) = <<>> THEN {VarPosition(i) + 1}
    ELSE IF IsShort(BytesOf(v), schema[i].length) THEN {VarPosition(i)}
    ELSE {}

\* The null flag is one byte, whatever its column is long.
NullFlag(row) == (UNION {BitsSet(i, row[i]) : i \in DOMAIN schema}) \cap (0..7)

\* The marks of a row.
Active == 32
Deleted == 42
Mark(isDeleted) == IF isDeleted THEN Deleted ELSE Active

ToBytes(row) ==
    [cells |-> [i \in DOMAIN schema |-> Cell(schema[i], row[i])],
     nullFlag |-> NullFlag(row)]

\* Mutant: the column itself is counted too.
positionAfter(i) == FlagBits(schema, {j \in 1..i : \A k \in 1..j : IsVar(schema[k])})

\* nullFlagPosition stops at the first column that is not variable.
nullFlagPosition(i) ==
    FlagBits(schema, {j \in 1..i-1 : \A k \in 1..j : IsVar(schema[k])})

\* ReadNullFlag: is the column short, is it null?
ReadNullFlag(i, flags) ==
    [short |-> nullFlagPosition(i) \in flags,
     null |-> schema[i].nullable /\ nullFlagPosition(i) + 1 \in flags]

\* Interpret for a variable column: null, short or the whole cell.  Of a varchar
\* a null is no string but an empty slice of bytes.
VarText(i, bytes, flags) ==
    LET read == ReadNullFlag(i, flags)
    IN  IF read.null THEN <<>>
        ELSE IF read.short THEN Cut(bytes, bytes[Len(bytes)])
        ELSE bytes

\* A field that does not convert makes its row unreadable.
Unreadable == [unreadable |-> TRUE]

\* sanitizeEmptyBytes
WithoutZeros(s) == Without(s, 0)

\* The number that decimal digits stand for.
NumberIn(digits) ==
    LET number[n \in 0..Len(digits)] ==
            IF n = 0 THEN 0 ELSE 10 * number[n-1] + digits[n] - 48
    IN  number[Len(digits)]

parseNumericInt(bytes) ==
    LET text == Trimmed(WithoutZeros(bytes))
        digits == Without(text, Minus)
        number == IF text # digits THEN -NumberIn(digits) ELSE NumberIn(digits)
    IN  IF text = <<Minus>> \/ number \notin Int64s THEN Unreadable ELSE [long |-> number]

\* What year 0 to 9999 a day number stands for, or no time at all.
DateOfDay(day) ==
    LET date == julianToDate(day)
    IN  IF date[1] < 0 \/ date[1] > 9999 THEN ZeroTime ELSE date

Returned(s) == Text(IF trimSpaces THEN Trimmed(s) ELSE s)

ReturnedRaw(s) == Raw(IF trimSpaces THEN Trimmed(WithoutZeros(s)) ELSE s)

\* Interpret for the other columns, and what BytesToRow trims.
Value(i, row) ==
    LET cell == row.cells[i]
    IN  CASE schema[i].kind = "int" ->
                [int |-> IF cell.word > MaxInt32 THEN cell.word - Word32 ELSE cell.word]
          [] schema[i].kind = "dateTime" -> [date |-> DateOfDay(cell.day)]
          [] schema[i].kind = "date" ->
                [date |-> IF "digits" \in DOMAIN cell THEN cell.digits ELSE ZeroTime]
          [] schema[i].kind = "logical" -> [bool |-> cell.flag = 84]
          [] schema[i].kind = "num" -> parseNumericInt(cell.bytes)
          [] schema[i].kind = "char" -> Returned(cell.bytes)
          [] schema[i].kind = "raw" -> ReturnedRaw(cell.bytes)
          [] schema[i].kind = "var" ->
                IF ReadNullFlag(i, row.nullFlag).null THEN Raw(<<>>)
                ELSE Returned(VarText(i, cell.bytes, row.nullFlag))
          [] schema[i].kind = "varbinary" -> ReturnedRaw(VarText(i, cell.bytes, row.nullFlag))

-----------------------------------------------------------------------------

TypeOK ==
    /\ schema \in Schemas /\ trimSpaces \in BOOLEAN
    /\ DOMAIN fields = DOMAIN schema /\ DOMAIN stored = DOMAIN schema
    /\ deleted \in BOOLEAN /\ mark \in {Active, Deleted}
    /\ disk.nullFlag \subseteq 0..7
    /\ \A i \in DOMAIN schema :
          LET cell == disk.cells[i]
          IN  CASE schema[i].kind = "int" -> cell.word \in 0..Word32-1
                [] schema[i].kind = "dateTime" -> cell.day \in Nat
                [] schema[i].kind = "date" ->
                      cell \in [blank : {0, Space}] \cup [digits : Dates]
                [] schema[i].kind = "logical" -> cell.flag \in 0..255
                [] OTHER -> cell.bytes \in Seq(0..255) /\ Len(cell.bytes) = schema[i].length

\* A new row has no values and is not deleted.
Init ==
    /\ schema \in Schemas
    /\ trimSpaces \in BOOLEAN
    /\ fields = [i \in DOMAIN schema |-> Nil]
    /\ stored = fields
    /\ disk = ToBytes(fields)
    /\ deleted = FALSE /\ mark = Mark(deleted)

SetValue(i, v) ==
    /\ fields' = [fields EXCEPT ![i] = v]
    /\ UNCHANGED <<schema, trimSpaces, deleted, disk, mark, stored>>

\* A client deletes the row, or takes it back.
SetDeleted ==
    /\ deleted' = ~deleted
    /\ UNCHANGED <<schema, trimSpaces, fields, disk, mark, stored>>

\* Represent refuses a value of another kind: ToBytes fails.
Accepts(column, v) ==
    \/ v = Nil
    \/ DOMAIN v \subseteq CASE column.kind = "char" -> {"text"}
                             [] column.kind \in {"var", "raw"} -> {"text", "raw"}
                             [] column.kind = "varbinary" -> {"raw"}
                             [] column.kind = "int" -> {"int", "float"}
                             [] column.kind = "num" -> {"int", "long", "float"}
                             [] column.kind = "logical" -> {"bool"}
                             [] column.kind \in {"date", "dateTime"} -> {"date"}

\* Bounds: the rows that are stored.
InBounds(column, v) ==
    /\ IsVar(column) /\ v # Nil /\ BytesOf(v) = <<>> => column.nullable \/ MayBeEmpty
    /\ column.kind = "num" /\ v # Nil =>
          Len(FormatInt(NumberOf(v))) <= column.length \/ MayBeCut

Store ==
    /\ \A i \in DOMAIN schema : Accepts(schema[i], fields[i]) /\ InBounds(schema[i], fields[i])
    /\ disk' = ToBytes(fields)
    /\ mark' = Mark(deleted)
    /\ stored' = fields
    /\ UNCHANGED <<schema, trimSpaces, fields, deleted>>

Fetch ==
    /\ \A i \in DOMAIN schema : Value(i, disk) # Unreadable
    /\ fields' = [i \in DOMAIN schema |-> Value(i, disk)]
    /\ deleted' = (mark = Deleted)
    /\ UNCHANGED <<schema, trimSpaces, disk, mark, stored>>

Next ==
    \/ \E i \in DOMAIN schema : \E v \in ValuesOf(schema[i].kind) \cup {Nil} : SetValue(i, v)
    \/ SetDeleted
    \/ Store
    \/ Fetch

Spec == Init /\ [][Next]_vars

-----------------------------------------------------------------------------
(* Properties *)

\* What a stored value should come back as: strings without what does not fit
\* (characters blank-padded), an empty string of a nullable column as no bytes,
\* a number as itself or, for a float that is not a positive int32, as 0 (in a
\* numeric column as itself unless int64 does not hold it), a date as itself; nil
\* as zero bytes.
Expected(column, v) ==
    IF column.kind = "var" /\ column.nullable /\ v # Nil /\ BytesOf(v) = <<>> THEN Raw(<<>>)
    ELSE IF column.kind \in {"char", "var"}
    THEN LET s == IF v = Nil THEN Zeros(column.length) ELSE BytesOf(v)
         IN  Returned(IF column.kind = "char" THEN Filled(s, column.length, Space)
                      ELSE Cut(s, column.length))
    ELSE IF column.kind \in {"varbinary", "raw"}
    THEN LET s == IF v = Nil THEN Zeros(column.length) ELSE BytesOf(v)
         IN  ReturnedRaw(IF column.kind = "raw" THEN Filled(s, column.length, 0)
                         ELSE Cut(s, column.length))
    ELSE IF column.kind \in {"date", "dateTime"} THEN IF v = Nil THEN [date |-> ZeroTime] ELSE v
    ELSE IF column.kind = "logical" THEN IF v = Nil THEN [bool |-> FALSE] ELSE v
    ELSE IF column.kind = "num" THEN [long |-> IF v = Nil THEN 0 ELSE NumberOf(v)]
    ELSE IF v = Nil THEN [int |-> 0]
    ELSE IF "int" \in DOMAIN v THEN v
    ELSE [int |-> IF v.float \in 1..MaxInt32 THEN v.float ELSE 0]

\* Every field of a row comes back as it was stored: the reader finds the flag
\* bits the writer set, and no length byte is taken for data or data for one.
ReadsBack == \A i \in DOMAIN schema : Value(i, disk) = Expected(schema[i], stored[i])

\* Fetching a row and storing it unchanged leaves its bytes as they were, the
\* deletion mark with them, unless spaces are trimmed or a field was never given a
\* value whose kind has a zero value that is not written as zero bytes.
RewriteKeepsBytes ==
    [][ /\ Store /\ ~trimSpaces /\ deleted = (mark = Deleted)
        /\ \A i \in DOMAIN schema :
              /\ fields[i] = Value(i, disk)
              /\ stored[i] = Nil => schema[i].kind \notin {"num", "logical", "date"}
        => disk' = disk /\ mark' = mark ]_vars

\* The day numbers on disk count days: between two dates lie as many as the
\* calendar says.
DaysBefore(date) ==
    LET y == date[1] - 1
        months[m \in 0..11] == IF m = 0 THEN 0 ELSE months[m-1] + MonthLength(date[1], m)
    IN  365 * y + y \div 4 - y \div 100 + y \div 400 + months[date[2]-1] + date[3] - 1
DayOne == 1721426   \* of 0001-01-01

DayNumbersCount ==
    \A i \in DOMAIN schema :
        schema[i].kind = "dateTime" /\ stored[i] # Nil /\ stored[i].date # ZeroTime
            => disk.cells[i].day = DayOne + DaysBefore(stored[i].date)
=============================================================================
