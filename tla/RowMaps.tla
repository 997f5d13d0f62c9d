------------------------------- MODULE RowMaps -------------------------------
(***************************************************************************)
(* A row of RowCodec that a client turns into a map, or JSON, and builds    *)
(* back: Row.ToMap, Row.ToJSON, File.RowFromMap and File.RowFromJSON, with  *)
(* the modifications of the columns.  A column's name is its number.  The   *)
(* autoincrement of RowFromMap is the subject of RowIncrement.              *)
(***************************************************************************)
EXTENDS RowCodec

CONSTANT Modifications   \* what SetColumnModification is given

\* Convert is a function of the client, called in both directions.  The one here
\* negates a bool and fails for every other value.
ASSUME ModificationsAssumption ==
    Modifications \subseteq [trimSpaces : BOOLEAN, negate : BOOLEAN, externalKey : Nat]

NoKey == 0

-----------------------------------------------------------------------------

Converts(modification, v) == modification.negate => "bool" \in DOMAIN v
Convert(modification, v) == IF modification.negate THEN [bool |-> ~v.bool] ELSE v

KeyOf(i, mods) == IF mods[i].externalKey = NoKey THEN i ELSE mods[i].externalKey

Sanitized(modification, v) ==
    IF ~modification.trimSpaces THEN v
    ELSE IF "text" \in DOMAIN v THEN Text(Trimmed(v.text))
    ELSE IF "raw" \in DOMAIN v THEN Raw(Trimmed(WithoutZeros(v.raw)))
    ELSE v

\* Of two fields with one key the later one is kept.
ToMap(mods) ==
    LET fieldsAt(key) == {i \in DOMAIN schema : KeyOf(i, mods) = key}
    IN  [key \in {KeyOf(i, mods) : i \in DOMAIN schema} |->
            LET i == Max(fieldsAt(key)) IN Convert(mods[i], Sanitized(mods[i], fields[i]))]

\* encoding/json: four characters for three bytes, "=" where they end early.
Base64(s) ==
    LET byte(k) == IF k \in DOMAIN s THEN s[k] ELSE 0
        letter(n) == IF n < 26 THEN 65 + n ELSE IF n < 52 THEN 71 + n
                     ELSE IF n < 62 THEN n - 4 ELSE IF n = 62 THEN 43 ELSE 47
        group(g) == 65536 * byte(3*g + 1) + 256 * byte(3*g + 2) + byte(3*g + 3)
        places == <<262144, 4096, 64, 1>>
    IN  [k \in 1..4 * ((Len(s) + 2) \div 3) |->
            LET g == (k - 1) \div 4  place == (k - 1) % 4
            IN  IF place > 1 /\ 3 * g + place > Len(s) THEN 61
                ELSE letter((group(g) \div places[place + 1]) % 64)]

\* Through JSON every number becomes a float64, the next one to it, raw bytes a
\* text, and a time a string, which Represent takes for the time it stands for.
ToJSON(v) ==
    IF DOMAIN v \subseteq {"int", "long"} THEN [float |-> Rounded(NumberOf(v))]
    ELSE IF "raw" \in DOMAIN v THEN Text(Base64(v.raw))
    ELSE v

\* Mutant: the external key is only used when the map has no value by the name.
NameBeforeKey(i, map, mods) ==
    IF i \in DOMAIN map THEN map[i]
    ELSE IF mods[i].externalKey \in DOMAIN map THEN map[mods[i].externalKey]
    ELSE Nil

\* RowFromMap takes the value by the column's name, and by its external key over it.
ValueFromMap(i, map, mods) ==
    IF mods[i].externalKey \in DOMAIN map THEN map[mods[i].externalKey]
    ELSE IF i \in DOMAIN map THEN map[i]
    ELSE Nil

\* The row it builds is a new one: a map does not say that its row was deleted.
RowFromMap(map, mods) ==
    [fields |-> [i \in DOMAIN schema |-> Convert(mods[i], ValueFromMap(i, map, mods))],
     deleted |-> FALSE]

\* The map as json.Unmarshal returns it.
JSONMap(map) == [key \in DOMAIN map |-> ToJSON(map[key])]

\* Does no Convert fail, neither in ToMap nor in RowFromMap?
AllConvert(map, mods) ==
    /\ \A i \in DOMAIN schema : Converts(mods[i], fields[i])
    /\ \A i \in DOMAIN schema : Converts(mods[i], ValueFromMap(i, map, mods))

\* The client goes on with the row that is built, in place of its own.
Becomes(row) ==
    /\ fields' = row.fields
    /\ deleted' = row.deleted
    /\ UNCHANGED <<schema, trimSpaces, disk, mark, stored>>

\* The row is turned into a map and built back; an error leaves it as it is.
ThroughMap(mods) ==
    /\ AllConvert(ToMap(mods), mods)
    /\ Becomes(RowFromMap(ToMap(mods), mods))

\* Bound: base64 is not made of base64 again and again.
RawsGiven == \A i \in DOMAIN schema : "raw" \in DOMAIN fields[i] => fields[i].raw \in Texts

\* The same by way of ToJSON and RowFromJSON.
ThroughJSON(mods) ==
    /\ RawsGiven
    /\ AllConvert(JSONMap(ToMap(mods)), mods)
    /\ Becomes(RowFromMap(JSONMap(ToMap(mods)), mods))

Modified == [DOMAIN schema -> Modifications]

NextWithMaps ==
    \/ Next
    \/ \E mods \in Modified : ThroughMap(mods) \/ ThroughJSON(mods)

MapsSpec == Init /\ [][NextWithMaps]_vars

-----------------------------------------------------------------------------
(* Properties *)

\* No later column has the key of the column.
KeepsItsKey(i, mods) == \A j \in DOMAIN schema : j > i => KeyOf(j, mods) # KeyOf(i, mods)

\* What JSON loses: a whole number that is no float64 comes back as the next one, a
\* negative number for an integer column as a float64, of which Represent makes 0;
\* raw bytes come back as their base64 text, which is stored in their place or refused.
LostInJSON(i) ==
    \/ DOMAIN fields[i] \subseteq {"int", "long"} /\ Rounded(NumberOf(fields[i])) # NumberOf(fields[i])
    \/ schema[i].kind = "int" /\ "int" \in DOMAIN fields[i] /\ fields[i].int < 0
    \/ "raw" \in DOMAIN fields[i]

\* A row that goes through a map or JSON and back is stored as the same bytes:
\* every field whose key no later column takes gets its own value again, whatever
\* external keys and names collide with it, converted once in each direction, and
\* the bits of the null flag with it, but for spaces that are trimmed and for what
\* JSON loses.  The mark in front is the same unless the row was deleted: then the
\* row that is built is not.
MapsKeepBytes ==
    \A mods \in Modified :
        LET map == ToMap(mods)
            sameBytes(i, row) ==
                Accepts(schema[i], fields[i]) =>
                    /\ Cell(schema[i], row.fields[i]) = Cell(schema[i], Sanitized(mods[i], fields[i]))
                    /\ BitsSet(i, row.fields[i]) = BitsSet(i, Sanitized(mods[i], fields[i]))
            sameMark(row) == (Mark(row.deleted) = Mark(deleted)) = ~deleted
            kept == {i \in DOMAIN schema : KeepsItsKey(i, mods)}
            direct == RowFromMap(map, mods)
            byJSON == RowFromMap(JSONMap(map), mods)
        IN  AllConvert(map, mods) =>
                /\ \A i \in kept : sameBytes(i, direct) /\ (LostInJSON(i) \/ sameBytes(i, byJSON))
                /\ sameMark(direct) /\ sameMark(byJSON)
=============================================================================
