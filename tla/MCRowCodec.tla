----------------------------- MODULE MCRowCodec -----------------------------
(***************************************************************************)
(* RowCodec on tables with variable columns in front, dates around leap    *)
(* days and the ends of the calendar, an int32 of -4..3, an int64 of       *)
(* -16..15 and a float64 that is exact up to 8, so that 11 becomes 12 and  *)
(* 15 leaves int64.  Columns are modified to trim, to convert, and to use  *)
(* a key of their own or one that is the other column's name.              *)
(***************************************************************************)
EXTENDS RowMaps

Column(kind, length, nullable) ==
    [kind |-> kind, length |-> length, nullable |-> nullable]

MCSchemas ==
    { <<Column("var", 3, TRUE), Column("var", 2, FALSE)>>,
      <<Column("var", 3, FALSE), Column("var", 2, TRUE)>>,
      <<Column("var", 2, TRUE), Column("char", 2, FALSE)>>,
      <<Column("varbinary", 2, TRUE), Column("var", 2, FALSE)>>,
      <<Column("raw", 2, FALSE), Column("logical", 1, FALSE)>>,
      <<Column("int", 4, FALSE), Column("logical", 1, FALSE)>>,
      <<Column("num", 3, FALSE), Column("logical", 1, FALSE)>>,
      <<Column("logical", 1, FALSE), Column("var", 2, FALSE)>>,
      <<Column("num", 1, FALSE)>>,
      <<Column("date", 8, FALSE)>>,
      <<Column("dateTime", 8, FALSE)>> }

MCTexts == { <<>>, <<1>>, <<0, 0>>, <<9, 1, 32>> }

MCNumbers == {-4, 0, 3, 8, 11, 15}

MCIndefinite == -16

MCDates ==
    { d \in {1, 1900, 2000, 9999} \X {1, 2, 3, 12} \X {1, 29, 31} :
        d[3] <= MonthLength(d[1], d[2]) }

Modification(trims, negates, key) ==
    [trimSpaces |-> trims, negate |-> negates, externalKey |-> key]

MCModifications ==
    { Modification(FALSE, FALSE, NoKey), Modification(FALSE, FALSE, 1),
      Modification(TRUE, FALSE, 3), Modification(FALSE, TRUE, 3) }
=============================================================================
