-------------------------- MODULE Lifecycle_proofs --------------------------
(***************************************************************************)
(* The handles of a database with any tables and any number of handles,    *)
(* whichever call fails, and a table of the client's own beside it, on     *)
(* UnixIO: but for the types, everything rests on handles that know that   *)
(* they were closed.                                                       *)
(***************************************************************************)
EXTENDS Lifecycle, FiniteSetTheorems, SequenceTheorems, TLAPS

-----------------------------------------------------------------------------
(* The numbers of new handles *)

\* A set of naturals that is not empty has a least element.
LEMMA LeastElement ==
    ASSUME NEW S, S \subseteq Nat, S # {}
    PROVE  \E n \in S : \A m \in S : n <= m
<1>1. PICK n \in S : \A m \in S : <<m, n>> \notin OpToRel(<, Nat)
  BY WFMin, NatLessThanWellFounded
<1>2. ASSUME NEW m \in S PROVE n <= m
  <2>1. m \in Nat /\ n \in Nat
    OBVIOUS
  <2>2. ~(m < n)
    BY <1>1, <2>1 DEF OpToRel
  <2> QED
    BY <2>1, <2>2
<1> QED
  BY <1>2

FreeUpTo(n) == {m \in FreeNumbers : m <= n}

LEMMA FreeNumbersFinite ==
    /\ FreeNumbers \subseteq Nat /\ IsFiniteSet(FreeNumbers)
    /\ Cardinality(FreeNumbers) \in Nat
<1>1. FreeNumbers \subseteq Numbers
  BY DEF FreeNumbers
<1>2. IsFiniteSet(Numbers) /\ Numbers \subseteq Nat
  BY FS_Interval, ListsAssumption DEF Numbers
<1>3. IsFiniteSet(FreeNumbers)
  BY <1>1, <1>2, FS_Subset
<1> QED
  BY <1>1, <1>2, <1>3, FS_CardinalityType

\* The lowest free number is the first, and the lowest of the others the second.
LEMMA FreeNumberExists ==
    ASSUME NEW k \in 1..2, k <= Cardinality(FreeNumbers)
    PROVE  \E n \in FreeNumbers : Cardinality(FreeUpTo(n)) = k
<1> DEFINE F == FreeNumbers
<1>1. F \subseteq Nat /\ IsFiniteSet(F) /\ Cardinality(F) \in Nat
  BY FreeNumbersFinite
<1>2. F # {}
  BY <1>1, FS_EmptySet
<1>3. PICK first \in F : \A m \in F : first <= m
  BY <1>1, <1>2, LeastElement
<1>4. FreeUpTo(first) = {first}
  <2>1. \A m \in F : m <= first <=> m = first
    BY <1>1, <1>3
  <2> QED
    BY <1>3, <2>1 DEF FreeUpTo
<1>5. Cardinality(FreeUpTo(first)) = 1
  BY <1>4, FS_Singleton
<1>6. ASSUME k = 2 PROVE \E n \in F : Cardinality(FreeUpTo(n)) = 2
  <2>1. F \ {first} # {}
    <3>1. ASSUME F = {first} PROVE FALSE
      <4>1. Cardinality(F) = 1
        BY <3>1, FS_Singleton
      <4> QED
        BY <1>6, <4>1
    <3> QED
      BY <1>3, <3>1
  <2>2. PICK second \in F \ {first} : \A m \in F \ {first} : second <= m
    <3>1. F \ {first} \subseteq Nat
      BY <1>1
    <3> HIDE DEF F
    <3> QED
      BY <2>1, <3>1, LeastElement
  <2>3. FreeUpTo(second) = {first} \cup {second} /\ second \notin {first}
    <3>1. \A m \in F : m <= second <=> m \in {first, second}
      <4>1. \A m \in F : m \in Nat /\ first \in Nat /\ second \in Nat /\ first <= second
        BY <1>1, <1>3, <2>2
      <4>2. \A m \in F : m # first => second <= m
        BY <2>2
      <4> QED
        BY <4>1, <4>2
    <3> QED
      BY <1>3, <2>2, <3>1 DEF FreeUpTo
  <2>4. IsFiniteSet({first}) /\ Cardinality({first}) = 1
    BY FS_Singleton
  <2>5. Cardinality({first} \cup {second}) = 2
    BY <2>3, <2>4, FS_AddElement
  <2> QED
    BY <2>2, <2>3, <2>5
<1> QED
  BY <1>3, <1>5, <1>6

\* What opens gets numbers that were free, each one of its own.
LEMMA NumbersAreFree ==
    ASSUME NEW k \in 1..2, k <= Cardinality(FreeNumbers)
    PROVE  /\ NumberOf(k) \in FreeNumbers
           /\ k = 2 => NumberOf(1) \in FreeNumbers /\ NumberOf(1) # NumberOf(2)
<1>1. ASSUME NEW j \in 1..k
      PROVE  NumberOf(j) \in FreeNumbers /\ Cardinality(FreeUpTo(NumberOf(j))) = j
  <2>1. j \in 1..2 /\ j <= Cardinality(FreeNumbers)
    BY FreeNumbersFinite
  <2> QED
    BY <2>1, FreeNumberExists DEF NumberOf, FreeUpTo
<1> QED
  BY <1>1

-----------------------------------------------------------------------------
(* Opening the files of a table *)

\* The table file is opened first; only a table with a memo has another.
LEMMA PartsInOrder ==
    ASSUME NEW name
    PROVE  /\ Len(PartsOf(name)) = IF name \in HasMemo THEN 2 ELSE 1
           /\ DOMAIN PartsOf(name) = 1..Len(PartsOf(name))
           /\ PartsOf(name)[1] = "table"
           /\ name \in HasMemo => PartsOf(name)[2] = "memo"
           /\ ToSet(PartsOf(name)) = IF name \in HasMemo THEN Parts ELSE {"table"}
<1>1. CASE name \in HasMemo
  <2>1. PartsOf(name) = <<"table", "memo">>
    BY <1>1 DEF PartsOf
  <2>2. Len(PartsOf(name)) = 2 /\ DOMAIN PartsOf(name) = 1..2
        /\ PartsOf(name)[1] = "table" /\ PartsOf(name)[2] = "memo"
    BY <2>1
  <2> QED
    BY <1>1, <2>2 DEF ToSet, Parts
<1>2. CASE name \notin HasMemo
  <2>1. PartsOf(name) = <<"table">>
    BY <1>2 DEF PartsOf
  <2>2. Len(PartsOf(name)) = 1 /\ DOMAIN PartsOf(name) = 1..1 /\ PartsOf(name)[1] = "table"
    BY <2>1
  <2> QED
    BY <1>2, <2>2 DEF ToSet, Parts
<1> QED
  BY <1>1, <1>2

LEMMA FileOfParts ==
    ASSUME NEW name
    PROVE  /\ FileOf(name)["table"] = [num |-> NumberOf(1), closed |-> FALSE]
           /\ FileOf(name)["memo"] = IF name \in HasMemo
                                     THEN [num |-> NumberOf(2), closed |-> FALSE] ELSE NoHandle
           /\ DOMAIN FileOf(name) = Parts
<1>1. ASSUME NEW part \in Parts, NEW k \in DOMAIN PartsOf(name), part = PartsOf(name)[k]
      PROVE  (CHOOSE j \in DOMAIN PartsOf(name) : part = PartsOf(name)[j]) = k
  <2>1. \A j \in DOMAIN PartsOf(name) : part = PartsOf(name)[j] => j = k
    <3>1. CASE name \in HasMemo
      <4>1. DOMAIN PartsOf(name) = {1, 2} /\ PartsOf(name)[1] # PartsOf(name)[2]
        BY <3>1, PartsInOrder
      <4>2. ASSUME NEW j \in DOMAIN PartsOf(name), part = PartsOf(name)[j] PROVE j = k
        <5>1. (j = 1 \/ j = 2) /\ (k = 1 \/ k = 2) /\ PartsOf(name)[j] = PartsOf(name)[k]
          BY <1>1, <4>1, <4>2
        <5> QED
          BY <4>1, <5>1
      <4> QED
        BY <4>2
    <3>2. CASE name \notin HasMemo
      <4>1. DOMAIN PartsOf(name) = 1..1
        BY <3>2, PartsInOrder
      <4> QED
        BY <1>1, <4>1
    <3> QED
      BY <3>1, <3>2
  <2> QED
    BY <1>1, <2>1
<1>2. 1 \in DOMAIN PartsOf(name) /\ "table" = PartsOf(name)[1] /\ "table" \in Parts
  BY PartsInOrder DEF Parts
<1>3. FileOf(name)["table"] = [num |-> NumberOf(1), closed |-> FALSE]
  BY <1>1, <1>2 DEF FileOf
<1>4. CASE name \in HasMemo
  <2>1. 2 \in DOMAIN PartsOf(name) /\ "memo" = PartsOf(name)[2] /\ "memo" \in Parts
    BY <1>4, PartsInOrder DEF Parts
  <2>2. FileOf(name)["memo"] = [num |-> NumberOf(2), closed |-> FALSE]
    BY <1>1, <2>1 DEF FileOf
  <2> QED
    BY <1>3, <1>4, <2>2 DEF FileOf
<1>5. CASE name \notin HasMemo
  <2>1. \A j \in DOMAIN PartsOf(name) : "memo" # PartsOf(name)[j]
    BY <1>5, PartsInOrder
  <2>2. FileOf(name)["memo"] = NoHandle
    BY <2>1 DEF FileOf, Parts
  <2> QED
    BY <1>3, <1>5, <2>2 DEF FileOf
<1> QED
  BY <1>4, <1>5

\* The handles of the process after the first k files of a table are opened.
LEMMA OpenPartsAt ==
    ASSUME NEW name, NEW k \in 0..Len(PartsOf(name)), k <= Cardinality(FreeNumbers),
           NEW n \in Numbers
    PROVE  OpenParts(name, k)[n] =
               IF k >= 1 /\ n = NumberOf(1) THEN <<name, "table">>
               ELSE IF k = 2 /\ n = NumberOf(2) THEN <<name, "memo">>
               ELSE open[n]
<1>1. k \in 0..2 /\ (k = 2 => name \in HasMemo)
  <2>1. CASE name \in HasMemo
    <3>1. Len(PartsOf(name)) = 2
      BY <2>1, PartsInOrder
    <3> QED
      BY <2>1, <3>1
  <2>2. CASE name \notin HasMemo
    <3>1. Len(PartsOf(name)) = 1
      BY <2>2, PartsInOrder
    <3> QED
      BY <3>1
  <2> QED
    BY <2>1, <2>2
<1>2. k = 2 => NumberOf(1) # NumberOf(2)
  BY <1>1, NumbersAreFree
<1>3. ASSUME NEW i \in 1..k, n = NumberOf(i)
      PROVE  OpenParts(name, k)[n] = <<name, PartsOf(name)[i]>>
  <2>1. \A j \in 1..k : n = NumberOf(j) => j = i
    <3>1. ASSUME NEW j \in 1..k, n = NumberOf(j) PROVE j = i
      <4>1. j \in {1, 2} /\ i \in {1, 2} /\ (j = 2 \/ i = 2 => k = 2)
        BY <1>1
      <4>2. ~(j = 1 /\ i = 2) /\ ~(j = 2 /\ i = 1)
        BY <1>2, <1>3, <3>1, <4>1, Zenon
      <4> QED
        BY <4>1, <4>2
    <3> QED
      BY <3>1
  <2>2. (CHOOSE j \in 1..k : n = NumberOf(j)) = i
    BY <1>3, <2>1
  <2> QED
    BY <1>3, <2>2 DEF OpenParts
<1>4. CASE k >= 1 /\ n = NumberOf(1)
  <2>1. 1 \in 1..k
    BY <1>1, <1>4
  <2> QED
    BY <1>3, <1>4, <2>1, PartsInOrder
<1>5. CASE ~(k >= 1 /\ n = NumberOf(1)) /\ k = 2 /\ n = NumberOf(2)
  <2>1. 2 \in 1..k
    BY <1>5
  <2> QED
    BY <1>1, <1>3, <1>5, <2>1, PartsInOrder
<1>6. CASE ~(k >= 1 /\ n = NumberOf(1)) /\ ~(k = 2 /\ n = NumberOf(2))
  <2>1. \A j \in 1..k : n # NumberOf(j)
    <3>1. \A j \in 1..k : (j = 1 /\ k >= 1) \/ (j = 2 /\ k = 2)
      BY <1>1
    <3> QED
      BY <1>6, <3>1
  <2> QED
    BY <1>6, <2>1 DEF OpenParts
<1> QED
  BY <1>4, <1>5, <1>6

-----------------------------------------------------------------------------
(* The inductive invariant *)

\* A handle that is not there counts as closed.
AllClosed(name) == \A part \in Parts : files[name][part].closed
HeldParts(name) == {part \in Parts : files[name][part] # NoHandle}
DatabaseNames == Names \cup {Container}

HandleTypes ==
    /\ open \in [Numbers -> {None} \cup (AllNames \X Parts)]
    /\ files \in [AllNames -> [Parts -> Handles]]

\* Every handle has a number, and a File with a memo handle has a table handle.
HandlesPlaced ==
    \A name \in AllNames :
        /\ \A part \in Parts : files[name][part] = NoHandle \/ files[name][part].num \in Numbers
        /\ files[name]["table"] = NoHandle => files[name]["memo"] = NoHandle

\* A number whose handle was closed is never open again on that file while the
\* File is held.
ClosedHandlesLeft ==
    \A name \in AllNames, part \in Parts :
        LET handle == files[name][part]
        IN  handle # NoHandle /\ handle.closed => open[handle.num] # <<name, part>>

\* The handles are those of UnixIO.
HandlesSound ==
    RemembersClose /\ HandleTypes /\ HandlesPlaced /\ HandlesBelong /\ ClosedHandlesLeft

\* There is no File of the Database before it is opened, and none is closed
\* while it is.
DatabaseFresh ==
    /\ pc = "none" => \A name \in DatabaseNames : files[name] = NoFile
    /\ pc = "loading" =>
          \A name \in DatabaseNames, part \in Parts :
              files[name][part] = NoHandle \/ ~files[name][part].closed

\* A File has all of its files or none; what is open was found, and what was
\* found is open or has still to be opened.
DatabaseLoads ==
    /\ ToSet(todo) \subseteq ToSet(found)
    /\ pc \in {"open", "closing"} => todo = <<>>
    /\ pc # "none" =>
          \A name \in DatabaseNames :
              /\ HeldParts(name) \in {{}, ToSet(PartsOf(name))}
              /\ HeldParts(name) # {} => name = Container \/ name \in ToSet(found)
              /\ name = Container \/ name \in ToSet(found) \ ToSet(todo)
                    => HeldParts(name) # {}

\* Database.Close has closed what is not pending, and what it reported closed
\* stays closed.
CloseProgress ==
    /\ pc = "closing" => \A name \in Names \ pending : AllClosed(name)
    /\ result = "closed" /\ pc \in {"open", "closing"} =>
          \A name \in DatabaseNames : AllClosed(name)

HandleInv ==
    /\ TypeOK
    /\ HandlesSound
    /\ DatabaseFresh
    /\ DatabaseLoads
    /\ CloseProgress

\* While no call has returned an error both files of a table are closed
\* together, and a table that is still to be opened has no File.
ClosedTogether ==
    \A name \in AllNames : files[name]["table"].closed => AllClosed(name)
TodoFresh == pc = "loading" => \A name \in ToSet(todo) \ {Blank} : files[name] = NoFile
Once(s) == \A i, j \in DOMAIN s : i # j /\ s[i] = s[j] => s[i] = Blank

Orderly ==
    /\ result = "error" => erred
    /\ ~erred => ClosedTogether
    /\ TodoFresh
    /\ Once(todo)

LeakInv == HandleInv /\ Orderly /\ NoSilentLeak

\* No container lists a table twice: OpenDatabase would open it twice and keep
\* the second File only.
ListedOnce == \A list \in Lists : Once(list)

-----------------------------------------------------------------------------
(* What opening and closing do to the handles *)

LEMMA PairIsNotNone == \A name, part : <<name, part>> # None
BY DEF None

\* A File that opens has a new handle for each of its files, and no number that
\* was in use changes.
LEMMA OpensEffect ==
    ASSUME HandleTypes, NEW name \in AllNames, Opens(name)
    PROVE  /\ open' \in [Numbers -> {None} \cup (AllNames \X Parts)]
           /\ FileOf(name) \in [Parts -> Handles]
           /\ \A part \in Parts :
                 IF part \in ToSet(PartsOf(name))
                 THEN /\ FileOf(name)[part].num \in FreeNumbers /\ ~FileOf(name)[part].closed
                      /\ open'[FileOf(name)[part].num] = <<name, part>>
                 ELSE FileOf(name)[part] = NoHandle
           /\ \A n \in Numbers :
                 \/ open'[n] = open[n]
                 \/ /\ n \in FreeNumbers
                    /\ \E part \in ToSet(PartsOf(name)) :
                          FileOf(name)[part].num = n /\ open'[n] = <<name, part>>
<1> DEFINE k == Len(PartsOf(name))
           f == FileOf(name)
<1>1. k = (IF name \in HasMemo THEN 2 ELSE 1) /\ k <= Cardinality(FreeNumbers)
  BY PartsInOrder DEF Opens
<1>2. k \in 0..k /\ k \in 1..2 /\ (k = 2 <=> name \in HasMemo)
  BY <1>1
<1>3. open' = OpenParts(name, k)
  BY DEF Opens
<1>4. \A n \in Numbers :
         open'[n] = IF n = NumberOf(1) THEN <<name, "table">>
                    ELSE IF name \in HasMemo /\ n = NumberOf(2) THEN <<name, "memo">>
                    ELSE open[n]
  <2> HIDE DEF k
  <2>1. k \in 0..Len(PartsOf(name))
    BY <1>2 DEF k
  <2> QED
    BY <1>1, <1>2, <1>3, <2>1, OpenPartsAt
<1>5. /\ NumberOf(1) \in FreeNumbers
      /\ name \in HasMemo => NumberOf(2) \in FreeNumbers /\ NumberOf(1) # NumberOf(2)
  <2> HIDE DEF k
  <2> QED
    BY <1>1, <1>2, NumbersAreFree
<1>6. FreeNumbers \subseteq Numbers /\ \A n \in Numbers : n \in 0..MaxHandles
  BY ListsAssumption DEF FreeNumbers, Numbers
<1>7. DOMAIN open' = Numbers
  BY <1>3 DEF OpenParts
<1>8. open' \in [Numbers -> {None} \cup (AllNames \X Parts)]
  <2>1. open' = [n \in Numbers |-> open'[n]]
    BY <1>3 DEF OpenParts
  <2>2. \A n \in Numbers : open'[n] \in {None} \cup (AllNames \X Parts)
    BY <1>4 DEF Parts, HandleTypes
  <2> QED
    BY <2>1, <2>2
<1> HIDE DEF k
<1>9. CASE name \in HasMemo
  <2>1. /\ ToSet(PartsOf(name)) = Parts
        /\ f["table"] = [num |-> NumberOf(1), closed |-> FALSE]
        /\ f["memo"] = [num |-> NumberOf(2), closed |-> FALSE]
    BY <1>9, PartsInOrder, FileOfParts
  <2>2. f["table"] \in Handles /\ f["memo"] \in Handles
    BY <1>5, <1>6, <1>9, <2>1 DEF Handles
  <2>3. f \in [Parts -> Handles]
    BY <2>2 DEF FileOf, Parts
  <2>4. \A part \in Parts : f[part].num \in FreeNumbers /\ ~f[part].closed
                            /\ open'[f[part].num] = <<name, part>>
    BY <1>4, <1>5, <1>6, <1>9, <2>1 DEF Parts
  <2>5. \A n \in Numbers : open'[n] = open[n]
                           \/ \E part \in Parts : f[part].num = n
    BY <1>4, <2>1 DEF Parts
  <2>6. \A part \in Parts :
           IF part \in ToSet(PartsOf(name))
           THEN /\ f[part].num \in FreeNumbers /\ ~f[part].closed
                /\ open'[f[part].num] = <<name, part>>
           ELSE f[part] = NoHandle
    BY <2>1, <2>4
  <2>7. \A n \in Numbers :
           \/ open'[n] = open[n]
           \/ /\ n \in FreeNumbers
              /\ \E part \in ToSet(PartsOf(name)) : f[part].num = n /\ open'[n] = <<name, part>>
    BY <2>1, <2>4, <2>5
  <2> QED
    BY <1>8, <2>3, <2>6, <2>7
<1>10. CASE name \notin HasMemo
  <2>1. /\ ToSet(PartsOf(name)) = {"table"}
        /\ f["table"] = [num |-> NumberOf(1), closed |-> FALSE]
        /\ f["memo"] = NoHandle
    BY <1>10, PartsInOrder, FileOfParts
  <2>2. f["table"] \in Handles /\ f["memo"] \in Handles
    BY <1>5, <1>6, <1>10, <2>1, ListsAssumption DEF Handles, NoHandle
  <2>3. f \in [Parts -> Handles]
    BY <2>2 DEF FileOf, Parts
  <2>4. f["table"].num \in FreeNumbers /\ ~f["table"].closed
        /\ open'[f["table"].num] = <<name, "table">>
    BY <1>4, <1>5, <1>6, <2>1
  <2>5. \A n \in Numbers : open'[n] = open[n] \/ f["table"].num = n
    BY <1>4, <1>10, <2>1
  <2>6. \A part \in Parts :
           IF part \in ToSet(PartsOf(name))
           THEN /\ f[part].num \in FreeNumbers /\ ~f[part].closed
                /\ open'[f[part].num] = <<name, part>>
           ELSE f[part] = NoHandle
    BY <2>1, <2>4 DEF Parts
  <2>7. \A n \in Numbers :
           \/ open'[n] = open[n]
           \/ /\ n \in FreeNumbers
              /\ \E part \in ToSet(PartsOf(name)) : f[part].num = n /\ open'[n] = <<name, part>>
    BY <2>1, <2>4, <2>5
  <2> QED
    BY <1>8, <2>3, <2>6, <2>7
<1> QED
  BY <1>9, <1>10

\* What a failing OpenTable opened has numbers that were free.
LEMMA OpenFailsEffect ==
    ASSUME HandleTypes, NEW name \in AllNames, OpenFails(name)
    PROVE  /\ open' \in [Numbers -> {None} \cup (AllNames \X Parts)]
           /\ \A n \in Numbers :
                 \/ open'[n] = open[n]
                 \/ n \in FreeNumbers /\ \E part \in Parts : open'[n] = <<name, part>>
<1>1. PICK k \in 0..Len(PartsOf(name)) :
          k <= Cardinality(FreeNumbers) /\ open' = OpenParts(name, k)
  BY DEF OpenFails
<1>2. k \in 0..2
  <2>1. Len(PartsOf(name)) = 1 \/ Len(PartsOf(name)) = 2
    BY PartsInOrder
  <2>2. \A l \in {1, 2} : \A i \in 0..l : i \in 0..2
    OBVIOUS
  <2> QED
    BY <2>1, <2>2
<1>3. k >= 1 => NumberOf(1) \in FreeNumbers
  <2>1. k >= 1 => k \in 1..2
    BY <1>2
  <2>2. k = 1 \/ k = 2 \/ k = 0
    BY <1>2
  <2> QED
    BY <1>1, <2>1, <2>2, NumbersAreFree
<1>4. k = 2 => NumberOf(2) \in FreeNumbers
  <2>1. k = 2 => 2 \in 1..2 /\ 2 <= Cardinality(FreeNumbers)
    BY <1>1
  <2> QED
    BY <2>1, NumbersAreFree
<1>5. \A n \in Numbers :
         \/ open'[n] = open[n]
         \/ n \in FreeNumbers /\ \E part \in Parts : open'[n] = <<name, part>>
  <2>1. "table" \in Parts /\ "memo" \in Parts
    BY DEF Parts
  <2>2. ASSUME NEW n \in Numbers
        PROVE  open'[n] = IF k >= 1 /\ n = NumberOf(1) THEN <<name, "table">>
                          ELSE IF k = 2 /\ n = NumberOf(2) THEN <<name, "memo">>
                          ELSE open[n]
    BY <1>1, OpenPartsAt
  <2> QED
    BY <1>3, <1>4, <2>1, <2>2
<1>6. open' = [n \in Numbers |-> open'[n]]
  BY <1>1 DEF OpenParts
<1>7. \A n \in Numbers : open'[n] \in {None} \cup (AllNames \X Parts)
  <2>1. \A part \in Parts : <<name, part>> \in AllNames \X Parts
    OBVIOUS
  <2> QED
    BY <1>5, <2>1 DEF HandleTypes
<1> QED
  BY <1>5, <1>6, <1>7

LEMMA HandleCloses ==
    ASSUME NEW handle \in Handles, NEW after, after = [handle EXCEPT !.closed = TRUE]
    PROVE  after \in Handles /\ after.num = handle.num /\ after.closed
BY DEF Handles

\* File.Close closes each handle it reaches, frees its number, and keeps the
\* handle; when it reports no error no handle of the File is open.
LEMMA CloseEffect ==
    ASSUME HandlesSound, NEW name \in AllNames, NEW failing, CloseFile(name, failing)
    PROVE  /\ HandleTypes'
           /\ \A m \in AllNames \ {name} : files'[m] = files[m]
           /\ \A part \in Parts :
                 /\ files'[name][part].num = files[name][part].num
                 /\ files[name][part] = NoHandle <=> files'[name][part] = NoHandle
                 /\ files[name][part].closed => files'[name][part] = files[name][part]
                 /\ \/ files'[name][part] = files[name][part]
                    \/ /\ ~files[name][part].closed /\ files'[name][part].closed
                       /\ open'[files[name][part].num] = None
           /\ \A n \in Numbers :
                 \/ open'[n] = open[n]
                 \/ /\ open'[n] = None
                    /\ \E part \in Parts : /\ files[name][part].num = n
                                           /\ ~files[name][part].closed
                                           /\ files'[name][part].closed
           /\ Closes(name, failing) => AllClosed(name)'
<1> DEFINE closing == ClosedParts(name, failing)
<1>1. /\ \A n \in Numbers : open'[n] = IF \E part \in closing : files[name][part].num = n
                                       THEN None ELSE open[n]
      /\ open' = [n \in Numbers |-> open'[n]]
  BY DEF CloseFile
<1>2. /\ files' = [files EXCEPT ![name] = files'[name]]
      /\ files'[name] = [part \in Parts |-> IF part \in closing
                                            THEN [files[name][part] EXCEPT !.closed = TRUE]
                                            ELSE files[name][part]]
  BY DEF CloseFile, HandlesSound, HandleTypes
<1>3. \A part \in closing : /\ part \in Parts /\ files[name][part] # NoHandle
                            /\ ~files[name][part].closed
  BY DEF HandlesSound, ClosedParts, Reached, CanClose, Parts
<1>4. \A part \in Parts : files[name][part] \in Handles
  BY DEF HandlesSound, HandleTypes
<1> HIDE DEF closing
<1>5. \A part \in closing : /\ files'[name][part] \in Handles
                            /\ files'[name][part].num = files[name][part].num
                            /\ files'[name][part].closed
  <2>1. ASSUME NEW part \in closing
        PROVE  /\ files'[name][part] = [files[name][part] EXCEPT !.closed = TRUE]
               /\ files[name][part] \in Handles
    BY <1>2, <1>3, <1>4
  <2> QED
    BY <2>1, HandleCloses
<1>6. \A part \in Parts \ closing : files'[name][part] = files[name][part]
  BY <1>2
<1>7. \A part \in closing : files[name][part].num \in Numbers
  BY <1>3 DEF HandlesSound, HandlesPlaced
<1>8. \A part \in closing : files'[name][part] # NoHandle
  <2>1. 0 \notin Numbers
    BY ListsAssumption DEF Numbers
  <2> QED
    BY <1>5, <1>7, <2>1 DEF NoHandle
<1>9. \A part \in closing : open'[files[name][part].num] = None
  BY <1>1, <1>7
<1>10. HandleTypes'
  <2>1. open' \in [Numbers -> {None} \cup (AllNames \X Parts)]
    <3>1. \A n \in Numbers : open'[n] \in {None} \cup (AllNames \X Parts)
      BY <1>1 DEF HandlesSound, HandleTypes
    <3> QED
      BY <1>1, <3>1
  <2>2. \A part \in Parts : files'[name][part] \in Handles
    BY <1>4, <1>5, <1>6
  <2>3. files'[name] \in [Parts -> Handles]
    BY <1>2, <2>2
  <2>4. files' \in [AllNames -> [Parts -> Handles]]
    BY <1>2, <2>3 DEF HandlesSound, HandleTypes
  <2> QED
    BY <2>1, <2>4 DEF HandleTypes
<1>11. \A m \in AllNames \ {name} : files'[m] = files[m]
  BY <1>2 DEF HandlesSound, HandleTypes
<1>12. ASSUME NEW part \in Parts
       PROVE  /\ files'[name][part].num = files[name][part].num
              /\ files[name][part] = NoHandle <=> files'[name][part] = NoHandle
              /\ files[name][part].closed => files'[name][part] = files[name][part]
              /\ \/ files'[name][part] = files[name][part]
                 \/ /\ ~files[name][part].closed /\ files'[name][part].closed
                    /\ open'[files[name][part].num] = None
  <2>1. CASE part \in closing
    BY <1>3, <1>5, <1>8, <1>9, <2>1
  <2>2. CASE part \notin closing
    BY <1>6, <2>2
  <2> QED
    BY <2>1, <2>2
<1>13. ASSUME NEW n \in Numbers
       PROVE  \/ open'[n] = open[n]
              \/ /\ open'[n] = None
                 /\ \E part \in Parts : /\ files[name][part].num = n
                                        /\ ~files[name][part].closed
                                        /\ files'[name][part].closed
  BY <1>1, <1>3, <1>5
<1>14. ASSUME Closes(name, failing) PROVE AllClosed(name)'
  <2>1. \A part \in Parts : part \in Reached(name, failing)
    BY <1>14 DEF Closes, Reached, Parts
  <2>2. ASSUME NEW part \in Parts PROVE files'[name][part].closed
    <3>1. CASE files[name][part] = NoHandle
      BY <1>12, <3>1 DEF NoHandle
    <3>2. CASE files[name][part] # NoHandle
      <4>1. CanClose(files[name][part])
        BY <1>14, <3>2 DEF Closes, Succeeds
      <4>2. part \in closing
        BY <2>1, <4>1 DEF ClosedParts, closing
      <4> QED
        BY <1>5, <4>2
    <3> QED
      BY <3>1, <3>2
  <2> QED
    BY <2>2 DEF AllClosed
<1> QED
  BY <1>10, <1>11, <1>12, <1>13, <1>14

-----------------------------------------------------------------------------
(* Handles stay sound *)

LEMMA OpeningKeepsHandles ==
    ASSUME HandlesSound, NEW name \in AllNames, Opens(name),
           files' = [files EXCEPT ![name] = FileOf(name)]
    PROVE  /\ HandlesSound'
           /\ HeldParts(name)' = ToSet(PartsOf(name))
           /\ \A part \in Parts : files'[name][part] = NoHandle \/ ~files'[name][part].closed
           /\ \A m \in AllNames \ {name} : files'[m] = files[m]
<1> DEFINE f == FileOf(name)
<1>1. /\ open' \in [Numbers -> {None} \cup (AllNames \X Parts)]
      /\ f \in [Parts -> Handles]
      /\ \A part \in Parts :
            IF part \in ToSet(PartsOf(name))
            THEN /\ f[part].num \in FreeNumbers /\ ~f[part].closed
                 /\ open'[f[part].num] = <<name, part>>
            ELSE f[part] = NoHandle
      /\ \A n \in Numbers :
            \/ open'[n] = open[n]
            \/ n \in FreeNumbers /\ \E part \in ToSet(PartsOf(name)) : open'[n] = <<name, part>>
  BY OpensEffect DEF HandlesSound
<1>2. /\ files'[name] = f /\ \A m \in AllNames \ {name} : files'[m] = files[m]
      /\ files' \in [AllNames -> [Parts -> Handles]]
  BY <1>1 DEF HandlesSound, HandleTypes
<1> HIDE DEF f
<1>3. FreeNumbers \subseteq Numbers /\ \A n \in FreeNumbers : open[n] = None
  BY DEF FreeNumbers
<1>4. ToSet(PartsOf(name)) \subseteq Parts /\ "table" \in ToSet(PartsOf(name))
  BY PartsInOrder DEF Parts
<1>5. HandlesPlaced'
  <2>1. \A part \in Parts : f[part] = NoHandle \/ f[part].num \in Numbers
    BY <1>1, <1>3
  <2>2. f["table"] # NoHandle
    BY <1>1, <1>4 DEF NoHandle
  <2> QED
    BY <1>2, <2>1, <2>2 DEF HandlesSound, HandlesPlaced
<1>6. ASSUME NEW m \in AllNames, NEW part \in Parts,
             files'[m][part] # NoHandle, ~files'[m][part].closed
      PROVE  open'[files'[m][part].num] = <<m, part>>
  <2>1. CASE m = name
    BY <1>1, <1>2, <1>6, <2>1
  <2>2. CASE m # name
    <3>1. files'[m] = files[m]
      BY <1>2, <2>2
    <3>2. open[files[m][part].num] = <<m, part>> /\ files[m][part].num \in Numbers
      BY <1>6, <3>1 DEF HandlesSound, HandlesBelong, HandlesPlaced
    <3>3. files[m][part].num \notin FreeNumbers
      BY <1>3, <3>2, PairIsNotNone
    <3> QED
      BY <1>1, <3>1, <3>2, <3>3
  <2> QED
    BY <2>1, <2>2
<1>7. ASSUME NEW m \in AllNames, NEW part \in Parts,
             files'[m][part] # NoHandle, files'[m][part].closed
      PROVE  open'[files'[m][part].num] # <<m, part>>
  <2>1. m # name /\ files'[m] = files[m]
    BY <1>1, <1>2, <1>7
  <2>2. open[files[m][part].num] # <<m, part>> /\ files[m][part].num \in Numbers
    BY <1>7, <2>1 DEF HandlesSound, ClosedHandlesLeft, HandlesPlaced
  <2>3. \A p : <<name, p>> # <<m, part>>
    BY <2>1
  <2> QED
    BY <1>1, <2>1, <2>2, <2>3
<1>8. HandlesSound'
  BY <1>1, <1>2, <1>5, <1>6, <1>7 DEF HandlesSound, HandleTypes, HandlesBelong, ClosedHandlesLeft
<1>9. HeldParts(name)' = ToSet(PartsOf(name))
  <2>1. \A part \in Parts : f[part] # NoHandle <=> part \in ToSet(PartsOf(name))
    BY <1>1 DEF NoHandle
  <2> QED
    BY <1>2, <1>4, <2>1 DEF HeldParts
<1> QED
  BY <1>1, <1>2, <1>8, <1>9

\* Files are forgotten, and what opens meanwhile is in no File.
LEMMA ForgettingKeepsHandles ==
    ASSUME HandlesSound, NEW name \in AllNames,
           open' = open \/ OpenFails(name),
           files' \in [AllNames -> [Parts -> Handles]],
           \A m \in AllNames : files'[m] \in {files[m], NoFile},
           open' = open \/ \A part \in Parts :
                               files'[name][part] = NoHandle \/ ~files'[name][part].closed
    PROVE  HandlesSound'
<1>1. /\ open' \in [Numbers -> {None} \cup (AllNames \X Parts)]
      /\ \A n \in Numbers :
            \/ open'[n] = open[n]
            \/ n \in FreeNumbers /\ \E part \in Parts : open'[n] = <<name, part>>
  BY OpenFailsEffect DEF HandlesSound, HandleTypes
<1>2. \A n \in FreeNumbers : open[n] = None
  BY DEF FreeNumbers
<1>3. ASSUME NEW m \in AllNames, NEW part \in Parts
      PROVE  files'[m][part] = NoHandle \/ files'[m] = files[m]
  BY DEF NoFile
<1>4. HandlesPlaced'
  <2>1. NoFile["table"] = NoHandle /\ NoFile["memo"] = NoHandle
    BY DEF NoFile, Parts
  <2> QED
    BY <1>3, <2>1 DEF HandlesSound, HandlesPlaced
<1>5. ASSUME NEW m \in AllNames, NEW part \in Parts,
             files'[m][part] # NoHandle, ~files'[m][part].closed
      PROVE  open'[files'[m][part].num] = <<m, part>>
  <2>1. files'[m] = files[m]
    BY <1>3, <1>5
  <2>2. open[files[m][part].num] = <<m, part>> /\ files[m][part].num \in Numbers
    BY <1>5, <2>1 DEF HandlesSound, HandlesBelong, HandlesPlaced
  <2>3. files[m][part].num \notin FreeNumbers
    BY <1>2, <2>2, PairIsNotNone
  <2> QED
    BY <1>1, <2>1, <2>2, <2>3
<1>6. ASSUME NEW m \in AllNames, NEW part \in Parts,
             files'[m][part] # NoHandle, files'[m][part].closed
      PROVE  open'[files'[m][part].num] # <<m, part>>
  <2>1. files'[m] = files[m]
    BY <1>3, <1>6
  <2>2. open[files[m][part].num] # <<m, part>> /\ files[m][part].num \in Numbers
    BY <1>6, <2>1 DEF HandlesSound, ClosedHandlesLeft, HandlesPlaced
  <2>3. open' = open \/ m # name
    BY <1>6
  <2>4. m # name => \A p : <<name, p>> # <<m, part>>
    OBVIOUS
  <2> QED
    BY <1>1, <2>1, <2>2, <2>3, <2>4
<1> QED
  BY <1>1, <1>4, <1>5, <1>6 DEF HandlesSound, HandleTypes, HandlesBelong, ClosedHandlesLeft

LEMMA ClosingKeepsHandles ==
    ASSUME HandlesSound, NEW name \in AllNames, NEW failing, CloseFile(name, failing)
    PROVE  /\ HandlesSound'
           /\ \A m \in AllNames \ {name} : files'[m] = files[m]
           /\ \A m \in AllNames : HeldParts(m)' = HeldParts(m) /\ (AllClosed(m) => AllClosed(m)')
           /\ Closes(name, failing) => AllClosed(name)'
<1>1. /\ HandleTypes'
      /\ \A m \in AllNames \ {name} : files'[m] = files[m]
      /\ \A part \in Parts :
            /\ files'[name][part].num = files[name][part].num
            /\ files[name][part] = NoHandle <=> files'[name][part] = NoHandle
            /\ files[name][part].closed => files'[name][part] = files[name][part]
            /\ \/ files'[name][part] = files[name][part]
               \/ /\ ~files[name][part].closed /\ files'[name][part].closed
                  /\ open'[files[name][part].num] = None
      /\ \A n \in Numbers :
            \/ open'[n] = open[n]
            \/ /\ open'[n] = None
               /\ \E part \in Parts : /\ files[name][part].num = n
                                      /\ ~files[name][part].closed
                                      /\ files'[name][part].closed
      /\ Closes(name, failing) => AllClosed(name)'
  BY CloseEffect
<1>2. \A m \in AllNames, part \in Parts :
         /\ files'[m][part].num = files[m][part].num
         /\ files[m][part] = NoHandle <=> files'[m][part] = NoHandle
         /\ files[m][part].closed => files'[m][part] = files[m][part]
         /\ \/ files'[m][part] = files[m][part]
            \/ /\ ~files[m][part].closed /\ files'[m][part].closed
               /\ open'[files[m][part].num] = None
  BY <1>1
<1>3. HandlesPlaced'
  <2>1. {"table", "memo"} \subseteq Parts
    BY DEF Parts
  <2> QED
    BY <1>2, <2>1 DEF HandlesSound, HandlesPlaced
<1>4. ASSUME NEW m \in AllNames, NEW part \in Parts,
             files'[m][part] # NoHandle, ~files'[m][part].closed
      PROVE  open'[files'[m][part].num] = <<m, part>>
  <2> DEFINE n == files[m][part].num
  <2>1. files'[m][part] = files[m][part]
    BY <1>2, <1>4
  <2>2. open[n] = <<m, part>> /\ n \in Numbers
    BY <1>4, <2>1 DEF HandlesSound, HandlesBelong, HandlesPlaced
  <2>3. ASSUME NEW p \in Parts, files[name][p].num = n, ~files[name][p].closed,
               files'[name][p].closed
        PROVE  FALSE
    <3>1. files[name][p] # NoHandle
      BY <2>3 DEF NoHandle
    <3>2. open[n] = <<name, p>>
      BY <2>3, <3>1 DEF HandlesSound, HandlesBelong
    <3>3. m = name /\ part = p
      BY <2>2, <3>2
    <3> QED
      BY <1>4, <2>3, <3>3
  <2> QED
    BY <1>1, <2>1, <2>2, <2>3
<1>5. ASSUME NEW m \in AllNames, NEW part \in Parts,
             files'[m][part] # NoHandle, files'[m][part].closed
      PROVE  open'[files'[m][part].num] # <<m, part>>
  <2>1. <<m, part>> # None
    BY PairIsNotNone
  <2>2. CASE files'[m][part] = files[m][part]
    <3>1. open[files[m][part].num] # <<m, part>> /\ files[m][part].num \in Numbers
      BY <1>5, <2>2 DEF HandlesSound, ClosedHandlesLeft, HandlesPlaced
    <3>2. open'[files[m][part].num] \in {open[files[m][part].num], None}
      BY <1>1, <3>1
    <3> QED
      BY <2>1, <2>2, <3>1, <3>2
  <2>3. CASE files'[m][part] # files[m][part]
    BY <1>2, <2>1, <2>3
  <2> QED
    BY <2>2, <2>3
<1>6. HandlesSound'
  BY <1>1, <1>3, <1>4, <1>5 DEF HandlesSound, HandlesBelong, ClosedHandlesLeft
<1>7. \A m \in AllNames : HeldParts(m)' = HeldParts(m) /\ (AllClosed(m) => AllClosed(m)')
  BY <1>2 DEF HeldParts, AllClosed
<1> QED
  BY <1>1, <1>6, <1>7

-----------------------------------------------------------------------------
(* The steps of OpenDatabase *)

LEMMA TailSet ==
    ASSUME NEW S, NEW s \in Seq(S), s # <<>>
    PROVE  /\ Head(s) \in S /\ Tail(s) \in Seq(S) /\ Head(s) \in ToSet(s)
           /\ ToSet(Tail(s)) \subseteq ToSet(s)
           /\ ToSet(s) \subseteq ToSet(Tail(s)) \cup {Head(s)}
<1>1. /\ Len(s) \in Nat \ {0} /\ DOMAIN s = 1..Len(s)
      /\ Head(s) \in S /\ Head(s) = s[1]
      /\ Tail(s) \in Seq(S) /\ Len(Tail(s)) = Len(s) - 1
      /\ \A i \in 1..Len(Tail(s)) : Tail(s)[i] = s[i + 1]
  BY EmptySeq, LenProperties, HeadTailProperties
<1>2. DOMAIN Tail(s) = 1..Len(s)-1
  BY <1>1, LenProperties
<1>3. \A i \in 1..Len(s)-1 : i + 1 \in 1..Len(s) /\ Tail(s)[i] = s[i + 1]
  BY <1>1
<1>4. \A i \in 1..Len(s) : i = 1 \/ (i - 1 \in 1..Len(s)-1 /\ Tail(s)[i - 1] = s[i])
  <2>1. \A i \in 1..Len(s) : i = 1 \/ (i - 1 \in 1..Len(s)-1 /\ (i - 1) + 1 = i)
    BY <1>1
  <2> QED
    BY <1>3, <2>1
<1>5. 1 \in 1..Len(s)
  BY <1>1
<1>6. ToSet(s) = {s[i] : i \in 1..Len(s)} /\ ToSet(Tail(s)) = {Tail(s)[i] : i \in 1..Len(s)-1}
  BY <1>1, <1>2 DEF ToSet
<1>7. Head(s) \in ToSet(s)
  BY <1>1, <1>5, <1>6
<1>8. ToSet(Tail(s)) \subseteq ToSet(s)
  BY <1>3, <1>6
<1>9. ToSet(s) \subseteq ToSet(Tail(s)) \cup {Head(s)}
  <2>1. ASSUME NEW i \in 1..Len(s) PROVE s[i] \in ToSet(Tail(s)) \cup {Head(s)}
    <3>1. CASE i = 1
      BY <1>1, <3>1
    <3>2. CASE i # 1
      <4>1. i - 1 \in 1..Len(s)-1 /\ Tail(s)[i - 1] = s[i]
        BY <1>4, <3>2
      <4> QED
        BY <1>6, <4>1
    <3> QED
      BY <3>1, <3>2
  <2> QED
    BY <1>6, <2>1
<1> QED
  BY <1>1, <1>7, <1>8, <1>9

\* The names of the Database are names, and none of them is Other or Blank.
LEMMA NamesApart ==
    /\ DatabaseNames \subseteq AllNames /\ Other \in AllNames /\ Container \in DatabaseNames
    /\ Other \notin DatabaseNames /\ Blank \notin AllNames
    /\ \A name \in AllNames : name = Other \/ name \in DatabaseNames
BY NamesAssumption DEF DatabaseNames, AllNames

LEMMA InitIsInv == ASSUME RemembersClose, Init PROVE HandleInv
<1>1. NoFile \in [Parts -> Handles] /\ \A part \in Parts : NoFile[part] = NoHandle
  <2>1. 0 \in 0..MaxHandles
    BY ListsAssumption
  <2> QED
    BY <2>1 DEF NoFile, NoHandle, Handles
<1>2. HandleTypes
  BY <1>1 DEF Init, HandleTypes
<1>3. \A name \in AllNames, part \in Parts : files[name][part] = NoHandle
  BY <1>1 DEF Init
<1>4. HandlesSound
  <2>1. {"table", "memo"} \subseteq Parts
    BY DEF Parts
  <2> QED
    BY <1>2, <1>3, <2>1
       DEF HandlesSound, HandlesPlaced, HandlesBelong, ClosedHandlesLeft
<1>5. TypeOK
  <2>1. todo \in Seq(Names \cup {Blank}) /\ found \in Seq(Names \cup {Blank})
    BY EmptySeq DEF Init
  <2> QED
    BY <1>2, <2>1 DEF Init, TypeOK, HandleTypes
<1>6. ToSet(todo) = {}
  BY DEF Init, ToSet
<1> QED
  BY <1>4, <1>5, <1>6, NamesApart
     DEF Init, HandleInv, DatabaseFresh, DatabaseLoads, CloseProgress

\* A step that leaves the Database alone keeps what is known of it.
LEMMA DatabaseStays ==
    ASSUME HandleInv, UNCHANGED <<listed, found, pc, todo, pending, result>>,
           \A name \in DatabaseNames : files'[name] = files[name]
    PROVE  DatabaseFresh' /\ DatabaseLoads' /\ CloseProgress'
<1>1. \A name \in DatabaseNames :
         HeldParts(name)' = HeldParts(name) /\ (AllClosed(name)' <=> AllClosed(name))
  BY DEF HeldParts, AllClosed
<1>2. Names \subseteq DatabaseNames
  BY DEF DatabaseNames
<1>3. DatabaseFresh'
  BY DEF HandleInv, DatabaseFresh
<1>4. DatabaseLoads'
  BY <1>1 DEF HandleInv, DatabaseLoads
<1>5. CloseProgress'
  BY <1>1, <1>2 DEF HandleInv, CloseProgress
<1> QED
  BY <1>3, <1>4, <1>5

\* Search leaves rows out and keeps the others as they are.
LEMMA SearchFinds ==
    ASSUME listed \in Lists, NEW rows \in SearchResults
    PROVE  /\ rows \in Seq(Names \cup {Blank})
           /\ Once(listed) => Once(rows)
<1>1. listed \in Seq(Names \cup {Blank})
  BY ListsAssumption
<1>2. /\ Len(listed) \in Nat /\ DOMAIN listed = 1..Len(listed)
      /\ \A i \in 1..Len(listed) : listed[i] \in Names \cup {Blank}
  BY <1>1, LenProperties, ElementOfSeq
<1>3. CASE Faults
  <2>1. /\ rows \in [1..Len(listed) -> Names \cup {Blank}]
        /\ \A i \in 1..Len(listed) : rows[i] \in {listed[i], Blank}
    BY <1>2, <1>3 DEF SearchResults
  <2>2. rows \in Seq(Names \cup {Blank})
    BY <1>2, <2>1, SeqDef
  <2>3. Once(listed) => Once(rows)
    BY <1>2, <2>1 DEF Once
  <2> QED
    BY <2>2, <2>3
<1>4. CASE ~Faults
  BY <1>1, <1>4 DEF SearchResults
<1> QED
  BY <1>3, <1>4

LEMMA OpenContainerKeepsInv == ASSUME HandleInv, OpenContainer PROVE HandleInv'
<1>1. /\ pc = "none" /\ pc' = "loading" /\ Opens(Container)
      /\ found' \in Seq(Names \cup {Blank}) /\ todo' = found'
      /\ files' = [files EXCEPT ![Container] = FileOf(Container)]
      /\ UNCHANGED <<listed, pending, result, erred>>
  BY SearchFinds DEF OpenContainer, HandleInv, TypeOK
<1>2. /\ HandlesSound'
      /\ HeldParts(Container)' = ToSet(PartsOf(Container))
      /\ \A part \in Parts : files'[Container][part] = NoHandle \/ ~files'[Container][part].closed
      /\ \A name \in AllNames \ {Container} : files'[name] = files[name]
  BY <1>1, NamesApart, OpeningKeepsHandles DEF HandleInv
<1>3. \A name \in DatabaseNames \ {Container} : files'[name] = NoFile
  BY <1>1, <1>2, NamesApart DEF HandleInv, DatabaseFresh
<1>4. TypeOK'
  BY <1>1, <1>2, ListsAssumption DEF HandleInv, TypeOK, HandlesSound, HandleTypes
<1>5. DatabaseFresh'
  BY <1>1, <1>2, <1>3 DEF DatabaseFresh, NoFile
<1>6. DatabaseLoads'
  <2>1. \A name \in DatabaseNames \ {Container} : HeldParts(name)' = {}
    BY <1>3 DEF HeldParts, NoFile
  <2>2. ToSet(PartsOf(Container)) # {}
    BY PartsInOrder DEF Parts
  <2> QED
    BY <1>1, <1>2, <2>1, <2>2 DEF DatabaseLoads
<1>7. CloseProgress'
  BY <1>1 DEF CloseProgress
<1> QED
  BY <1>2, <1>4, <1>5, <1>6, <1>7 DEF HandleInv

LEMMA ContainerFailsKeepsInv == ASSUME HandleInv, ContainerFails PROVE HandleInv'
<1>1. /\ pc = "none" /\ OpenFails(Container) /\ result' = "error" /\ erred' = TRUE
      /\ UNCHANGED <<files, listed, found, pc, todo, pending>>
  BY DEF ContainerFails
<1>2. HandlesSound'
  <2>1. \A part \in Parts : files'[Container][part] = NoHandle
    BY <1>1, NamesApart DEF HandleInv, DatabaseFresh, NoFile
  <2> QED
    BY <1>1, <2>1, NamesApart, ForgettingKeepsHandles DEF HandleInv, HandlesSound, HandleTypes
<1>3. TypeOK'
  BY <1>1, <1>2 DEF HandleInv, TypeOK, HandlesSound, HandleTypes
<1>4. DatabaseFresh' /\ DatabaseLoads' /\ CloseProgress'
  BY <1>1 DEF HandleInv, DatabaseFresh, DatabaseLoads, CloseProgress
<1> QED
  BY <1>2, <1>3, <1>4 DEF HandleInv

LEMMA SkipBlankKeepsInv == ASSUME HandleInv, SkipBlank PROVE HandleInv'
<1>1. /\ pc = "loading" /\ todo # <<>> /\ Head(todo) = Blank /\ todo' = Tail(todo)
      /\ UNCHANGED <<open, files, listed, found, pc, pending, result, erred>>
  BY DEF SkipBlank
<1>2. /\ todo' \in Seq(Names \cup {Blank}) /\ ToSet(todo)' \subseteq ToSet(todo)
      /\ ToSet(todo) \subseteq ToSet(todo)' \cup {Blank}
  BY <1>1, TailSet DEF HandleInv, TypeOK
<1>3. HandlesSound'
  BY <1>1 DEF HandleInv, HandlesSound, HandleTypes, HandlesPlaced, HandlesBelong,
              ClosedHandlesLeft
<1>4. TypeOK'
  BY <1>1, <1>2 DEF HandleInv, TypeOK
<1>5. \A name \in DatabaseNames : HeldParts(name)' = HeldParts(name) /\ name # Blank
  BY <1>1, NamesApart DEF HeldParts
<1>6. DatabaseLoads'
  BY <1>1, <1>2, <1>5 DEF HandleInv, DatabaseLoads
<1>7. DatabaseFresh' /\ CloseProgress'
  BY <1>1 DEF HandleInv, DatabaseFresh, CloseProgress
<1> QED
  BY <1>3, <1>4, <1>6, <1>7 DEF HandleInv

LEMMA LoadTableKeepsInv == ASSUME HandleInv, LoadTable PROVE HandleInv'
<1>1. PICK table :
         /\ pc = "loading" /\ todo # <<>> /\ table = Head(todo) /\ table # Blank
         /\ todo' = Tail(todo) /\ Opens(table)
         /\ files' = [files EXCEPT ![table] = FileOf(table)]
         /\ UNCHANGED <<listed, found, pc, pending, result, erred>>
  BY DEF LoadTable
<1>2. /\ table \in Names \cup {Blank} /\ table \in ToSet(todo)
      /\ todo' \in Seq(Names \cup {Blank}) /\ ToSet(todo)' \subseteq ToSet(todo)
      /\ ToSet(todo) \subseteq ToSet(todo)' \cup {table}
  BY <1>1, TailSet DEF HandleInv, TypeOK
<1>3. table \in DatabaseNames /\ table \in AllNames /\ table \in ToSet(found)
  BY <1>1, <1>2 DEF DatabaseNames, AllNames, HandleInv, DatabaseLoads
<1>4. /\ HandlesSound'
      /\ HeldParts(table)' = ToSet(PartsOf(table))
      /\ \A part \in Parts : files'[table][part] = NoHandle \/ ~files'[table][part].closed
      /\ \A name \in AllNames \ {table} : files'[name] = files[name]
  BY <1>1, <1>3, OpeningKeepsHandles DEF HandleInv
<1>5. TypeOK'
  BY <1>1, <1>2, <1>4 DEF HandleInv, TypeOK, HandlesSound, HandleTypes
<1>6. DatabaseFresh'
  BY <1>1, <1>4, NamesApart DEF HandleInv, DatabaseFresh
<1>7. DatabaseLoads'
  <2>1. \A name \in DatabaseNames \ {table} : HeldParts(name)' = HeldParts(name)
    BY <1>4, NamesApart DEF HeldParts
  <2>2. ToSet(PartsOf(table)) # {}
    BY PartsInOrder DEF Parts
  <2>3. ASSUME NEW name \in DatabaseNames
        PROVE  /\ HeldParts(name)' \in {{}, ToSet(PartsOf(name))}
               /\ HeldParts(name)' # {} => name = Container \/ name \in ToSet(found)
               /\ name = Container \/ name \in ToSet(found) \ ToSet(todo)'
                     => HeldParts(name)' # {}
    <3>1. CASE name = table
      BY <1>3, <1>4, <2>2, <3>1
    <3>2. CASE name # table
      BY <1>1, <1>2, <2>1, <3>2 DEF HandleInv, DatabaseLoads
    <3> QED
      BY <3>1, <3>2
  <2> QED
    BY <1>1, <1>2, <2>3 DEF HandleInv, DatabaseLoads
<1>8. CloseProgress'
  BY <1>1 DEF CloseProgress
<1> QED
  BY <1>4, <1>5, <1>6, <1>7, <1>8 DEF HandleInv

\* The Files of the Database are forgotten; a File of the client's own stays.
DatabaseForgotten == files' = [name \in AllNames |-> IF name = Other THEN files[name] ELSE NoFile]

LEMMA ForgetsFiles ==
    ASSUME HandleInv, DatabaseForgotten
    PROVE  /\ files' \in [AllNames -> [Parts -> Handles]]
           /\ \A name \in AllNames : files'[name] \in {files[name], NoFile}
           /\ \A name \in DatabaseNames : files'[name] = NoFile
<1>1. NoFile \in [Parts -> Handles]
  <2>1. 0 \in 0..MaxHandles
    BY ListsAssumption
  <2> QED
    BY <2>1 DEF NoFile, NoHandle, Handles
<1> QED
  BY <1>1, NamesApart DEF DatabaseForgotten, HandleInv, HandlesSound, HandleTypes

LEMMA LoadFailsKeepsInv == ASSUME HandleInv, LoadFails PROVE HandleInv'
<1> DEFINE table == Head(todo)
<1>1. /\ pc = "loading" /\ todo # <<>> /\ table # Blank /\ OpenFails(table)
      /\ DatabaseForgotten
      /\ pc' = "none" /\ found' = <<>> /\ todo' = <<>> /\ result' = "error" /\ erred' = TRUE
      /\ UNCHANGED <<listed, pending>>
  BY DEF LoadFails, DatabaseForgotten
<1>2. table \in DatabaseNames
  BY <1>1, TailSet DEF HandleInv, TypeOK, DatabaseNames
<1> HIDE DEF table
<1>3. /\ files' \in [AllNames -> [Parts -> Handles]]
      /\ \A name \in AllNames : files'[name] \in {files[name], NoFile}
      /\ \A name \in DatabaseNames : files'[name] = NoFile
  BY <1>1, ForgetsFiles
<1>4. HandlesSound'
  <2>1. \A part \in Parts : files'[table][part] = NoHandle
    BY <1>2, <1>3 DEF NoFile
  <2> QED
    BY <1>1, <1>2, <1>3, <2>1, NamesApart, ForgettingKeepsHandles DEF HandleInv
<1>5. TypeOK'
  BY <1>1, <1>4, EmptySeq DEF HandleInv, TypeOK, HandlesSound, HandleTypes
<1>6. DatabaseFresh' /\ DatabaseLoads' /\ CloseProgress'
  BY <1>1, <1>3 DEF DatabaseFresh, DatabaseLoads, CloseProgress, ToSet
<1> QED
  BY <1>4, <1>5, <1>6 DEF HandleInv

LEMMA DatabaseOpenKeepsInv == ASSUME HandleInv, DatabaseOpen PROVE HandleInv'
<1>1. /\ pc = "loading" /\ todo = <<>> /\ pc' = "open" /\ result' = "none"
      /\ UNCHANGED <<open, files, listed, found, todo, pending, erred>>
  BY DEF DatabaseOpen, LoadedAll
<1>2. HandlesSound'
  BY <1>1 DEF HandleInv, HandlesSound, HandleTypes, HandlesPlaced, HandlesBelong,
              ClosedHandlesLeft
<1>3. TypeOK'
  BY <1>1 DEF HandleInv, TypeOK
<1>4. \A name \in DatabaseNames : HeldParts(name)' = HeldParts(name)
  BY <1>1 DEF HeldParts
<1>5. DatabaseFresh' /\ DatabaseLoads' /\ CloseProgress'
  BY <1>1, <1>4 DEF HandleInv, DatabaseFresh, DatabaseLoads, CloseProgress
<1> QED
  BY <1>2, <1>3, <1>5 DEF HandleInv

-----------------------------------------------------------------------------
(* The steps of Database.Close *)

\* The Files of the Database are held while it closes.
LEMMA FilesStayHeld ==
    ASSUME HandleInv, NEW name \in DatabaseNames, NEW failing, CloseFile(name, failing),
           pc \in {"open", "closing"}, pc' \in {"open", "closing"}, UNCHANGED <<listed, found, todo>>
    PROVE  /\ HandlesSound' /\ DatabaseFresh' /\ DatabaseLoads'
           /\ \A m \in DatabaseNames : AllClosed(m) => AllClosed(m)'
           /\ Closes(name, failing) => AllClosed(name)'
<1>1. /\ HandlesSound'
      /\ \A m \in AllNames : HeldParts(m)' = HeldParts(m) /\ (AllClosed(m) => AllClosed(m)')
      /\ Closes(name, failing) => AllClosed(name)'
  BY NamesApart, ClosingKeepsHandles DEF HandleInv
<1>2. DatabaseFresh'
  BY DEF DatabaseFresh
<1>3. DatabaseLoads'
  BY <1>1, NamesApart DEF HandleInv, DatabaseLoads
<1> QED
  BY <1>1, <1>2, <1>3, NamesApart

LEMMA CloseTableKeepsInv ==
    ASSUME HandleInv, NEW name \in Names, NEW failing, CloseTable(name, failing)
    PROVE  HandleInv'
<1>1. /\ pc = "open" /\ CloseFile(name, failing) /\ name \in DatabaseNames
      /\ erred' = (erred \/ ~Closes(name, failing))
      /\ UNCHANGED <<listed, found, pc, todo, pending, result>>
  BY DEF CloseTable, DatabaseNames
<1>2. /\ HandlesSound' /\ DatabaseFresh' /\ DatabaseLoads'
      /\ \A m \in DatabaseNames : AllClosed(m) => AllClosed(m)'
  BY <1>1, FilesStayHeld
<1>3. TypeOK'
  BY <1>1, <1>2 DEF HandleInv, TypeOK, HandlesSound, HandleTypes
<1>4. CloseProgress'
  BY <1>1, <1>2 DEF HandleInv, CloseProgress
<1> QED
  BY <1>2, <1>3, <1>4 DEF HandleInv

LEMMA BeginCloseKeepsInv == ASSUME HandleInv, BeginClose PROVE HandleInv'
<1>1. /\ pc = "open" /\ pc' = "closing" /\ pending' = Tables
      /\ UNCHANGED <<open, files, listed, found, todo, result, erred>>
  BY DEF BeginClose
<1>2. HandlesSound'
  BY <1>1 DEF HandleInv, HandlesSound, HandleTypes, HandlesPlaced, HandlesBelong,
              ClosedHandlesLeft
<1>3. TypeOK'
  BY <1>1 DEF HandleInv, TypeOK, Tables
<1>4. \A name \in DatabaseNames :
         HeldParts(name)' = HeldParts(name) /\ (AllClosed(name)' <=> AllClosed(name))
  BY <1>1 DEF HeldParts, AllClosed
<1>5. \A name \in Names \ Tables : AllClosed(name)
  <2>1. ASSUME NEW name \in Names \ Tables
        PROVE  files[name]["table"] = NoHandle /\ files[name]["memo"] = NoHandle
    BY DEF Tables, Opened, HandleInv, HandlesSound, HandlesPlaced, AllNames
  <2> QED
    BY <2>1 DEF AllClosed, NoHandle, Parts
<1>6. Names \subseteq DatabaseNames
  BY DEF DatabaseNames
<1>7. DatabaseFresh' /\ DatabaseLoads'
  BY <1>1, <1>4 DEF HandleInv, DatabaseFresh, DatabaseLoads
<1>8. CloseProgress'
  BY <1>1, <1>4, <1>5, <1>6 DEF HandleInv, CloseProgress
<1> QED
  BY <1>2, <1>3, <1>7, <1>8 DEF HandleInv

LEMMA CloseNextKeepsInv ==
    ASSUME HandleInv, NEW name \in Names, NEW failing, CloseNext(name, failing)
    PROVE  HandleInv'
<1>1. /\ pc = "closing" /\ CloseFile(name, failing) /\ name \in DatabaseNames
      /\ UNCHANGED <<listed, found, todo>>
      /\ \/ /\ Closes(name, failing) /\ pending' = pending \ {name}
            /\ UNCHANGED <<pc, result, erred>>
         \/ pending' = {} /\ pc' = "open" /\ result' = "error" /\ erred' = TRUE
  BY DEF CloseNext, DatabaseNames
<1>2. /\ HandlesSound' /\ DatabaseFresh' /\ DatabaseLoads'
      /\ \A m \in DatabaseNames : AllClosed(m) => AllClosed(m)'
      /\ Closes(name, failing) => AllClosed(name)'
  <2>1. pc \in {"open", "closing"} /\ pc' \in {"open", "closing"}
    BY <1>1
  <2> QED
    BY <1>1, <2>1, FilesStayHeld
<1>3. TypeOK'
  BY <1>1, <1>2 DEF HandleInv, TypeOK, HandlesSound, HandleTypes
<1>4. Names \subseteq DatabaseNames
  BY DEF DatabaseNames
<1>5. CloseProgress'
  BY <1>1, <1>2, <1>4 DEF HandleInv, CloseProgress
<1> QED
  BY <1>2, <1>3, <1>5 DEF HandleInv

\* The container is closed last, so nothing is open when no error was reported.
LEMMA CloseContainerKeepsInv ==
    ASSUME HandleInv, NEW failing, CloseContainer(failing)
    PROVE  /\ HandleInv'
           /\ result' = "closed" => \A name \in DatabaseNames : AllClosed(name)'
<1>1. /\ pc = "closing" /\ pending = {} /\ pc' = "open" /\ CloseFile(Container, failing)
      /\ result' = IF Closes(Container, failing) THEN "closed" ELSE "error"
      /\ erred' = (erred \/ ~Closes(Container, failing))
      /\ UNCHANGED <<listed, found, todo, pending>>
  BY DEF CloseContainer
<1>2. /\ HandlesSound' /\ DatabaseFresh' /\ DatabaseLoads'
      /\ \A m \in DatabaseNames : AllClosed(m) => AllClosed(m)'
      /\ Closes(Container, failing) => AllClosed(Container)'
  <2>1. pc \in {"open", "closing"} /\ pc' \in {"open", "closing"}
    BY <1>1
  <2> QED
    BY <1>1, <2>1, NamesApart, FilesStayHeld
<1>3. TypeOK'
  BY <1>1, <1>2 DEF HandleInv, TypeOK, HandlesSound, HandleTypes
<1>4. ASSUME result' = "closed" PROVE \A name \in DatabaseNames : AllClosed(name)'
  <2>1. Closes(Container, failing)
    BY <1>1, <1>4
  <2>2. \A name \in Names : AllClosed(name)
    BY <1>1 DEF HandleInv, CloseProgress
  <2> QED
    BY <1>2, <2>1, <2>2 DEF DatabaseNames
<1>5. CloseProgress'
  BY <1>1, <1>4 DEF CloseProgress
<1> QED
  BY <1>2, <1>3, <1>4, <1>5 DEF HandleInv

LEMMA ForgetDatabaseKeepsInv == ASSUME HandleInv, ForgetDatabase PROVE HandleInv'
<1>1. /\ pc = "open" /\ pc' = "none" /\ found' = <<>> /\ DatabaseForgotten
      /\ UNCHANGED <<open, listed, todo, pending, result, erred>>
  BY DEF ForgetDatabase, DatabaseForgotten
<1>2. /\ files' \in [AllNames -> [Parts -> Handles]]
      /\ \A name \in AllNames : files'[name] \in {files[name], NoFile}
      /\ \A name \in DatabaseNames : files'[name] = NoFile
  BY <1>1, ForgetsFiles
<1>3. HandlesSound'
  BY <1>1, <1>2, NamesApart, ForgettingKeepsHandles DEF HandleInv
<1>4. TypeOK'
  BY <1>1, <1>3, EmptySeq DEF HandleInv, TypeOK, HandlesSound, HandleTypes
<1>5. DatabaseFresh' /\ DatabaseLoads' /\ CloseProgress'
  <2>1. ToSet(todo') = {}
    BY <1>1 DEF HandleInv, DatabaseLoads, ToSet
  <2> QED
    BY <1>1, <1>2, <2>1 DEF HandleInv, DatabaseFresh, DatabaseLoads, CloseProgress
<1> QED
  BY <1>3, <1>4, <1>5 DEF HandleInv

-----------------------------------------------------------------------------
(* The steps of a client's own table *)

LEMMA OpenOtherKeepsInv == ASSUME HandleInv, OpenOther PROVE HandleInv'
<1>1. /\ files[Other]["table"] = NoHandle /\ UNCHANGED <<listed, found, pc, todo, pending, result>>
      /\ \/ /\ Opens(Other) /\ files' = [files EXCEPT ![Other] = FileOf(Other)]
            /\ UNCHANGED erred
         \/ OpenFails(Other) /\ erred' = TRUE /\ UNCHANGED files
  BY DEF OpenOther, Opened
<1>2. files[Other]["memo"] = NoHandle
  BY <1>1, NamesApart DEF HandleInv, HandlesSound, HandlesPlaced
<1>3. HandlesSound' /\ \A name \in AllNames \ {Other} : files'[name] = files[name]
  <2>1. CASE Opens(Other) /\ files' = [files EXCEPT ![Other] = FileOf(Other)]
    BY <2>1, NamesApart, OpeningKeepsHandles DEF HandleInv
  <2>2. CASE OpenFails(Other) /\ UNCHANGED files
    <3>1. \A part \in Parts : files'[Other][part] = NoHandle
      BY <1>1, <1>2, <2>2 DEF Parts
    <3> QED
      BY <2>2, <3>1, NamesApart, ForgettingKeepsHandles DEF HandleInv, HandlesSound, HandleTypes
  <2> QED
    BY <1>1, <2>1, <2>2
<1>4. DatabaseFresh' /\ DatabaseLoads' /\ CloseProgress'
  BY <1>1, <1>3, NamesApart, DatabaseStays
<1>5. TypeOK'
  BY <1>1, <1>3 DEF HandleInv, TypeOK, HandlesSound, HandleTypes
<1> QED
  BY <1>3, <1>4, <1>5 DEF HandleInv

LEMMA CloseOtherKeepsInv ==
    ASSUME HandleInv, NEW failing, CloseOther(failing) \/ ForgetOther PROVE HandleInv'
<1>1. /\ UNCHANGED <<listed, found, pc, todo, pending, result>> /\ erred' \in BOOLEAN
      /\ \/ CloseFile(Other, failing)
         \/ UNCHANGED open /\ files' = [files EXCEPT ![Other] = NoFile]
  BY DEF CloseOther, ForgetOther, HandleInv, TypeOK
<1>2. HandlesSound' /\ \A name \in AllNames \ {Other} : files'[name] = files[name]
  <2>1. CASE CloseFile(Other, failing)
    BY <2>1, NamesApart, ClosingKeepsHandles DEF HandleInv
  <2>2. CASE UNCHANGED open /\ files' = [files EXCEPT ![Other] = NoFile]
    <3>1. 0 \in 0..MaxHandles
      BY ListsAssumption
    <3>2. NoFile \in [Parts -> Handles]
      BY <3>1 DEF NoFile, NoHandle, Handles
    <3>3. /\ files' \in [AllNames -> [Parts -> Handles]]
          /\ \A name \in AllNames : files'[name] \in {files[name], NoFile}
          /\ \A name \in AllNames \ {Other} : files'[name] = files[name]
      BY <2>2, <3>2 DEF HandleInv, HandlesSound, HandleTypes
    <3> QED
      BY <2>2, <3>3, NamesApart, ForgettingKeepsHandles DEF HandleInv
  <2> QED
    BY <1>1, <2>1, <2>2
<1>3. DatabaseFresh' /\ DatabaseLoads' /\ CloseProgress'
  BY <1>1, <1>2, NamesApart, DatabaseStays
<1>4. TypeOK'
  BY <1>1, <1>2 DEF HandleInv, TypeOK, HandlesSound, HandleTypes
<1> QED
  BY <1>2, <1>3, <1>4 DEF HandleInv

-----------------------------------------------------------------------------
(* The theorems *)

LEMMA StepKeepsInv == HandleInv /\ [Next]_vars => HandleInv'
<1> SUFFICES ASSUME HandleInv, [Next]_vars PROVE HandleInv'
  OBVIOUS
<1>1. ASSUME OpenContainer \/ ContainerFails \/ SkipBlank \/ LoadTable \/ LoadFails \/ DatabaseOpen
      PROVE  HandleInv'
  BY <1>1, OpenContainerKeepsInv, ContainerFailsKeepsInv, SkipBlankKeepsInv, LoadTableKeepsInv,
     LoadFailsKeepsInv, DatabaseOpenKeepsInv
<1>2. ASSUME BeginClose \/ ForgetDatabase \/ OpenOther \/ ForgetOther PROVE HandleInv'
  BY <1>2, BeginCloseKeepsInv, ForgetDatabaseKeepsInv, OpenOtherKeepsInv, CloseOtherKeepsInv
<1>3. ASSUME NEW failing, NEW name \in Names, CloseTable(name, failing) \/ CloseNext(name, failing)
      PROVE  HandleInv'
  BY <1>3, CloseTableKeepsInv, CloseNextKeepsInv
<1>4. ASSUME NEW failing, CloseContainer(failing) \/ CloseOther(failing) PROVE HandleInv'
  BY <1>4, CloseContainerKeepsInv, CloseOtherKeepsInv
<1>5. CASE UNCHANGED vars
  BY <1>5 DEF vars, HandleInv, TypeOK, HandlesSound, HandleTypes, HandlesPlaced, HandlesBelong,
              ClosedHandlesLeft, DatabaseFresh, DatabaseLoads, CloseProgress, HeldParts, AllClosed
<1> QED
  BY <1>1, <1>2, <1>3, <1>4, <1>5 DEF Next

LEMMA HandlesAreSound == ASSUME RemembersClose PROVE Spec => []HandleInv
<1>1. Init => HandleInv
  BY InitIsInv
<1> QED
  BY <1>1, StepKeepsInv, PTL DEF Spec

\* Every variable keeps its type, for any container and any number of handles,
\* whether or not a handle knows that it was closed.
THEOREM TypeCorrect == Spec => []TypeOK
<1>1. NoFile \in [Parts -> Handles] /\ <<>> \in Seq(Names \cup {Blank})
  <2>1. 0 \in 0..MaxHandles
    BY ListsAssumption
  <2> QED
    BY <2>1, EmptySeq DEF NoFile, NoHandle, Handles
<1>2. Init => TypeOK
  BY <1>1 DEF Init, TypeOK
<1>3. ASSUME TypeOK, [Next]_vars PROVE TypeOK'
  <2>1. HandleTypes
    BY <1>3 DEF TypeOK, HandleTypes
  <2>2. ASSUME OpenContainer PROVE TypeOK'
    <3>1. found' \in Seq(Names \cup {Blank})
      BY <1>3, <2>2, SearchFinds DEF OpenContainer, TypeOK
    <3>2. /\ open' \in [Numbers -> {None} \cup (AllNames \X Parts)]
          /\ FileOf(Container) \in [Parts -> Handles]
      BY <2>1, <2>2, NamesApart, OpensEffect DEF OpenContainer
    <3> QED
      BY <1>3, <2>2, <3>1, <3>2 DEF OpenContainer, TypeOK
  <2>3. ASSUME LoadTable PROVE TypeOK'
    <3>1. Head(todo) \in Names /\ Head(todo) \in AllNames /\ Tail(todo) \in Seq(Names \cup {Blank})
      BY <1>3, <2>3, TailSet DEF LoadTable, TypeOK, AllNames
    <3>2. /\ open' \in [Numbers -> {None} \cup (AllNames \X Parts)]
          /\ FileOf(Head(todo)) \in [Parts -> Handles]
      BY <2>1, <2>3, <3>1, OpensEffect DEF LoadTable
    <3> QED
      BY <1>3, <2>3, <3>1, <3>2 DEF LoadTable, TypeOK
  <2>4. ASSUME LoadFails PROVE TypeOK'
    <3>1. Head(todo) \in Names /\ Head(todo) \in AllNames
      BY <1>3, <2>4, TailSet DEF LoadFails, TypeOK, AllNames
    <3>2. open' \in [Numbers -> {None} \cup (AllNames \X Parts)]
      BY <2>1, <2>4, <3>1, OpenFailsEffect DEF LoadFails
    <3> QED
      BY <1>1, <1>3, <2>4, <3>2 DEF LoadFails, TypeOK
  <2>5. ASSUME ContainerFails PROVE TypeOK'
    <3>1. open' \in [Numbers -> {None} \cup (AllNames \X Parts)]
      BY <2>1, <2>5, NamesApart, OpenFailsEffect DEF ContainerFails
    <3> QED
      BY <1>3, <2>5, <3>1 DEF ContainerFails, TypeOK
  <2>6. ASSUME OpenOther PROVE TypeOK'
    <3>1. CASE Opens(Other) /\ files' = [files EXCEPT ![Other] = FileOf(Other)] /\ erred' = erred
      <4>1. /\ open' \in [Numbers -> {None} \cup (AllNames \X Parts)]
            /\ FileOf(Other) \in [Parts -> Handles]
        BY <2>1, <3>1, NamesApart, OpensEffect
      <4> QED
        BY <1>3, <2>6, <3>1, <4>1 DEF OpenOther, TypeOK
    <3>2. CASE OpenFails(Other) /\ erred' = TRUE /\ UNCHANGED files
      <4>1. open' \in [Numbers -> {None} \cup (AllNames \X Parts)]
        BY <2>1, <3>2, NamesApart, OpenFailsEffect
      <4> QED
        BY <1>3, <2>6, <3>2, <4>1 DEF OpenOther, TypeOK
    <3> QED
      BY <2>6, <3>1, <3>2 DEF OpenOther
  <2>7. ASSUME SkipBlank PROVE TypeOK'
    <3>1. Tail(todo) \in Seq(Names \cup {Blank})
      BY <1>3, <2>7, TailSet DEF SkipBlank, TypeOK
    <3>2. todo' = Tail(todo) /\ UNCHANGED <<open, files, listed, found, pc, pending, result, erred>>
      BY <2>7 DEF SkipBlank
    <3> QED
      BY <1>3, <3>1, <3>2 DEF TypeOK
  <2>8. ASSUME DatabaseOpen \/ BeginClose PROVE TypeOK'
    BY <1>3, <2>8 DEF DatabaseOpen, BeginClose, Tables, TypeOK
  <2>9. ASSUME ForgetDatabase \/ ForgetOther PROVE TypeOK'
    <3>1. CASE ForgetDatabase
      <4>1. files' \in [AllNames -> [Parts -> Handles]]
        BY <1>1, <1>3, <3>1 DEF ForgetDatabase, TypeOK
      <4> QED
        BY <1>1, <1>3, <3>1, <4>1 DEF ForgetDatabase, TypeOK
    <3>2. CASE ForgetOther
      <4>1. files' \in [AllNames -> [Parts -> Handles]]
        BY <1>1, <1>3, <3>2 DEF ForgetOther, TypeOK
      <4> QED
        BY <1>3, <3>2, <4>1 DEF ForgetOther, TypeOK
    <3> QED
      BY <2>9, <3>1, <3>2
  <2>10. ASSUME NEW failing, NEW name \in AllNames, CloseFile(name, failing)
         PROVE  /\ open' \in [Numbers -> {None} \cup (AllNames \X Parts)]
                /\ files' \in [AllNames -> [Parts -> Handles]]
    <3>1. open' \in [Numbers -> {None} \cup (AllNames \X Parts)]
      BY <1>3, <2>10 DEF CloseFile, TypeOK
    <3>2. \A part \in Parts : /\ files[name][part] \in Handles
                               /\ [files[name][part] EXCEPT !.closed = TRUE] \in Handles
      BY <1>3, HandleCloses DEF TypeOK
    <3>3. [part \in Parts |-> IF part \in ClosedParts(name, failing)
                              THEN [files[name][part] EXCEPT !.closed = TRUE]
                              ELSE files[name][part]] \in [Parts -> Handles]
      BY <3>2
    <3> QED
      BY <1>3, <2>10, <3>1, <3>3 DEF CloseFile, TypeOK
  <2>11. ASSUME NEW failing, NEW name \in Names, CloseTable(name, failing) \/ CloseNext(name, failing)
         PROVE  TypeOK'
    <3>1. name \in AllNames /\ CloseFile(name, failing)
      BY <2>11 DEF CloseTable, CloseNext, AllNames
    <3> QED
      BY <1>3, <2>10, <2>11, <3>1 DEF CloseTable, CloseNext, TypeOK
  <2>12. ASSUME NEW failing, CloseContainer(failing) \/ CloseOther(failing)
         PROVE  TypeOK'
    <3>1. Container \in AllNames /\ Other \in AllNames
      BY NamesApart
    <3>2. CloseFile(Container, failing) \/ CloseFile(Other, failing)
      BY <2>12 DEF CloseContainer, CloseOther
    <3> QED
      BY <1>3, <2>10, <2>12, <3>1, <3>2 DEF CloseContainer, CloseOther, TypeOK
  <2>13. CASE UNCHANGED vars
    BY <1>3, <2>13 DEF vars, TypeOK
  <2> QED
    BY <1>3, <2>2, <2>3, <2>4, <2>5, <2>6, <2>7, <2>8, <2>9, <2>11, <2>12, <2>13 DEF Next
<1> QED
  BY <1>2, <1>3, PTL DEF Spec

\* On UnixIO, closing a table by itself and again with the Database never closes a
\* handle that another table got meanwhile.
THEOREM HandlesStayOwn == ASSUME RemembersClose PROVE Spec => []HandlesBelong
<1>1. HandleInv => HandlesBelong
  BY DEF HandleInv, HandlesSound
<1> QED
  BY <1>1, HandlesAreSound, PTL

\* OpenDatabase gives a client all tables that Search found in the container, each
\* with all of its files, or an error.
THEOREM AllTablesOpen == ASSUME RemembersClose PROVE Spec => []DatabaseComplete
<1>1. HandleInv => DatabaseComplete
  <2>1. ASSUME HandleInv, pc = "open", NEW name \in Names \cup {Container}
        PROVE  HeldParts(name) = IF name = Container \/ name \in ToSet(found)
                                 THEN ToSet(PartsOf(name)) ELSE {}
    <3>1. name \in DatabaseNames /\ ToSet(todo) = {}
      BY <2>1 DEF DatabaseNames, HandleInv, DatabaseLoads, ToSet
    <3> QED
      BY <2>1, <3>1 DEF HandleInv, DatabaseLoads
  <2> QED
    BY <2>1 DEF DatabaseComplete, HeldParts
<1> QED
  BY <1>1, HandlesAreSound, PTL

\* When Database.Close reports success no handle of the Database is open.
THEOREM CloseReportsTheTruth == ASSUME RemembersClose PROVE Spec => ClosedMeansClosed
<1>1. ASSUME HandleInv, [Next]_vars, result' = "closed", result # "closed",
             NEW name \in Names \cup {Container}, NEW part \in Parts, files'[name][part] # NoHandle
      PROVE  files'[name][part].closed /\ open'[files'[name][part].num] # <<name, part>>
  <2>1. \E failing : CloseContainer(failing)
    BY <1>1 DEF Next, vars, OpenContainer, ContainerFails, SkipBlank, LoadTable, LoadFails,
       DatabaseOpen, CloseTable, BeginClose, CloseNext, CloseContainer, ForgetDatabase, OpenOther,
       CloseOther, ForgetOther
  <2>2. AllClosed(name)' /\ name \in AllNames
    BY <1>1, <2>1, CloseContainerKeepsInv, NamesApart DEF DatabaseNames
  <2>3. ClosedHandlesLeft'
    BY <1>1, StepKeepsInv DEF HandleInv, HandlesSound
  <2> QED
    BY <1>1, <2>2, <2>3 DEF AllClosed, ClosedHandlesLeft
<1>2. HandleInv /\ [Next]_vars =>
        [ result' = "closed" /\ result # "closed" =>
            \A name \in Names \cup {Container}, part \in Parts :
                LET handle == files'[name][part]
                IN  handle # NoHandle =>
                        handle.closed /\ open'[handle.num] # <<name, part>> ]_vars
  BY <1>1
<1> QED
  BY <1>2, HandlesAreSound, PTL DEF Spec, ClosedMeansClosed

-----------------------------------------------------------------------------
(* Nothing leaks silently *)

\* A handle of the process belongs to a File that has not closed it.
Owned(n) ==
    \E part \in Parts : /\ files[open[n][1]][part].num = n
                        /\ ~files[open[n][1]][part].closed
NoLeak == \A n \in Numbers : open[n] # None => Owned(n)

LEMMA OpenOnNames ==
    ASSUME HandleTypes, NEW n \in Numbers, open[n] # None
    PROVE  open[n][1] \in AllNames
BY DEF HandleTypes

\* What a File opens it holds, when it held nothing before.
LEMMA OpeningLeaksNothing ==
    ASSUME HandlesSound, NoLeak, ClosedTogether, NEW name \in AllNames, Opens(name),
           files' = [files EXCEPT ![name] = FileOf(name)],
           \A part \in Parts : files[name][part] = NoHandle
    PROVE  NoLeak' /\ ClosedTogether'
<1>1. /\ \A part \in Parts :
            part \in ToSet(PartsOf(name)) => ~FileOf(name)[part].closed
      /\ \A n \in Numbers :
            \/ open'[n] = open[n]
            \/ \E part \in ToSet(PartsOf(name)) :
                  FileOf(name)[part].num = n /\ open'[n] = <<name, part>>
  BY OpensEffect DEF HandlesSound
<1>2. files'[name] = FileOf(name) /\ \A m \in AllNames \ {name} : files'[m] = files[m]
  BY DEF HandlesSound, HandleTypes
<1>3. ToSet(PartsOf(name)) \subseteq Parts /\ "table" \in ToSet(PartsOf(name)) /\ "table" \in Parts
  BY PartsInOrder DEF Parts
<1>4. ASSUME NEW n \in Numbers, open'[n] # None
      PROVE  \E part \in Parts : /\ files'[open'[n][1]][part].num = n
                                 /\ ~files'[open'[n][1]][part].closed
  <2>1. CASE open'[n] = open[n]
    <3>1. open[n][1] \in AllNames
      BY <1>4, <2>1, OpenOnNames DEF HandlesSound
    <3>2. PICK part \in Parts : /\ files[open[n][1]][part].num = n
                                /\ ~files[open[n][1]][part].closed
      BY <1>4, <2>1 DEF NoLeak, Owned
    <3>3. open[n][1] # name
      BY <3>2 DEF NoHandle
    <3> QED
      BY <1>2, <2>1, <3>1, <3>2, <3>3
  <2>2. CASE open'[n] # open[n]
    <3>1. PICK part \in ToSet(PartsOf(name)) :
              FileOf(name)[part].num = n /\ open'[n] = <<name, part>>
      BY <1>1, <2>2
    <3>2. open'[n][1] = name
      BY <3>1
    <3> QED
      BY <1>1, <1>2, <1>3, <3>1, <3>2
  <2> QED
    BY <2>1, <2>2
<1>5. ClosedTogether'
  <2>1. ASSUME NEW m \in AllNames, files'[m]["table"].closed
        PROVE  \A part \in Parts : files'[m][part].closed
    <3>1. m # name
      BY <1>1, <1>2, <1>3, <2>1
    <3> QED
      BY <1>2, <2>1, <3>1 DEF ClosedTogether, AllClosed
  <2> QED
    BY <2>1 DEF ClosedTogether, AllClosed
<1> QED
  BY <1>4, <1>5 DEF NoLeak, Owned

\* A call of File.Close that reports no error closes both handles.
LEMMA ClosingLeaksNothing ==
    ASSUME HandlesSound, NoLeak, ClosedTogether, NEW name \in AllNames, NEW failing,
           CloseFile(name, failing), Closes(name, failing)
    PROVE  NoLeak' /\ ClosedTogether'
<1>1. /\ \A m \in AllNames \ {name} : files'[m] = files[m]
      /\ \A part \in Parts :
            \/ files'[name][part] = files[name][part]
            \/ open'[files[name][part].num] = None
      /\ \A n \in Numbers : open'[n] \in {open[n], None}
      /\ AllClosed(name)'
  BY CloseEffect
<1>2. ASSUME NEW n \in Numbers, open'[n] # None
      PROVE  \E part \in Parts : /\ files'[open'[n][1]][part].num = n
                                 /\ ~files'[open'[n][1]][part].closed
  <2>1. open'[n] = open[n]
    BY <1>1, <1>2
  <2>2. open[n][1] \in AllNames
    BY <1>2, <2>1, OpenOnNames DEF HandlesSound
  <2>3. PICK part \in Parts : /\ files[open[n][1]][part].num = n
                              /\ ~files[open[n][1]][part].closed
    BY <1>2, <2>1 DEF NoLeak, Owned
  <2>4. files'[open[n][1]][part] = files[open[n][1]][part]
    BY <1>1, <1>2, <2>2, <2>3
  <2> QED
    BY <2>1, <2>3, <2>4
<1>3. ClosedTogether'
  <2>1. ASSUME NEW m \in AllNames, files'[m]["table"].closed
        PROVE  \A part \in Parts : files'[m][part].closed
    <3>1. CASE m = name
      BY <1>1, <3>1 DEF AllClosed
    <3>2. CASE m # name
      BY <1>1, <2>1, <3>2 DEF ClosedTogether, AllClosed
    <3> QED
      BY <3>1, <3>2
  <2> QED
    BY <2>1 DEF ClosedTogether, AllClosed
<1> QED
  BY <1>2, <1>3 DEF NoLeak, Owned

\* A File whose handles are closed can be forgotten.
LEMMA ForgettingLeaksNothing ==
    ASSUME HandlesSound, NoLeak, ClosedTogether, UNCHANGED open,
           \A m \in AllNames : files'[m] = files[m] \/ (files'[m] = NoFile /\ AllClosed(m))
    PROVE  NoLeak' /\ ClosedTogether'
<1>1. ASSUME NEW n \in Numbers, open'[n] # None
      PROVE  \E part \in Parts : /\ files'[open'[n][1]][part].num = n
                                 /\ ~files'[open'[n][1]][part].closed
  <2>1. open[n][1] \in AllNames
    BY <1>1, OpenOnNames DEF HandlesSound
  <2>2. PICK part \in Parts : /\ files[open[n][1]][part].num = n
                              /\ ~files[open[n][1]][part].closed
    BY <1>1 DEF NoLeak, Owned
  <2>3. ~AllClosed(open[n][1])
    BY <2>2 DEF AllClosed
  <2> QED
    BY <2>1, <2>2, <2>3
<1>2. \A part \in Parts : NoFile[part].closed
  BY DEF NoFile, NoHandle
<1>3. ClosedTogether'
  <2>1. ASSUME NEW m \in AllNames, files'[m]["table"].closed
        PROVE  \A part \in Parts : files'[m][part].closed
    BY <1>2, <2>1 DEF ClosedTogether, AllClosed
  <2> QED
    BY <2>1 DEF ClosedTogether, AllClosed
<1> QED
  BY <1>1, <1>3 DEF NoLeak, Owned

LEMMA TailOnce ==
    ASSUME NEW S, NEW s \in Seq(S), s # <<>>, Once(s)
    PROVE  Once(Tail(s)) /\ \A name \in ToSet(Tail(s)) \ {Blank} : name # Head(s)
<1>1. /\ Len(s) \in Nat \ {0} /\ DOMAIN s = 1..Len(s) /\ Head(s) = s[1]
      /\ Tail(s) \in Seq(S) /\ Len(Tail(s)) = Len(s) - 1
      /\ \A i \in 1..Len(Tail(s)) : Tail(s)[i] = s[i + 1]
  BY EmptySeq, LenProperties, HeadTailProperties
<1>2. DOMAIN Tail(s) = 1..Len(s)-1
  BY <1>1, LenProperties
<1>3. \A i \in DOMAIN Tail(s) : /\ i \in Int /\ i + 1 \in DOMAIN s /\ i + 1 # 1
                                /\ Tail(s)[i] = s[i + 1]
  BY <1>1, <1>2
<1>4. 1 \in DOMAIN s
  BY <1>1
<1>5. Once(Tail(s))
  <2>1. ASSUME NEW i \in DOMAIN Tail(s), NEW j \in DOMAIN Tail(s), i # j,
               Tail(s)[i] = Tail(s)[j]
        PROVE  Tail(s)[i] = Blank
    <3>1. i + 1 # j + 1 /\ s[i + 1] = s[j + 1]
      BY <1>3, <2>1
    <3> QED
      BY <1>3, <3>1 DEF Once
  <2> QED
    BY <2>1 DEF Once
<1>6. ASSUME NEW i \in DOMAIN Tail(s), Tail(s)[i] = Head(s) PROVE Tail(s)[i] = Blank
  <2>1. i + 1 \in DOMAIN s /\ i + 1 # 1 /\ s[i + 1] = s[1] /\ Tail(s)[i] = s[i + 1]
    BY <1>1, <1>3, <1>6
  <2> QED
    BY <1>4, <2>1 DEF Once
<1> QED
  BY <1>5, <1>6 DEF ToSet

\* The rows that OpenDatabase has still to open name tables without a File.
LEMMA TodoStaysFresh ==
    ASSUME ListedOnce, HandleInv, TodoFresh, Once(todo), [Next]_vars
    PROVE  TodoFresh' /\ Once(todo)'
<1>1. CASE OpenContainer
  <2>1. /\ pc = "none" /\ listed \in Lists
        /\ files' = [files EXCEPT ![Container] = FileOf(Container)]
        /\ todo' \in Seq(Names \cup {Blank}) /\ (Once(listed) => Once(todo'))
    BY <1>1, SearchFinds DEF OpenContainer, HandleInv, TypeOK
  <2>2. \A name \in ToSet(todo)' \ {Blank} : name \in Names
    BY <2>1, LenProperties, ElementOfSeq DEF ToSet
  <2>3. \A name \in Names : files'[name] = NoFile
    BY <2>1, NamesAssumption DEF HandleInv, DatabaseFresh, DatabaseNames, HandlesSound,
       HandleTypes, AllNames
  <2> QED
    BY <2>1, <2>2, <2>3 DEF ListedOnce, TodoFresh
<1>2. CASE LoadTable \/ SkipBlank
  <2>1. /\ pc = "loading" /\ todo # <<>> /\ todo' = Tail(todo)
        /\ \A name \in AllNames \ {Head(todo)} : files'[name] = files[name]
        /\ todo \in Seq(Names \cup {Blank})
    BY <1>2 DEF LoadTable, SkipBlank, HandleInv, TypeOK
  <2>2. Once(Tail(todo)) /\ \A name \in ToSet(Tail(todo)) \ {Blank} : name # Head(todo)
    BY <2>1, TailOnce
  <2>3. /\ ToSet(Tail(todo)) \subseteq ToSet(todo)
        /\ \A name \in ToSet(Tail(todo)) \ {Blank} : name \in AllNames
    <3>1. Tail(todo) \in Seq(Names \cup {Blank}) /\ ToSet(Tail(todo)) \subseteq ToSet(todo)
      BY <2>1, TailSet
    <3>2. \A name \in ToSet(Tail(todo)) : name \in Names \cup {Blank}
      BY <3>1, LenProperties, ElementOfSeq DEF ToSet
    <3> QED
      BY <3>1, <3>2 DEF AllNames
  <2> QED
    BY <2>1, <2>2, <2>3 DEF TodoFresh
<1>3. CASE OpenOther \/ (\E failing : CloseOther(failing)) \/ ForgetOther
  <2>1. UNCHANGED <<pc, todo>> /\ \A name \in AllNames \ {Other} : files'[name] = files[name]
    <3>1. \A failing : CloseFile(Other, failing) =>
             \A name \in AllNames \ {Other} : files'[name] = files[name]
      BY NamesApart, CloseEffect DEF HandleInv
    <3> QED
      BY <1>3, <3>1 DEF OpenOther, CloseOther, ForgetOther, HandleInv, TypeOK
  <2>2. \A name \in ToSet(todo) \ {Blank} : name \in Names
    BY LenProperties, ElementOfSeq DEF ToSet, HandleInv, TypeOK
  <2>3. Names \subseteq AllNames \ {Other}
    BY NamesAssumption DEF AllNames
  <2> QED
    BY <2>1, <2>2, <2>3 DEF TodoFresh
<1>4. CASE LoadFails
  BY <1>4 DEF LoadFails, TodoFresh, Once
<1>5. ASSUME UNCHANGED todo, pc' # "loading" PROVE TodoFresh' /\ Once(todo)'
  BY <1>5 DEF TodoFresh
<1>6. CASE UNCHANGED vars
  BY <1>6 DEF vars, TodoFresh
<1> QED
  BY <1>1, <1>2, <1>3, <1>4, <1>5, <1>6
     DEF Next, ContainerFails, DatabaseOpen, CloseTable, BeginClose, CloseNext, CloseContainer,
         ForgetDatabase

\* Without an error each step opens, closes or forgets the handles of a File as
\* a whole, or none.
LEMMA StepsWithoutError ==
    ASSUME HandleInv, Orderly, [Next]_vars, ~erred'
    PROVE  /\ ~erred
           /\ \/ \E name \in AllNames :
                    /\ Opens(name) /\ files' = [files EXCEPT ![name] = FileOf(name)]
                    /\ \A part \in Parts : files[name][part] = NoHandle
              \/ \E name \in AllNames : \E failing :
                    CloseFile(name, failing) /\ Closes(name, failing)
              \/ /\ UNCHANGED open
                 /\ \A m \in AllNames :
                       files'[m] = files[m] \/ (files'[m] = NoFile /\ AllClosed(m))
<1> DEFINE Goal == /\ ~erred
                   /\ \/ \E name \in AllNames :
                            /\ Opens(name) /\ files' = [files EXCEPT ![name] = FileOf(name)]
                            /\ \A part \in Parts : files[name][part] = NoHandle
                      \/ \E name \in AllNames : \E failing :
                            CloseFile(name, failing) /\ Closes(name, failing)
                      \/ /\ UNCHANGED open
                         /\ \A m \in AllNames :
                               files'[m] = files[m] \/ (files'[m] = NoFile /\ AllClosed(m))
<1>1. \A part \in Parts : NoFile[part] = NoHandle
  BY DEF NoFile
<1>2. CASE OpenContainer
  BY <1>1, <1>2, NamesApart DEF OpenContainer, HandleInv, DatabaseFresh
<1>3. CASE LoadTable
  <2>1. Head(todo) \in ToSet(todo) \ {Blank} /\ Head(todo) \in AllNames
    BY <1>3, TailSet DEF LoadTable, HandleInv, TypeOK, AllNames
  <2>2. files[Head(todo)] = NoFile
    BY <1>3, <2>1 DEF LoadTable, Orderly, TodoFresh
  <2> QED
    BY <1>1, <1>3, <2>1, <2>2 DEF LoadTable
<1>4. CASE OpenOther
  <2>1. files[Other]["table"] = NoHandle /\ files[Other]["memo"] = NoHandle
    BY <1>4, NamesApart DEF OpenOther, Opened, HandleInv, HandlesSound, HandlesPlaced
  <2> QED
    BY <1>4, <2>1, NamesApart DEF OpenOther, Parts
<1>5. ASSUME NEW failing, NEW name \in Names, CloseTable(name, failing) \/ CloseNext(name, failing)
      PROVE  Goal
  BY <1>5 DEF CloseTable, CloseNext, AllNames
<1>6. ASSUME NEW failing, CloseContainer(failing) \/ CloseOther(failing) PROVE Goal
  BY <1>6, NamesApart DEF CloseContainer, CloseOther
<1>7. CASE ForgetDatabase
  <2>1. /\ pc = "open" /\ result # "none" /\ UNCHANGED <<open, erred>> /\ DatabaseForgotten
    BY <1>7 DEF ForgetDatabase, DatabaseForgotten
  <2>2. result = "closed"
    BY <2>1 DEF Orderly, HandleInv, TypeOK
  <2>3. \A m \in DatabaseNames : AllClosed(m)
    BY <2>1, <2>2 DEF HandleInv, CloseProgress
  <2>4. \A m \in AllNames : m = Other \/ m \in DatabaseNames
    BY NamesApart
  <2>5. \A m \in AllNames : files'[m] = IF m = Other THEN files[m] ELSE NoFile
    BY <2>1 DEF DatabaseForgotten
  <2> QED
    BY <2>1, <2>3, <2>4, <2>5
<1>8. CASE ForgetOther
  <2>1. /\ UNCHANGED <<open, erred>> /\ files' = [files EXCEPT ![Other] = NoFile]
        /\ files[Other]["table"].closed
    BY <1>8 DEF ForgetOther
  <2>2. AllClosed(Other)
    BY <2>1, NamesApart DEF Orderly, ClosedTogether
  <2>3. \A m \in AllNames : files'[m] = IF m = Other THEN NoFile ELSE files[m]
    BY <2>1 DEF HandleInv, TypeOK
  <2> QED
    BY <2>1, <2>2, <2>3
<1>9. CASE SkipBlank \/ DatabaseOpen \/ BeginClose \/ UNCHANGED vars
  BY <1>9 DEF SkipBlank, DatabaseOpen, BeginClose, vars
<1>10. ~ContainerFails /\ ~LoadFails
  BY DEF ContainerFails, LoadFails
<1> QED
  BY <1>2, <1>3, <1>4, <1>5, <1>6, <1>7, <1>8, <1>9, <1>10 DEF Next

LEMMA NothingLeaksInAStep ==
    ASSUME ListedOnce, LeakInv, [Next]_vars PROVE LeakInv'
<1>1. HandleInv' /\ TodoFresh' /\ Once(todo)'
  BY StepKeepsInv, TodoStaysFresh DEF LeakInv, Orderly
<1>2. result' = "error" => erred'
  BY DEF LeakInv, Orderly, Next, vars, OpenContainer, ContainerFails, SkipBlank, LoadTable,
     LoadFails, DatabaseOpen, CloseTable, BeginClose, CloseNext, CloseContainer, ForgetDatabase,
     OpenOther, CloseOther, ForgetOther
<1>3. ASSUME ~erred' PROVE NoLeak' /\ ClosedTogether'
  <2>1. ~erred /\ NoLeak /\ ClosedTogether /\ HandlesSound
    BY <1>3, StepsWithoutError DEF LeakInv, Orderly, NoSilentLeak, NoLeak, Owned, HandleInv
  <2> QED
    BY <1>3, <2>1, StepsWithoutError, OpeningLeaksNothing, ClosingLeaksNothing,
       ForgettingLeaksNothing DEF LeakInv
<1>4. NoSilentLeak'
  BY <1>3 DEF NoSilentLeak, NoLeak, Owned
<1> QED
  BY <1>1, <1>2, <1>3, <1>4 DEF LeakInv, Orderly

\* As long as no call returns an error every handle of the process belongs to a
\* File that somebody holds, when no container lists a table twice.
THEOREM NothingLeaks == ASSUME RemembersClose, ListedOnce PROVE Spec => []NoSilentLeak
<1>1. Init => LeakInv
  <2>1. ASSUME Init PROVE Orderly /\ NoSilentLeak
    <3>1. \A part \in Parts : NoFile[part].closed
      BY DEF NoFile, NoHandle
    <3> QED
      BY <2>1, <3>1
         DEF Init, Orderly, ClosedTogether, AllClosed, TodoFresh, Once, NoSilentLeak
  <2> QED
    BY <2>1, InitIsInv DEF LeakInv
<1>2. LeakInv /\ [Next]_vars => LeakInv'
  BY NothingLeaksInAStep
<1>3. LeakInv => NoSilentLeak
  BY DEF LeakInv
<1> QED
  BY <1>1, <1>2, <1>3, PTL DEF Spec

=============================================================================
