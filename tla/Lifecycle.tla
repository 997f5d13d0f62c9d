----------------------------- MODULE Lifecycle -----------------------------
(***************************************************************************)
(* The handles of a database: OpenDatabase opens the container and every   *)
(* table it names, each table up to two files; Database.Close closes them  *)
(* one by one and stops at the first error.  A client may also close one   *)
(* table of the database itself, or open and close a table of its own.     *)
(* OpenTable and Close of one table are single steps: nothing else looks   *)
(* at their handles before they return.                                    *)
(***************************************************************************)
EXTENDS Integers, Sequences, SequencesExt, FiniteSetsExt

CONSTANTS
    Container,   \* the name of the DBC file
    Names,       \* the tables it may list
    Other,       \* a table a client opens by itself
    Blank,       \* an OBJECTNAME of spaces
    Lists,       \* the tables containers list, in the order of their rows
    HasMemo,     \* the names whose header has the memo flag
    MaxHandles,  \* the handles a process may have open
    RemembersClose, \* does a handle know that it was closed?  That of UnixIO, an
                 \* os.File, does; that of WindowsIO is a number and does not
    Faults       \* may opening a file, reading a row and closing a handle fail?

None == <<>>
AllNames == Names \cup {Container, Other}

ASSUME NamesAssumption ==
    /\ Container \notin Names /\ Other \notin Names \cup {Container} /\ Blank \notin AllNames
    /\ HasMemo \subseteq AllNames
ASSUME ListsAssumption ==
    /\ Lists \subseteq Seq(Names \cup {Blank})
    /\ MaxHandles \in Nat /\ RemembersClose \in BOOLEAN /\ Faults \in BOOLEAN

VARIABLES
    open,     \* the process's handles: what file each number is open on
    files,    \* the File of each name, as the client or the Database holds it
    listed,   \* the tables the container lists
    found,    \* history: what Search gave OpenDatabase for each of these rows
    pc,       \* what the Database is doing
    todo,     \* the rows OpenDatabase has still to open
    pending,  \* the tables Database.Close has still to close
    result,   \* what the last call on the Database returned
    erred     \* history: has any call returned an error?

vars == <<open, files, listed, found, pc, todo, pending, result, erred>>

-----------------------------------------------------------------------------
(* Handles *)

Numbers == 1..MaxHandles
Parts == {"table", "memo"}
NoHandle == [num |-> 0, closed |-> TRUE]
Handles == [num : 0..MaxHandles, closed : BOOLEAN]
NoFile == [part \in Parts |-> NoHandle]

Opened(file) == file["table"] # NoHandle
FreeNumbers == {n \in Numbers : open[n] = None}
PartsOf(name) == IF name \in HasMemo THEN <<"table", "memo">> ELSE <<"table">>

\* The number of the k-th file opened from now on: the lowest free ones.
NumberOf(k) ==
    CHOOSE n \in FreeNumbers : Cardinality({m \in FreeNumbers : m <= n}) = k

\* The process's handles after the first k files of a table are opened.
OpenParts(name, k) ==
    [n \in Numbers |->
        IF \E j \in 1..k : n = NumberOf(j)
        THEN <<name, PartsOf(name)[CHOOSE j \in 1..k : n = NumberOf(j)]>>
        ELSE open[n]]

\* Mutant: the memo handle is opened and not kept.
MemoForgotten(name) ==
    [part \in Parts |-> IF part = "table" THEN [num |-> NumberOf(1), closed |-> FALSE] ELSE NoHandle]

FileOf(name) ==
    [part \in Parts |->
        IF \E j \in DOMAIN PartsOf(name) : part = PartsOf(name)[j]
        THEN [num |-> NumberOf(CHOOSE j \in DOMAIN PartsOf(name) : part = PartsOf(name)[j]),
              closed |-> FALSE]
        ELSE NoHandle]

\* OpenTable succeeds: the File has a handle for each of its files.
Opens(name) ==
    /\ Len(PartsOf(name)) <= Cardinality(FreeNumbers)
    /\ open' = OpenParts(name, Len(PartsOf(name)))

\* OpenTable fails, before it opened a file, or behind the k-th: a bad header,
\* version, code page or memo header.  What it opened it leaves open.
OpenFails(name) ==
    \E k \in 0..Len(PartsOf(name)) :
        /\ k <= Cardinality(FreeNumbers)
        /\ Faults \/ (k = Cardinality(FreeNumbers) /\ k < Len(PartsOf(name)))
        /\ open' = OpenParts(name, k)

\* Mutant: a handle of UnixIO is a number, too.
CanCloseNumber(handle) == handle # NoHandle /\ open[handle.num] # None

\* An os.File that was closed refuses to be closed again; a number can be closed
\* whenever it is open, on whatever file.
CanClose(handle) ==
    handle # NoHandle /\ IF RemembersClose THEN ~handle.closed ELSE open[handle.num] # None

\* File.Close when closing part `failing` returns an error: an error at the
\* table file ends it before the memo file.
Succeeds(name, part, failing) ==
    files[name][part] = NoHandle \/ (CanClose(files[name][part]) /\ part # failing)

\* Mutant: the memo file is not closed.
TableFileOnly(name, failing) == {"table"}

Reached(name, failing) ==
    {"table"} \cup (IF Succeeds(name, "table", failing) THEN {"memo"} ELSE {})

ClosedParts(name, failing) ==
    {part \in Reached(name, failing) : CanClose(files[name][part])}

CloseFile(name, failing) ==
    /\ open' = [n \in Numbers |->
                    IF \E part \in ClosedParts(name, failing) : files[name][part].num = n
                    THEN None ELSE open[n]]
    /\ files' = [files EXCEPT ![name] =
                    [part \in Parts |-> IF part \in ClosedParts(name, failing)
                                        THEN [files[name][part] EXCEPT !.closed = TRUE]
                                        ELSE files[name][part]]]

Closes(name, failing) == \A part \in Parts : Succeeds(name, part, failing)
Failing == {"none"} \cup (IF Faults THEN Parts ELSE {})

-----------------------------------------------------------------------------

TypeOK ==
    /\ open \in [Numbers -> {None} \cup (AllNames \X Parts)]
    /\ files \in [AllNames -> [Parts -> Handles]]
    /\ listed \in Lists
    /\ found \in Seq(Names \cup {Blank})
    /\ pc \in {"none", "loading", "open", "closing"}
    /\ todo \in Seq(Names \cup {Blank})
    /\ pending \subseteq Names
    /\ result \in {"none", "closed", "error"}
    /\ erred \in BOOLEAN

Init ==
    /\ open = [n \in Numbers |-> None]
    /\ files = [name \in AllNames |-> NoFile]
    /\ listed \in Lists
    /\ pc = "none"
    /\ found = <<>> /\ todo = <<>> /\ pending = {}
    /\ result = "none" /\ erred = FALSE

-----------------------------------------------------------------------------
(* The Database *)

\* Search passes over every row it cannot read or convert, without an error: what
\* it returns of such a row is nothing, as of a row without a name.
SearchResults ==
    IF Faults THEN {rows \in [DOMAIN listed -> Names \cup {Blank}] :
                        \A i \in DOMAIN listed : rows[i] \in {listed[i], Blank}}
    ELSE {listed}

OpenContainer ==
    /\ pc = "none"
    /\ Opens(Container)
    /\ files' = [files EXCEPT ![Container] = FileOf(Container)]
    /\ pc' = "loading"
    /\ found' \in SearchResults
    /\ todo' = found'
    /\ UNCHANGED <<listed, pending, result, erred>>

ContainerFails ==
    /\ pc = "none"
    /\ OpenFails(Container)
    /\ result' = "error" /\ erred' = TRUE
    /\ UNCHANGED <<files, listed, found, pc, todo, pending>>

SkipBlank ==
    /\ pc = "loading" /\ todo # <<>> /\ Head(todo) = Blank
    /\ todo' = Tail(todo)
    /\ UNCHANGED <<open, files, listed, found, pc, pending, result, erred>>

LoadTable ==
    /\ pc = "loading" /\ todo # <<>> /\ Head(todo) # Blank
    /\ Opens(Head(todo))
    /\ files' = [files EXCEPT ![Head(todo)] = FileOf(Head(todo))]
    /\ todo' = Tail(todo)
    /\ UNCHANGED <<listed, found, pc, pending, result, erred>>

\* A table that does not open ends OpenDatabase: the container and the tables
\* opened before are out of reach, and stay open.
LoadFails ==
    /\ pc = "loading" /\ todo # <<>> /\ Head(todo) # Blank
    /\ OpenFails(Head(todo))
    /\ files' = [name \in AllNames |-> IF name = Other THEN files[name] ELSE NoFile]
    /\ pc' = "none" /\ found' = <<>> /\ todo' = <<>>
    /\ result' = "error" /\ erred' = TRUE
    /\ UNCHANGED <<listed, pending>>

\* Mutant: a table is left out when it is the last one.
LoadedAllButOne == Len(todo) <= 1

LoadedAll == todo = <<>>

DatabaseOpen ==
    /\ pc = "loading" /\ LoadedAll
    /\ pc' = "open"
    /\ result' = "none"
    /\ UNCHANGED <<open, files, listed, found, todo, pending, erred>>

\* Mutant: every open table is taken for one of the Database's.
AllTables == {name \in AllNames : Opened(files[name])}

Tables == {name \in Names : Opened(files[name])}

\* A client closes one table of the Database.
CloseTable(name, failing) ==
    /\ pc = "open" /\ name \in Tables
    /\ CloseFile(name, failing)
    /\ erred' = (erred \/ ~Closes(name, failing))
    /\ UNCHANGED <<listed, found, pc, todo, pending, result>>

BeginClose ==
    /\ pc = "open"
    /\ pc' = "closing"
    /\ pending' = Tables
    /\ UNCHANGED <<open, files, listed, found, todo, result, erred>>

\* One turn of the loop, over the map in any order.
CloseNext(name, failing) ==
    /\ pc = "closing" /\ name \in pending
    /\ CloseFile(name, failing)
    /\ IF Closes(name, failing)
       THEN pending' = pending \ {name} /\ UNCHANGED <<pc, result, erred>>
       ELSE pending' = {} /\ pc' = "open" /\ result' = "error" /\ erred' = TRUE
    /\ UNCHANGED <<listed, found, todo>>

CloseContainer(failing) ==
    /\ pc = "closing" /\ pending = {}
    /\ CloseFile(Container, failing)
    /\ pc' = "open"
    /\ result' = IF Closes(Container, failing) THEN "closed" ELSE "error"
    /\ erred' = (erred \/ ~Closes(Container, failing))
    /\ UNCHANGED <<listed, found, todo, pending>>

\* A client forgets a Database whose Close has returned.
ForgetDatabase ==
    /\ pc = "open" /\ result # "none"
    /\ pc' = "none" /\ found' = <<>>
    /\ files' = [name \in AllNames |-> IF name = Other THEN files[name] ELSE NoFile]
    /\ UNCHANGED <<open, listed, todo, pending, result, erred>>

-----------------------------------------------------------------------------
(* A table of its own *)

OpenOther ==
    /\ ~Opened(files[Other])
    /\ \/ /\ Opens(Other)
          /\ files' = [files EXCEPT ![Other] = FileOf(Other)]
          /\ UNCHANGED erred
       \/ /\ OpenFails(Other)
          /\ erred' = TRUE
          /\ UNCHANGED files
    /\ UNCHANGED <<listed, found, pc, todo, pending, result>>

CloseOther(failing) ==
    /\ Opened(files[Other])
    /\ CloseFile(Other, failing)
    /\ erred' = (erred \/ ~Closes(Other, failing))
    /\ UNCHANGED <<listed, found, pc, todo, pending, result>>

ForgetOther ==
    /\ Opened(files[Other]) /\ files[Other]["table"].closed
    /\ files' = [files EXCEPT ![Other] = NoFile]
    /\ UNCHANGED <<open, listed, found, pc, todo, pending, result, erred>>

Next ==
    \/ OpenContainer \/ ContainerFails \/ SkipBlank \/ LoadTable \/ LoadFails
    \/ DatabaseOpen \/ BeginClose \/ ForgetDatabase
    \/ \E failing \in Failing :
          \/ \E name \in Names : CloseTable(name, failing) \/ CloseNext(name, failing)
          \/ CloseContainer(failing) \/ CloseOther(failing)
    \/ OpenOther \/ ForgetOther

Spec == Init /\ [][Next]_vars

-----------------------------------------------------------------------------
(* Properties *)

\* A handle that its File has not closed is open on the file it was opened for:
\* closing a table twice, once itself and once with the Database, never closes
\* a handle that another table got meanwhile.  This is so because an os.File
\* remembers that it was closed; the handles of WindowsIO do not.
HandlesBelong ==
    \A name \in AllNames, part \in Parts :
        LET handle == files[name][part]
        IN  handle # NoHandle /\ ~handle.closed => open[handle.num] = <<name, part>>

\* While no call has returned an error, every handle of the process belongs to
\* a File that somebody holds: nothing is leaked silently.
NoSilentLeak ==
    ~erred => \A n \in Numbers : open[n] # None =>
        \E part \in Parts : LET handle == files[open[n][1]][part]
                            IN  handle.num = n /\ ~handle.closed

\* Database.Close reports success only when the container, every table and every
\* memo file it holds have been closed, in this call or before.
ClosedMeansClosed ==
    [][ result' = "closed" /\ result # "closed" =>
            \A name \in Names \cup {Container}, part \in Parts :
                LET handle == files'[name][part]
                IN  handle # NoHandle =>
                        handle.closed /\ open'[handle.num] # <<name, part>> ]_vars

\* The Database a client gets has the container and every table whose row Search
\* returned, each with all of its files, and nothing else.
DatabaseComplete ==
    pc = "open" =>
        \A name \in Names \cup {Container} :
            {part \in Parts : files[name][part] # NoHandle} =
                IF name = Container \/ name \in ToSet(found) THEN ToSet(PartsOf(name)) ELSE {}
=============================================================================
