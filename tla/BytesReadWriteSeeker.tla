------------------------ MODULE BytesReadWriteSeeker ------------------------
(***************************************************************************)
(* The byte sources a table is kept in: BytesReadWriteSeeker, which makes  *)
(* a slice of bytes look like a file, and the *os.File it stands for.      *)
(* Both are values with the same calls; a call returns the source after it *)
(* and whether it succeeded.                                               *)
(*                                                                         *)
(* A BytesReadWriteSeeker keeps its bytes twice: in data, which Write      *)
(* changes, and in the bytes.Reader that Read reads from.                  *)
(***************************************************************************)
EXTENDS Integers, Sequences

CONSTANT Zero   \* the byte 0

Zeros(n) == [i \in 1..n |-> Zero]

\* The bytes after image was written over them at offset at; what lies between
\* the end and a later offset becomes zeros.
Overlay(bytes, at, image) ==
    LET end == at + Len(image)
    IN  [i \in 1..(IF end > Len(bytes) THEN end ELSE Len(bytes)) |->
            IF i \in at+1..end THEN image[i - at]
            ELSE IF i <= Len(bytes) THEN bytes[i] ELSE Zero]

NewBytesReadWriteSeeker(bytes) ==
    [memory |-> TRUE, data |-> bytes, pos |-> 0, reader |-> [data |-> bytes, pos |-> 0]]

\* An *os.File reads what it holds: it needs no reader.
NewFile == [memory |-> FALSE, data |-> <<>>, pos |-> 0, reader |-> <<>>]

\* Seek from the start moves both positions, to any place that is not negative.
Seek(b, offset) ==
    [memory |-> b.memory, data |-> b.data, pos |-> offset,
     reader |-> IF b.memory THEN [data |-> b.reader.data, pos |-> offset] ELSE b.reader]

\* Mutant: the reader goes on reading the slice from before the write.
KeepReader(b, bytes, at) == [b.reader EXCEPT !.pos = at]

NewReader(b, bytes, at) == [data |-> bytes, pos |-> at]

\* A file takes a write at any offset.  The slice is extended by a write that
\* runs over its end and refuses one that starts behind it.
Write(b, image) ==
    LET bytes == Overlay(b.data, b.pos, image)
        after == b.pos + Len(image)
    IN  IF ~b.memory
        THEN [source |-> [memory |-> FALSE, data |-> bytes, pos |-> after, reader |-> b.reader],
              ok |-> TRUE]
        ELSE IF b.pos > Len(b.data)
        THEN [source |-> b, ok |-> FALSE]
        ELSE [source |-> [memory |-> TRUE, data |-> bytes, pos |-> after,
                          reader |-> NewReader(b, bytes, after)],
              ok |-> TRUE]

\* What a Read of n bytes gives after a Seek to offset at: fewer bytes at the
\* end of the source, none behind it.
BytesAt(b, at, n) ==
    LET bytes == IF b.memory THEN b.reader.data ELSE b.data
    IN  SubSeq(bytes, at + 1, IF at + n < Len(bytes) THEN at + n ELSE Len(bytes))
=============================================================================
