------------------------------- MODULE Buffer -------------------------------
(***************************************************************************)
(* include/hvnetpp/Buffer.h, src/Buffer.cpp: a vector with a reader and a  *)
(* writer index, and room for a header kept in front of the data.          *)
(* Positions are the code's, counted from 0: buf[i] of the code is         *)
(* buf[i + 1] of the sequence.                                             *)
(***************************************************************************)
EXTENDS Integers, Sequences

CONSTANTS CheapPrepend,  \* kCheapPrepend
          InitialSize,   \* kInitialSize
          ExtraSize,     \* sizeof extrabuf in readFd()
          Bytes,
          MaxLen,        \* bytes appended or prepended at a time
          MaxReadable    \* bytes held at a time

ASSUME SizesAssumption == {CheapPrepend, InitialSize, ExtraSize, MaxLen, MaxReadable} \subseteq Nat
ASSUME BytesAssumption == Bytes # {}

VARIABLE b  \* buffer_, readerIndex_, writerIndex_

Zero == CHOOSE x \in Bytes : TRUE

readableBytes(x) == x.w - x.r
writableBytes(x) == Len(x.buf) - x.w
prependableBytes(x) == x.r

\* What the user sees of a buffer.
Contents(x) == SubSeq(x.buf, x.r + 1, x.w)

\* Bytes d copied to position at.
Copied(buf, at, d) ==
    [i \in DOMAIN buf |-> IF i > at /\ i <= at + Len(d) THEN d[i - at] ELSE buf[i]]

Empty == [buf |-> [i \in 1..(CheapPrepend + InitialSize) |-> Zero],
          r |-> CheapPrepend, w |-> CheapPrepend]

-----------------------------------------------------------------------------
(* The operations, as functions from a buffer to a buffer.                  *)

retrieveAll(x) == [x EXCEPT !.r = CheapPrepend, !.w = CheapPrepend]

retrieve(x, len) == IF len < readableBytes(x) THEN [x EXCEPT !.r = @ + len] ELSE retrieveAll(x)

\* The vector must grow; otherwise moving the data to the front is enough.
MustGrow(x, len) == writableBytes(x) + prependableBytes(x) < len + CheapPrepend

Grown(x, len) ==
    [x EXCEPT !.buf = [i \in 1..(x.w + len) |-> IF i <= Len(x.buf) THEN x.buf[i] ELSE Zero]]

\* Mutant: the data is moved over the header's room.
MovedBug(x) ==
    [buf |-> Copied(x.buf, 0, Contents(x)),
     r |-> CheapPrepend, w |-> CheapPrepend + readableBytes(x)]

Moved(x) ==
    [buf |-> Copied(x.buf, CheapPrepend, Contents(x)),
     r |-> CheapPrepend, w |-> CheapPrepend + readableBytes(x)]

makeSpace(x, len) == IF MustGrow(x, len) THEN Grown(x, len) ELSE Moved(x)

ensureWritableBytes(x, len) == IF writableBytes(x) < len THEN makeSpace(x, len) ELSE x

\* beginWrite() filled by the caller, then hasWritten().
Written(x, d) == [x EXCEPT !.buf = Copied(x.buf, x.w, d), !.w = @ + Len(d)]

append(x, d) == Written(ensureWritableBytes(x, Len(d)), d)

prepend(x, d) == [x EXCEPT !.buf = Copied(x.buf, x.r - Len(d), d), !.r = @ - Len(d)]

\* How many bytes readv() may return: the second vector is only used when the
\* buffer has little room itself.
MostRead(x) == writableBytes(x) + (IF writableBytes(x) < ExtraSize THEN ExtraSize ELSE 0)

\* readv() has delivered the bytes d, first to the buffer, the rest to extrabuf.
readFd(x, d) ==
    LET writable == writableBytes(x)
    IN  IF Len(d) <= writable THEN Written(x, d)
        ELSE append(Written(x, SubSeq(d, 1, writable)), SubSeq(d, writable + 1, Len(d)))

-----------------------------------------------------------------------------
Data == UNION {[1..n -> Bytes] : n \in 0..MaxLen}

Room(d) == readableBytes(b) + Len(d) <= MaxReadable

Init == b = Empty

AppendBytes(d) == Room(d) /\ b' = append(b, d)
Prepend(d) == Room(d) /\ Len(d) <= prependableBytes(b) /\ b' = prepend(b, d)
Retrieve(len) == len <= readableBytes(b) /\ b' = retrieve(b, len)
RetrieveAll == b' = retrieveAll(b)
EnsureWritable(len) == b' = ensureWritableBytes(b, len)
ReadFd(d) == Room(d) /\ Len(d) <= MostRead(b) /\ b' = readFd(b, d)

Next ==
    \/ \E d \in Data : AppendBytes(d) \/ Prepend(d) \/ ReadFd(d)
    \/ \E len \in 0..MaxReadable : Retrieve(len)
    \/ \E len \in 0..MaxLen : EnsureWritable(len)
    \/ RetrieveAll

Spec == Init /\ [][Next]_b

-----------------------------------------------------------------------------
(* Properties.                                                             *)

\* The indexes stay inside the vector and in order.
IndexesInOrder == 0 <= b.r /\ b.r <= b.w /\ b.w <= Len(b.buf)

\* makeSpace() moves data only when it lies behind the header's room, and there
\* is room enough afterwards: its assertions, and ensureWritableBytes()'s, also
\* after a prepend() that used the header's room.
SpaceAsserted ==
    \A len \in 0..(MaxLen + CheapPrepend) :
        writableBytes(b) < len =>
            /\ ~MustGrow(b, len) => CheapPrepend < b.r
            /\ writableBytes(makeSpace(b, len)) >= len

\* Whatever happened before, every operation does to the contents what it says:
\* append() and readFd() add at the end, in order and nothing else, prepend() in
\* front, retrieve() takes from the front, and making room changes nothing
\* (makeSpace moving or growing, extrabuf, the reset when all is
\* retrieved).  On the way the indexes stay in order and no assertion fails.
OperationsKeepStream ==
    /\ IndexesInOrder /\ SpaceAsserted
    /\ \A d \in Data :
           /\ Contents(append(b, d)) = Contents(b) \o d
           /\ Len(d) <= MostRead(b) => Contents(readFd(b, d)) = Contents(b) \o d
           /\ Len(d) <= prependableBytes(b) => Contents(prepend(b, d)) = d \o Contents(b)
    /\ \A len \in 0..readableBytes(b) :
           Contents(retrieve(b, len)) = SubSeq(Contents(b), len + 1, readableBytes(b))
    /\ \A len \in 0..MaxLen : Contents(ensureWritableBytes(b, len)) = Contents(b)
=============================================================================
