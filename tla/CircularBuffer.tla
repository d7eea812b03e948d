--------------------------- MODULE CircularBuffer ---------------------------
(***************************************************************************)
(* src/CircularBuffer.cpp: the ring's memory.  The constructor maps one    *)
(* file twice, side by side, so that a node that crosses the end of the    *)
(* buffer is contiguous; every system call on the way may fail, and the    *)
(* event loop then runs without the ring.                                  *)
(***************************************************************************)
EXTENDS Integers

CONSTANT BufferSize  \* size_, in pages

ASSUME BufferAssumption == BufferSize \in Nat \ {0}

VARIABLES data_,    \* the buffer is there
          mirrorPc, \* the next system call of createBufferMirror()
          file,     \* the temporary file: is it open, has it a name, its length
          memory    \* what each page of the reserved range shows

mirrorVars == <<data_, mirrorPc, file, memory>>

Pages == 0..(2 * BufferSize - 1)
Unmapped == -2  \* a page of nobody
Reserved == -1  \* anonymous, no access; otherwise the page of the file
AllUnmapped == [p \in Pages |-> Unmapped]
Closed == [open |-> FALSE, named |-> FALSE, length |-> 0]

MirrorInit ==
    /\ data_ = FALSE
    /\ mirrorPc = "mkstemp"
    /\ file = Closed
    /\ memory = AllUnmapped

\* An early return that leaves no buffer.
GiveUp == mirrorPc' = "done" /\ data_' = FALSE

\* close(fd) of a file without a name frees it.
CloseFile == file' = [file EXCEPT !.open = FALSE, !.length = IF file.named THEN @ ELSE 0]

Mkstemp ==
    /\ mirrorPc = "mkstemp"
    /\ \/ /\ file' = [open |-> TRUE, named |-> TRUE, length |-> 0]
          /\ mirrorPc' = "unlink"
          /\ UNCHANGED data_
       \/ GiveUp /\ UNCHANGED file
    /\ UNCHANGED memory

\* If the name cannot be removed the file stays in /tmp.
Unlink ==
    /\ mirrorPc = "unlink"
    /\ \/ file' = [file EXCEPT !.named = FALSE] /\ mirrorPc' = "ftruncate" /\ UNCHANGED data_
       \/ GiveUp /\ CloseFile
    /\ UNCHANGED memory

Ftruncate ==
    /\ mirrorPc = "ftruncate"
    /\ \/ file' = [file EXCEPT !.length = BufferSize] /\ mirrorPc' = "reserve" /\ UNCHANGED data_
       \/ GiveUp /\ CloseFile
    /\ UNCHANGED memory

ReserveRange ==
    /\ mirrorPc = "reserve"
    /\ \/ /\ memory' = [p \in Pages |-> Reserved]
          /\ data_' = TRUE
          /\ mirrorPc' = "first"
          /\ UNCHANGED file
       \/ GiveUp /\ CloseFile /\ UNCHANGED memory

\* mmap(MAP_FIXED | MAP_SHARED) of the whole file at page `at'.
Mapped(at) == [p \in Pages |-> IF p \in at..(at + BufferSize - 1) THEN p - at ELSE memory[p]]

\* Mutant: the half mapped so far is given back, the rest is forgotten.
MapFailsBug == GiveUp /\ CloseFile
               /\ memory' = [p \in Pages |-> IF p < BufferSize THEN Unmapped ELSE memory[p]]

\* munmap() of both halves.
MapFails == GiveUp /\ CloseFile /\ memory' = AllUnmapped

MapFirst ==
    /\ mirrorPc = "first"
    /\ \/ memory' = Mapped(0) /\ mirrorPc' = "second" /\ UNCHANGED <<data_, file>>
       \/ MapFails

\* The mappings outlive the descriptor closed at the end.
MapSecond ==
    /\ mirrorPc = "second"
    /\ \/ memory' = Mapped(BufferSize) /\ CloseFile /\ mirrorPc' = "done" /\ UNCHANGED data_
       \/ MapFails

\* ~CircularBuffer().
DestroyBuffer ==
    /\ mirrorPc = "done"
    /\ memory' = IF data_ THEN AllUnmapped ELSE memory
    /\ mirrorPc' = "destroyed"
    /\ UNCHANGED <<data_, file>>

MirrorNext ==
    \/ Mkstemp \/ Unlink \/ Ftruncate \/ ReserveRange \/ MapFirst \/ MapSecond \/ DestroyBuffer

MirrorSpec == MirrorInit /\ [][MirrorNext]_mirrorVars

-----------------------------------------------------------------------------
(* Properties.                                                             *)

\* Once the constructor is done there is either the whole mirror, each position
\* and the one size_ behind it being the same byte, so that getPointer() may hand
\* out a node across the end, or no buffer at all.  Whichever system call failed,
\* nothing but the buffer outlives the constructor, and nothing the destructor:
\* no page, no open descriptor (createBufferMirror, ~CircularBuffer).
MirrorOrNothing ==
    /\ mirrorPc = "done" /\ data_ =>
           \A p \in 0..(BufferSize - 1) : memory[p] = p /\ memory[p + BufferSize] = p
    /\ mirrorPc \in {"done", "destroyed"} => ~file.open
    /\ mirrorPc = "destroyed" \/ (mirrorPc = "done" /\ ~data_) => memory = AllUnmapped

\* What holds between the system calls: which pages are mapped and whether the
\* file is open follow from the place in createBufferMirror().
MirrorIndInv ==
    /\ mirrorPc \in {"mkstemp", "unlink", "ftruncate", "reserve", "first", "second", "done", "destroyed"}
    /\ data_ \in BOOLEAN
    /\ file \in [open : BOOLEAN, named : BOOLEAN, length : Nat]
    /\ memory \in [Pages -> Int]
    /\ file.open <=> mirrorPc \notin {"mkstemp", "done", "destroyed"}
    /\ mirrorPc \in {"first", "second"} => data_
    /\ mirrorPc = "second" => \A p \in 0..(BufferSize - 1) : memory[p] = p
    /\ mirrorPc \in {"mkstemp", "unlink", "ftruncate", "reserve", "destroyed"} => memory = AllUnmapped
    /\ mirrorPc = "done" /\ ~data_ => memory = AllUnmapped
    /\ mirrorPc = "done" /\ data_ => \A p \in 0..(BufferSize - 1) : memory[p] = p /\ memory[p + BufferSize] = p
=============================================================================
