--------------------------- MODULE MemoryContents ---------------------------
(***************************************************************************)
(* The contents of a memory directory: markdown files by name.  A content  *)
(* maps each file name to its bytes, or to Absent when the directory has    *)
(* no such file.  memory/store.py identifies a content by the SHA-256 of    *)
(* its names and bytes (memory_content_revision); the hash is taken to be   *)
(* injective, so a revision is the content itself.                          *)
(***************************************************************************)
CONSTANTS
    Files,       \* file names a memory may hold
    Data,        \* payloads of a file
    Absent,      \* what a content maps a missing file to
    DefaultFile, \* memory.md
    DefaultData  \* b"", what a new memory.md holds

Content == [Files -> Data \cup {Absent}]

ASSUME ContentsAssumption ==
    /\ Absent \notin Data
    /\ DefaultFile \in Files
    /\ DefaultData \in Data

Empty == [f \in Files |-> Absent]

\* What _ensure_memory_locked puts into an empty directory.
Blank == [f \in Files |-> IF f = DefaultFile THEN DefaultData ELSE Absent]

\* The names of a content's files.
Present(c) == {f \in Files : c[f] # Absent}

\* The memory as a locked reader leaves it: an empty directory gets memory.md.
Ensured(c) == IF c = Empty THEN Blank ELSE c

\* The files of c whose names are in S, and no other.
Only(c, S) == [f \in Files |-> IF f \in S THEN c[f] ELSE Absent]

\* c with the files of d whose names are in S put over it.
Overlay(c, d, S) == [f \in Files |-> IF f \in S THEN d[f] ELSE c[f]]
=============================================================================
