------------------------ MODULE MCMemoryPublication ------------------------
(* A memory with two files over two payloads.                              *)
EXTENDS MemoryPublication

CONSTANTS j1, j2, s1, s2, memoryMd, notesMd, blank, text

MCFiles == {memoryMd, notesMd}
MCData == {blank, text}

\* Both files, blank.
MCInitial == [f \in MCFiles |-> blank]

\* An agent rewrites memory.md, or rewrites it and drops the notes.
MCResults == { [f \in MCFiles |-> IF f = memoryMd THEN text ELSE blank],
               [f \in MCFiles |-> IF f = memoryMd THEN text ELSE Absent] }
=============================================================================
