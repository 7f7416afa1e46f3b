----------------------------- MODULE MCFileSystem -----------------------------
(* Instances of FileSystem for TLC. *)
EXTENDS FileSystem

\* A name of 17 characters or more and what is left of it after 16 and after 15
\* characters; every other name is short.
Cut16 == [n \in Names |-> IF n = "n17" THEN "n16" ELSE n]
Cut15 == [n \in Names |-> IF n \in {"n17", "n16"} THEN "n15" ELSE n]

\* What "write" cuts off the name becomes text.
Spill == [p \in Names \X Data |-> IF Cut15[p[1]] = p[1] THEN p[2] ELSE "tail"]

TextLength == [d \in Data |-> IF d = "tail" THEN 2 ELSE 1]
===============================================================================
