--------------------------- MODULE MCDocumentIndex ---------------------------
(* One document, of any content; two workers may run tasks of it at once.      *)
EXTENDS DocumentIndex
==============================================================================
