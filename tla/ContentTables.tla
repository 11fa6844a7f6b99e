--------------------------- MODULE ContentTables ---------------------------
(***************************************************************************)
(* What the content tables (pages, categories, e-mails, UX strings) share: *)
(* a row is never changed in place, it is retired and followed by another. *)
(***************************************************************************)
EXTENDS Naturals

CONSTANTS
    Languages,     \* target languages; the first drafts are in another one
    Texts          \* contents of a row, told apart by their hash

PageStatuses == {"draft", "published", "archived"}
None == 0          \* no row
=============================================================================
