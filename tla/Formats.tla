------------------------------ MODULE Formats ------------------------------
(***************************************************************************)
(* The formats of the library's books, and how the program chooses among   *)
(* those of a book: the source of a conversion                             *)
(* (app/services/calibre_cli.py), and the format for the device            *)
(* (app/handlers.py).                                                      *)
(***************************************************************************)
EXTENDS Integers, Sequences

VARIABLES formats,  \* the formats the library lists for each book, {} if not in it
          files     \* those whose file is in place

\* OTHER stands for the formats that may be uploaded and are no one's choice.
Fmt   == {"EPUB", "AZW3", "MOBI", "PDF", "OTHER"}
NoFmt == "none"

ConvertTargets == {"EPUB", "AZW3", "MOBI"}
SourceOrder    == <<"EPUB", "AZW3", "MOBI", "PDF">>

\* The first entry of `order` that is in `available`.
FirstOf(order, available) ==
  LET hits == {i \in 1..Len(order) : order[i] \in available}
  IN  IF hits = {} THEN NoFmt ELSE order[CHOOSE i \in hits : \A k \in hits : i <= k]

\* _pick_source_format
PickSource(available, t) == FirstOf(SourceOrder, available \ {t})

\* What the device gets for a chosen format: EPUB travels as AZW3.
DeviceFormat(chosen) == IF chosen = "EPUB" THEN "AZW3" ELSE chosen

\* The formats whose header read_mobi_identity understands.
MobiFamily == {"AZW3", "MOBI"}
=============================================================================
