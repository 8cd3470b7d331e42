---------------------------- MODULE MCAisReader -----------------------------
(* One source.  A ship's position comes under two tags, with and without a *)
(* stamp, and from a sender of another kind; a static report of two parts  *)
(* comes together with another ship's of the same sequence id, with a part *)
(* under another tag, with a part that no report of two has, or with one   *)
(* of three; a ship sends a name and a callsign (type 24); a buoy, a       *)
(* position that is not available, a short one and one of nobody bring     *)
(* nothing to the store.                                                   *)
EXTENDS AisReader

Report(type, mmsi, bits, total, name, lon) ==
  [type |-> type, mmsi |-> mmsi, bits |-> bits, page |-> 0, total |-> total, key |-> "1-A",
   lon |-> lon, lat |-> 30000, name |-> name, callsign |-> IF name = "" THEN "" ELSE "call"]

Position == Report(1, 1, 168, 1, "", 60000)
Unplaced == Report(1, 1, 168, 1, "", 108600000)
PageA == Report(24, 1, 160, 1, "anna", 0)
PageB == [Report(24, 1, 168, 1, "anna", 0) EXCEPT !.page = 1]
Static1 == Report(5, 1, 424, 2, "anna", 0)
Static2 == Report(5, 2, 424, 2, "bert", 0)
Static3 == Report(5, 2, 424, 3, "cleo", 0)
Buoy == Report(21, 3, 272, 1, "buoy", 60000)
Far == Report(27, 2, 96, 1, "", 600)
Short == Report(18, 2, 162, 1, "", 60000)
Anonymous == Report(1, 0, 168, 1, "", 60000)
MCReports ==
  {Position, Unplaced, PageA, PageB, Static1, Static2, Static3, Buoy, Far, Short, Anonymous}

Line(around, tag, r, p) == [around |-> around, tag |-> tag, report |-> r, part |-> p]
AI(r, p) == Line("", "AI", r, p)
MCTraffic ==
  {{AI(Position, 1), Line("junk", "AI", Position, 1), Line("", "BS", Position, 1),
    Line("junk", "XX", Position, 1)},
   {AI(Static1, 1), AI(Static1, 2), AI(Static2, 1), AI(Static2, 2), AI(Static2, 3)},
   {AI(Static1, 1), AI(Static1, 2), Line("junk", "BS", Static1, 1), AI(Static3, 2)},
   {AI(Position, 1), AI(PageA, 1), AI(PageB, 1), AI(Unplaced, 1)},
   {AI(Far, 1), AI(Buoy, 1), AI(Short, 1), AI(Anonymous, 1), AI(Position, 0)}}
=============================================================================
