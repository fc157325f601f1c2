------------------------- MODULE MCEndOfLevelMerge -------------------------
(* Small end-of-level merges for TLC: D is a writer drive, F a merge drive, *)
(* Y the store drive.                                                       *)
EXTENDS EndOfLevelMerge

\* A file on drive d. An LZ4 file of the level takes one byte besides its trailer,
\* however many boards it has, so what is merged from it may take more.
F(d, boards) == [drive |-> d, boards |-> boards, packed |-> 1]
Level(w, b) == [p \in Players |-> IF p = White THEN w ELSE b]
Room(d, f, y) == [x \in {"D", "F", "Y"} |->
                    IF x = "D" THEN d ELSE IF x = "F" THEN f ELSE y]

Drives3 == <<"F", "Y">>

\* Five files need a nested call at a fan-in of two.
Five == <<F("D", {1}), F("D", {2}), F("F", {1}), F("F", {1, 2}), F("Y", {2})>>
Three == <<F("D", {1}), F("F", {2}), F("Y", {1})>>
\* The same board three times.
Same == <<F("D", {1}), F("F", {1}), F("F", {1})>>
Two == <<F("D", {1}), F("D", {1, 2})>>
One == <<F("D", {1, 2})>>
OneStored == <<F("Y", {1, 2})>>
Apart == <<F("D", {1}), F("Y", {2, 3, 4})>>

MCLevels ==
  {Level(Five, One), Level(Three, Two), Level(Same, Same), Level(One, OneStored),
   Level(<<>>, Three)}
MCRooms == {Room(0, 3, 12), Room(2, 4, 12)}
\* No cascade, no common board; the store drive holds most of the level already.
PlainLevels == {Level(Apart, Apart)}
PlainRooms == {Room(0, 0, 4)}
=============================================================================
