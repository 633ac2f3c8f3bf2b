---------------------------------- MODULE MCFleet ----------------------------------
(* Three devices with bands of twenty offsets.  A chunk of nine is searched as it is by
   the first and third and cut to eight by the second, and overflows the counter of
   attempts; chunks of five reach the end of a band. *)
EXTENDS NativeFleet

MCChains == [d \in 0..(Devices - 1) |-> <<3, 2, 1>>[d + 1]]
MCRanges == {[start |-> s, count |-> c] : s \in {1, 4}, c \in {0, 1, 2, 8, 28}}
MCHits == {{}, {3}, {4, 6, 44}, {9, 25}, {2, 8, 17}, {7, 46}, {15, 23, 58}, {20, 30}, {20}}
MCOverlooked == {3, 9, 23}
====================================================================================
