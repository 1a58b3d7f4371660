---------------------------- MODULE MCGeocoding ----------------------------
(* Instances of Geocoding for TLC.                                         *)
EXTENDS Geocoding

MCPlaces == 1 .. 4

\* Ward Lane occurs with two towns, and OpenStreetMap does not know Old Road.
MCStreets == <<"Ward Street", "Ward Lane", "Ward Lane", "Old Road">>
MCEntries == <<1, 2, 2, 3>>

MCRoads == {"ward street", "ward lane"}
MCPatterns == [s \in {"Ward Street", "Ward Lane", "Old Road"} |->
                 CASE s = "Ward Street" -> "ward street"
                   [] s = "Ward Lane" -> "ward lane"
                   [] OTHER -> "old road"]

\* Without their suffixes the two are the same name.
MCSimilar == MCRoads \X {"Ward Street", "Ward Lane"}

\* Old Road comes before the second Ward Lane when it has one more.
MCRows == <<2, 1, 1, 1>>

MCLimits == [r \in RunNames |-> CASE r = "script" -> 3 [] r = "cron" -> 2 [] OTHER -> 1]

=============================================================================
