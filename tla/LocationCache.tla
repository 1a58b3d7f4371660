---------------------------- MODULE LocationCache ----------------------------
(***************************************************************************)
(* location_cache of the ParkingStore: the geometry of the streets, and    *)
(* the failures to find one.  Instants of failure are abstracted to the    *)
(* days left before the next attempt.                                      *)
(***************************************************************************)
EXTENDS Integers

CONSTANTS
    Places,         \* a set of numbers
    EntryOf,        \* of every place: its entry of location_cache
    RetryDays       \* GEOCODE_FAILURE_RETRY_MS

VARIABLES
    geometry,   \* roads, by entry; {} for none
    wait        \* days before the next attempt, by entry

Cache == <<geometry, wait>>

Entries == {EntryOf[p] : p \in Places}

\* locationNeedsGeocode
Needs(p) == geometry[EntryOf[p]] = {} /\ wait[EntryOf[p]] = 0

\* Mutant: the row is replaced, and its geometry with it.
FailedReplacing(p) == /\ geometry' = [geometry EXCEPT ![EntryOf[p]] = {}]
                      /\ wait' = [wait EXCEPT ![EntryOf[p]] = RetryDays]

\* markGeocodeFailed: a geometry that is there stays.
Failed(p) == /\ wait' = [wait EXCEPT ![EntryOf[p]] = RetryDays]
             /\ UNCHANGED geometry

\* saveLocationCache
Saved(p, roads) == /\ geometry' = [geometry EXCEPT ![EntryOf[p]] = roads]
                   /\ wait' = [wait EXCEPT ![EntryOf[p]] = 0]

\* A street that is on the map stays there, although a run that asked about it
\* earlier may fail, or find less, after another has saved it.
StaysOnMap == [][\A e \in Entries : geometry[e] # {} => geometry'[e] # {}]_Cache

=============================================================================
