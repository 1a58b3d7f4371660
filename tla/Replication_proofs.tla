------------------------- MODULE Replication_proofs -------------------------
(***************************************************************************)
(* Theorems about Replication, for any records, days and page sizes, any   *)
(* scripts, and any number of starts and faults.                           *)
(*                                                                         *)
(* What a push has copied is known from its cursor and its offset, in the  *)
(* script and in the checkpoint alike, although the source goes on         *)
(* ingesting and the lists it pages through grow. Records are paged by     *)
(* number, so a new record never moves an old one across the cursor;       *)
(* watermarks are paged by offset, and a new one can move an old one only  *)
(* to a page that is still to come. What an export has written is known    *)
(* from its cursor in the same way, and what a migration has applied from  *)
(* the chunks that it has not: the range of a refresh only slides on, so   *)
(* no refresh lists a new chunk before one that was listed.                *)
(***************************************************************************)
EXTENDS Replication, ParkingStore_proofs

-----------------------------------------------------------------------------
(* What a push has copied                                                  *)

FirstLoop  == {"export", "import", "save", "phase"}
SecondLoop == {"exportMarks", "importMarks", "saveMarks", "finalize", "clear"}

Pushing(pcs) == script.name = "push" /\ script.pc \in pcs

\* The records and watermarks of the source, of the destination, and of the source
\* when the push was begun; a script has a name and a place; the script and the
\* checkpoint of a push have a cursor and an offset.
PushTypes ==
    /\ source.rows \subseteq Records /\ source.marks \subseteq Windows
    /\ dest \in StoreStates
    /\ began \in [rows : SUBSET Records, marks : SUBSET Windows, due : SUBSET Windows]
    /\ {"name", "pc"} \subseteq DOMAIN script
    /\ script.name = "push" =>
           /\ {"cursor", "offset", "page", "next"} \subseteq DOMAIN script
           /\ script.pc \in FirstLoop \cup SecondLoop
           /\ {script.cursor, script.offset, script.next} \subseteq Nat
    /\ \/ pushFile = NoFile
       \/ pushFile \in [phase : {"infringements", "watermarks"}, cursor : Nat, offset : Nat]

\* The records of the windows that are marked are there; what a push is to copy is
\* still at the source, which deletes nothing.
SourceHolds ==
    /\ \A w \in source.marks : OfDays(w[1] .. w[2]) \subseteq source.rows
    /\ began.rows \subseteq source.rows
    /\ began.marks \subseteq source.marks
    /\ began.due \subseteq began.marks
    /\ \A w \in began.due : OfDays(w[1] .. w[2]) \subseteq began.rows

\* All that was there when the push was begun is copied, up to a record or an offset.
RowsUpTo(cursor) == \A r \in began.rows : r <= cursor => r \in dest.rows
MarksUpTo(offset) ==
    \A w \in began.marks : WindowRank(source.marks, w) < offset => w \in dest.marks

RowsCopied  == began.rows \subseteq dest.rows
MarksCopied == began.marks \subseteq dest.marks
NoneMarked  == dest.marks \cap began.due = {}

\* What a push may be resumed from.
FileCovers ==
    /\ pushFile.phase = "infringements" =>
           RowsUpTo(pushFile.cursor) /\ pushFile.offset = 0 /\ NoneMarked
    /\ pushFile.phase = "watermarks" => RowsCopied /\ MarksUpTo(pushFile.offset)

\* In the first loop a page brings the records up to the next cursor, or all that
\* are missing if it is the last; no watermark goes before.
FirstLoopCovers ==
    /\ Pushing(FirstLoop) =>
           /\ NoneMarked
           /\ script.offset = 0
           /\ pushFile.phase # "watermarks"
           /\ RowsUpTo(script.cursor)
    /\ Pushing({"import"}) =>
           /\ script.page \subseteq Records
           /\ script.next = 0 => began.rows \subseteq dest.rows \cup script.page
           /\ script.next # 0 => \A r \in began.rows :
                                     r <= script.next => r \in dest.rows \cup script.page
    /\ Pushing({"save"}) /\ script.next = 0 => RowsCopied
    /\ Pushing({"phase"}) => RowsCopied

\* In the second loop the records are all there, and a page brings the watermarks up
\* to the next offset, whatever the source has marked since.
SecondLoopCovers ==
    /\ Pushing(SecondLoop) =>
           RowsCopied /\ pushFile.phase = "watermarks" /\ MarksUpTo(script.offset)
    /\ Pushing({"importMarks"}) =>
           /\ script.page \subseteq Windows
           /\ script.next = 0 => began.marks \subseteq dest.marks \cup script.page
           /\ script.next # 0 => \A w \in began.marks :
                  WindowRank(source.marks, w) < script.next => w \in dest.marks \cup script.page
    /\ Pushing({"saveMarks"}) /\ script.next = 0 => MarksCopied
    /\ Pushing({"finalize", "clear"}) => MarksCopied

\* Nothing is imported between the end of a push and the removal of its checkpoint.
Finalized == Pushing({"clear"}) => dest.stats = dest.rows

PushInv ==
    PushTypes /\ SourceHolds /\ FileCovers /\ FirstLoopCovers /\ SecondLoopCovers
    /\ Finalized /\ MarksFollowRecords

-----------------------------------------------------------------------------
(* The steps that are not the push's own                                   *)

LEMMA InitHasPushInv ==
    ASSUME Init
    PROVE  PushInv
<1>1. PushTypes
    <2>1. EmptyStore \in StoreStates
        BY StoreAssumption, FS_CardinalityType DEF EmptyStore, StoreStates, NoCount, CountCap
    <2>2. source.rows \subseteq Records /\ source.marks \subseteq Windows
        BY ReplicationAssumption
        DEF Init, EmptyStore, OfDays, DayWindow, Windows, Days
    <2> QED
        BY <2>1, <2>2 DEF Init, PushTypes, Idle
<1>2. SourceHolds
    <2>1. ASSUME NEW w \in source.marks
          PROVE  OfDays(w[1] .. w[2]) \subseteq source.rows
        <3>1. PICK d \in Ingested0 : w = <<d, d>>
            BY DEF Init, EmptyStore, DayWindow
        <3>2. d \in Int /\ d .. d = {d}
            BY <3>1, ReplicationAssumption DEF Days
        <3> QED
            BY <3>1, <3>2 DEF Init, EmptyStore, OfDays
    <2> QED
        BY <2>1 DEF Init, SourceHolds
<1>3. FileCovers /\ MarksFollowRecords
    BY DEF Init, FileCovers, MarksFollowRecords, NoFile
<1>4. FirstLoopCovers /\ SecondLoopCovers /\ Finalized
    BY DEF Init, FirstLoopCovers, SecondLoopCovers, Finalized, Pushing, Idle
<1> QED
    BY <1>1, <1>2, <1>3, <1>4 DEF PushInv

\* What is copied stays copied, as long as neither the source nor the destination
\* changes.
LEMMA Unmoved ==
    ASSUME PushInv, UNCHANGED <<source, dest, began>>
    PROVE  /\ SourceHolds' /\ MarksFollowRecords'
           /\ NoneMarked' = NoneMarked /\ RowsCopied' = RowsCopied
           /\ MarksCopied' = MarksCopied
           /\ \A n : RowsUpTo(n)' = RowsUpTo(n) /\ MarksUpTo(n)' = MarksUpTo(n)
<1>1. SourceHolds'
    BY DEF PushInv, SourceHolds
<1>2. MarksFollowRecords'
    BY DEF PushInv, MarksFollowRecords
<1>3. NoneMarked' = NoneMarked /\ RowsCopied' = RowsCopied /\ MarksCopied' = MarksCopied
    BY DEF NoneMarked, RowsCopied, MarksCopied
<1>4. \A n : RowsUpTo(n)' = RowsUpTo(n) /\ MarksUpTo(n)' = MarksUpTo(n)
    BY DEF RowsUpTo, MarksUpTo
<1> QED
    BY <1>1, <1>2, <1>3, <1>4

\* A step of another script, and the end of a script, which may tear its checkpoint.
LEMMA OtherScriptStep ==
    ASSUME PushInv, UNCHANGED <<source, dest, began>>,
           pushFile' = pushFile \/ pushFile' = NoFile,
           {"name", "pc"} \subseteq DOMAIN script', script'.name # "push"
    PROVE  PushInv'
<1> USE DEF PushInv
<1>1. PushTypes'
    BY DEF PushTypes
<1>2. FileCovers'
    <2>1. CASE pushFile' = pushFile
        BY <2>1, Unmoved DEF FileCovers
    <2>2. CASE pushFile' = NoFile
        BY <2>2 DEF FileCovers, NoFile
    <2> QED
        BY <2>1, <2>2
<1>3. FirstLoopCovers' /\ SecondLoopCovers' /\ Finalized'
    BY DEF FirstLoopCovers, SecondLoopCovers, Finalized, Pushing
<1> QED
    BY <1>1, <1>2, <1>3, Unmoved

\* A step that has nothing to do with a push.
LEMMA UnrelatedStep ==
    ASSUME PushInv, UNCHANGED <<source, dest, began, pushFile, script>>
    PROVE  PushInv'
<1> USE DEF PushInv
<1>1. PushTypes' /\ Finalized'
    BY DEF PushTypes, Finalized, Pushing
<1>2. FileCovers'
    BY Unmoved DEF FileCovers
<1>3. FirstLoopCovers'
    <2>1. \A pcs : Pushing(pcs)' = Pushing(pcs)
        BY DEF Pushing
    <2> QED
        BY <2>1, Unmoved DEF FirstLoopCovers
<1>4. SecondLoopCovers'
    <2>1. \A pcs : Pushing(pcs)' = Pushing(pcs)
        BY DEF Pushing
    <2> QED
        BY <2>1, Unmoved DEF SecondLoopCovers
<1> QED
    BY <1>1, <1>2, <1>3, <1>4, Unmoved

\* The source ingests a day: nothing it had is lost, and the watermark that is new
\* moves the others to later offsets only.
LEMMA SourceIngestsStep ==
    ASSUME PushInv, NEW d \in Days, SourceIngests(d)
    PROVE  PushInv'
<1> USE DEF PushInv
<1>1. /\ source'.rows = source.rows \cup OfDays({d})
      /\ source'.marks = source.marks \cup {<<d, d>>}
      /\ UNCHANGED <<dest, began, pushFile, script>>
    BY DEF SourceIngests, Watermarked, Upserted, DayWindow, PushTypes
<1>2. PushTypes' /\ Finalized'
    <2>1. <<d, d>> \in Windows /\ OfDays({d}) \subseteq Records
        BY DEF Windows, Days, OfDays
    <2> QED
        BY <1>1, <2>1 DEF PushTypes, Finalized, Pushing
<1>3. SourceHolds'
    <2>1. d .. d = {d}
        BY DEF Days
    <2>2. ASSUME NEW w \in source'.marks
          PROVE  OfDays(w[1] .. w[2]) \subseteq source'.rows
        <3>1. CASE w \in source.marks
            BY <1>1, <3>1 DEF SourceHolds
        <3>2. CASE w = <<d, d>>
            BY <1>1, <2>1, <3>2
        <3> QED
            BY <1>1, <2>2, <3>1, <3>2
    <2>3. began.rows \subseteq source'.rows /\ began.marks \subseteq source'.marks
        BY <1>1 DEF SourceHolds
    <2> QED
        BY <1>1, <2>2, <2>3 DEF SourceHolds
<1>4. ASSUME NEW n \in Nat, MarksUpTo(n)
      PROVE  MarksUpTo(n)'
    <2>1. source.marks \subseteq source'.marks /\ source'.marks \subseteq Windows
        BY <1>1, <1>2 DEF PushTypes
    <2>2. \A w \in began.marks : /\ WindowRank(source.marks, w) <= WindowRank(source'.marks, w)
                                 /\ WindowRank(source.marks, w) \in Nat
                                 /\ WindowRank(source'.marks, w) \in Nat
        BY <2>1, RanksGrow, Ranks DEF PushTypes
    <2>3. ASSUME NEW w \in began.marks, WindowRank(source'.marks, w) < n
          PROVE  w \in dest.marks
        BY <2>2, <2>3, <1>4 DEF MarksUpTo
    <2> QED
        BY <1>1, <2>3 DEF MarksUpTo
<1>5. /\ NoneMarked' = NoneMarked /\ RowsCopied' = RowsCopied /\ MarksCopied' = MarksCopied
      /\ \A n : RowsUpTo(n)' = RowsUpTo(n)
      /\ \A pcs : Pushing(pcs)' = Pushing(pcs)
    BY <1>1 DEF NoneMarked, RowsCopied, MarksCopied, RowsUpTo, Pushing
<1>6. FileCovers'
    <2>1. pushFile.phase = "watermarks" => pushFile.offset \in Nat
        BY DEF PushTypes, NoFile
    <2> QED
        BY <1>1, <1>4, <1>5, <2>1 DEF FileCovers
<1>7. FirstLoopCovers'
    BY <1>1, <1>5 DEF FirstLoopCovers
<1>8. SecondLoopCovers'
    <2>1. Pushing(SecondLoop)' =>
              RowsCopied' /\ pushFile'.phase = "watermarks" /\ MarksUpTo(script.offset)'
        <3>1. script.name = "push" => script.offset \in Nat
            BY DEF PushTypes
        <3> QED
            BY <1>1, <1>4, <1>5, <3>1 DEF SecondLoopCovers, Pushing
    <2>2. Pushing({"importMarks"})' =>
              /\ script.page \subseteq Windows
              /\ script.next = 0 => began.marks \subseteq dest.marks \cup script.page
              /\ script.next # 0 => \A w \in began.marks :
                     WindowRank(source'.marks, w) < script.next =>
                         w \in dest.marks \cup script.page
        <3>1. script.name = "push" => script.next \in Nat
            BY DEF PushTypes
        <3>2. source.marks \subseteq source'.marks /\ source'.marks \subseteq Windows
            BY <1>1, <1>2 DEF PushTypes
        <3>3. \A w \in began.marks : /\ WindowRank(source.marks, w) <= WindowRank(source'.marks, w)
                                     /\ WindowRank(source.marks, w) \in Nat
                                     /\ WindowRank(source'.marks, w) \in Nat
            BY <3>2, RanksGrow, Ranks DEF PushTypes
        <3>4. SUFFICES ASSUME Pushing({"importMarks"})
                       PROVE  /\ script.page \subseteq Windows
                              /\ script.next = 0 =>
                                     began.marks \subseteq dest.marks \cup script.page
                              /\ script.next # 0 => \A w \in began.marks :
                                     WindowRank(source'.marks, w) < script.next =>
                                         w \in dest.marks \cup script.page
            BY <1>1 DEF Pushing
        <3>5. script.next \in Nat
            BY <3>1, <3>4 DEF Pushing
        <3>6. /\ script.page \subseteq Windows
              /\ script.next = 0 => began.marks \subseteq dest.marks \cup script.page
              /\ script.next # 0 => \A w \in began.marks :
                     WindowRank(source.marks, w) < script.next => w \in dest.marks \cup script.page
            BY <3>4 DEF SecondLoopCovers
        <3>7. ASSUME NEW w \in began.marks, WindowRank(source'.marks, w) < script.next
              PROVE  WindowRank(source.marks, w) < script.next
            BY <3>3, <3>5, <3>7
        <3> QED
            BY <3>6, <3>7
    <2> QED
        BY <1>1, <1>5, <2>1, <2>2 DEF SecondLoopCovers
<1>9. MarksFollowRecords'
    BY <1>1 DEF MarksFollowRecords
<1> QED
    BY <1>2, <1>3, <1>6, <1>7, <1>8, <1>9

-----------------------------------------------------------------------------
(* The steps of the push                                                   *)

\* The destination only gains; a watermark it gains comes after its records.
LEMMA DestGains ==
    ASSUME PushInv, UNCHANGED <<source, began>>,
           dest.rows \subseteq dest'.rows, dest.marks \subseteq dest'.marks,
           RowsCopied \/ dest'.marks = dest.marks
    PROVE  /\ SourceHolds' /\ MarksFollowRecords'
           /\ dest'.marks = dest.marks => NoneMarked' = NoneMarked
           /\ RowsCopied => RowsCopied'
           /\ MarksCopied => MarksCopied'
           /\ \A n : RowsUpTo(n) => RowsUpTo(n)'
           /\ \A n : MarksUpTo(n) => MarksUpTo(n)'
<1>1. SourceHolds'
    BY DEF PushInv, SourceHolds
<1>2. MarksFollowRecords'
    <2>1. CASE RowsCopied
        <3>1. \A w \in began.due : OfDays(w[1] .. w[2]) \subseteq began.rows
            BY DEF PushInv, SourceHolds
        <3>2. began.rows \subseteq dest'.rows
            BY <2>1 DEF RowsCopied
        <3>3. \A w \in began.due : OfDays(w[1] .. w[2]) \subseteq dest'.rows
            BY <3>1, <3>2
        <3> QED
            BY <3>3 DEF MarksFollowRecords
    <2>2. CASE dest'.marks = dest.marks
        <3>1. \A w \in dest.marks \cap began.due : OfDays(w[1] .. w[2]) \subseteq dest.rows
            BY DEF PushInv, MarksFollowRecords
        <3>2. \A w \in dest.marks \cap began.due : OfDays(w[1] .. w[2]) \subseteq dest'.rows
            BY <3>1
        <3> QED
            BY <2>2, <3>2 DEF MarksFollowRecords
    <2> QED
        BY <2>1, <2>2
<1>3. /\ dest'.marks = dest.marks => NoneMarked' = NoneMarked
      /\ RowsCopied => RowsCopied'
      /\ MarksCopied => MarksCopied'
    BY DEF NoneMarked, RowsCopied, MarksCopied
<1>4. /\ \A n : RowsUpTo(n) => RowsUpTo(n)'
      /\ \A n : MarksUpTo(n) => MarksUpTo(n)'
    BY DEF RowsUpTo, MarksUpTo
<1> QED
    BY <1>1, <1>2, <1>3, <1>4

\* What an import leaves, with its count.
LEMMA StoreWrites ==
    ASSUME NEW store \in StoreStates, NEW rs, rs \subseteq Records,
           NEW ws, ws \subseteq Windows
    PROVE  /\ LET imported == ImportStored(store, rs)
              IN  /\ imported \in StoreStates
                  /\ imported.rows = store.rows \cup rs /\ imported.marks = store.marks
           /\ LET marked == ImportedWatermarks(store, ws)
              IN  /\ marked \in StoreStates
                  /\ marked.rows = store.rows /\ marked.marks = store.marks \cup ws
<1> DEFINE up == [store EXCEPT !.rows = @ \cup rs]
           n  == Cardinality(rs)
           current == IF up.count = NoCount THEN 0 ELSE up.count
<1>1. Cardinality(Records) \in Nat /\ n \in Nat
    BY StoreAssumption, PartCounts
<1>2. up \in StoreStates /\ up.rows = store.rows \cup rs /\ up.marks = store.marks
    BY DEF StoreStates
<1>3. /\ Bumped(up, n) \in StoreStates
      /\ Bumped(up, n).rows = up.rows /\ Bumped(up, n).marks = up.marks
    <2>1. current \in 0 .. CountCap /\ CountCap \in Nat
        BY <1>1, <1>2 DEF StoreStates, NoCount, CountCap
    <2>2. CASE n <= 0
        BY <1>2, <2>2 DEF Bumped
    <2>3. CASE ~(n <= 0)
        <3> DEFINE c == IF current + n > CountCap THEN CountCap ELSE current + n
        <3>1. c \in NoCount .. CountCap
            <4> HIDE DEF current, n
            <4> QED
                BY <2>1, <1>1, <2>3 DEF NoCount
        <3>2. Bumped(up, n) = [up EXCEPT !.count = c]
            BY <2>3 DEF Bumped
        <3> HIDE DEF c, up, n, current
        <3> QED
            BY <1>2, <3>1, <3>2 DEF StoreStates
    <2> QED
        BY <2>2, <2>3
<1>4. ImportStored(store, rs) = Bumped(up, n)
    BY DEF ImportStored, Imported, Upserted
<1>5. LET marked == ImportedWatermarks(store, ws)
      IN  /\ marked \in StoreStates
          /\ marked.rows = store.rows /\ marked.marks = store.marks \cup ws
    BY DEF ImportedWatermarks, StoreStates
<1> QED
    BY <1>2, <1>3, <1>4, <1>5

\* What the end of an import leaves, whether or not its rows can be counted anew.
LEMMA FinalWrites ==
    ASSUME NEW store \in StoreStates, NEW final \in FinalizedImport(store)
    PROVE  /\ final \in StoreStates
           /\ final.rows = store.rows /\ final.marks = store.marks
           /\ final.stats = store.rows
<1>1. store.rows \subseteq Records
    BY DEF StoreStates
<1>2. Cardinality(store.rows) \in NoCount .. CountCap
    BY <1>1, StoreAssumption, PartCounts DEF NoCount, CountCap
<1> QED
    BY <1>1, <1>2 DEF FinalizedImport, Recomputed, Recounted, StoreStates

\* A push starts from its checkpoint, or anew.
LEMMA PushStartsStep ==
    ASSUME PushInv, PushStarts
    PROVE  PushInv'
<1> USE DEF PushInv
<1>1. CASE /\ pushFile # NoFile /\ script' = Resumed(pushFile)
           /\ UNCHANGED <<pushFile, began>>
    <2>1. UNCHANGED <<source, dest, began, pushFile>>
        BY <1>1 DEF PushStarts, Elsewhere
    <2>2. pushFile \in [phase : {"infringements", "watermarks"}, cursor : Nat, offset : Nat]
        BY <1>1 DEF PushTypes
    <2>3. /\ script'.name = "push" /\ script'.cursor = pushFile.cursor
          /\ script'.offset = pushFile.offset /\ script'.next = 0
          /\ DOMAIN script' = {"name", "pc", "cursor", "offset", "page", "next"}
          /\ script'.pc = IF pushFile.phase = "watermarks" THEN "exportMarks" ELSE "export"
        BY <1>1 DEF Resumed, PushAt
    <2>4. PushTypes'
        BY <2>1, <2>2, <2>3 DEF PushTypes, FirstLoop, SecondLoop
    <2>5. FileCovers'
        BY <2>1, Unmoved DEF FileCovers
    <2>6. CASE pushFile.phase = "watermarks"
        BY <2>1, <2>3, <2>4, <2>5, <2>6, Unmoved
        DEF FileCovers, FirstLoopCovers, SecondLoopCovers, Finalized, Pushing, FirstLoop,
            SecondLoop
    <2>7. CASE pushFile.phase = "infringements"
        BY <2>1, <2>3, <2>4, <2>5, <2>7, Unmoved
        DEF FileCovers, FirstLoopCovers, SecondLoopCovers, Finalized, Pushing, FirstLoop,
            SecondLoop
    <2> QED
        BY <2>2, <2>6, <2>7
<1>2. CASE /\ script' = PushAt("export", 0, 0) /\ pushFile' = NoFile
           /\ began' = [rows |-> source.rows, marks |-> source.marks,
                        due |-> source.marks \ dest.marks]
    <2>1. UNCHANGED <<source, dest>>
        BY DEF PushStarts, Elsewhere
    <2>2. /\ script'.name = "push" /\ script'.cursor = 0
          /\ script'.offset = 0 /\ script'.next = 0 /\ script'.pc = "export"
          /\ DOMAIN script' = {"name", "pc", "cursor", "offset", "page", "next"}
        BY <1>2 DEF PushAt
    <2>3. PushTypes'
        BY <1>2, <2>1, <2>2 DEF PushTypes, FirstLoop, SecondLoop
    <2>4. SourceHolds' /\ NoneMarked' /\ MarksFollowRecords'
        BY <1>2, <2>1 DEF SourceHolds, NoneMarked, MarksFollowRecords
    <2>5. RowsUpTo(0)'
        <3>1. \A r \in began'.rows : r \in Nat \ {0}
            BY <1>2, StoreAssumption DEF PushTypes
        <3> QED
            BY <3>1 DEF RowsUpTo
    <2> QED
        BY <1>2, <2>2, <2>3, <2>4, <2>5
        DEF FileCovers, FirstLoopCovers, SecondLoopCovers, Finalized, Pushing, FirstLoop,
            SecondLoop, NoFile
<1> QED
    BY <1>1, <1>2 DEF PushStarts

\* A page of records is fetched, or there is none left.
LEMMA PushExportsStep ==
    ASSUME PushInv, PushExports
    PROVE  PushInv'
<1> USE DEF PushInv
<1> DEFINE page == ExportInfringements(source, script.cursor, PageLimit)
<1>1. /\ script.name = "push" /\ script.pc = "export"
      /\ UNCHANGED <<source, dest, began, pushFile>>
      /\ script' = IF page.records = {} THEN [script EXCEPT !.pc = "phase"]
                   ELSE [script EXCEPT !.pc = "import", !.next = page.nextCursor,
                                       !.page = page.records]
    BY DEF PushExports, Elsewhere
<1>2. /\ page.records \subseteq source.rows
      /\ page.nextCursor \in Nat
      /\ page.records = {} => page.nextCursor = 0
      /\ page.nextCursor = 0 =>
             \A r \in source.rows : script.cursor < r => r \in page.records
      /\ page.nextCursor # 0 =>
             \A r \in source.rows :
                 script.cursor < r /\ r <= page.nextCursor => r \in page.records
    <2>1. source.rows \subseteq Records /\ script.cursor \in Nat /\ PageLimit \in Nat \ {0}
        BY <1>1, ReplicationAssumption DEF PushTypes
    <2> QED
        BY <2>1, PageOfRecords
<1>3. /\ NoneMarked /\ script.offset = 0 /\ pushFile.phase # "watermarks"
      /\ \A r \in began.rows : r <= script.cursor => r \in dest.rows
    BY <1>1 DEF FirstLoopCovers, Pushing, FirstLoop, RowsUpTo
<1>4. \A r \in began.rows : r \in source.rows /\ (r <= script.cursor \/ script.cursor < r)
    BY <1>1, StoreAssumption DEF SourceHolds, PushTypes
<1>5. FileCovers'
    BY <1>1, Unmoved DEF FileCovers
<1> HIDE DEF page
<1>6. CASE page.records = {}
    <2>1. /\ script'.name = "push" /\ script'.pc = "phase" /\ script'.offset = script.offset
          /\ script'.cursor = script.cursor /\ script'.next = script.next
          /\ DOMAIN script' = DOMAIN script
        BY <1>1, <1>6 DEF PushTypes
    <2>2. PushTypes'
        BY <1>1, <2>1 DEF PushTypes, FirstLoop, SecondLoop
    <2>3. RowsCopied
        BY <1>2, <1>3, <1>4, <1>6 DEF RowsCopied
    <2>4. RowsUpTo(script.cursor)
        BY <1>3 DEF RowsUpTo
    <2> QED
        BY <1>1, <1>3, <1>5, <2>1, <2>2, <2>3, <2>4, Unmoved
        DEF FirstLoopCovers, SecondLoopCovers, Finalized, Pushing, FirstLoop, SecondLoop
<1>7. CASE page.records # {}
    <2>1. /\ script'.name = "push" /\ script'.pc = "import" /\ script'.offset = script.offset
          /\ script'.cursor = script.cursor /\ script'.next = page.nextCursor
          /\ script'.page = page.records
          /\ DOMAIN script' = DOMAIN script
        BY <1>1, <1>7 DEF PushTypes
    <2>2. PushTypes'
        BY <1>1, <1>2, <2>1 DEF PushTypes, FirstLoop, SecondLoop
    <2>3. page.nextCursor = 0 => began.rows \subseteq dest.rows \cup page.records
        BY <1>2, <1>3, <1>4
    <2>4. page.nextCursor # 0 => \A r \in began.rows :
              r <= page.nextCursor => r \in dest.rows \cup page.records
        BY <1>2, <1>3, <1>4
    <2>5. RowsUpTo(script.cursor)
        BY <1>3 DEF RowsUpTo
    <2>6. page.records \subseteq Records
        BY <1>2 DEF PushTypes
    <2>7. FirstLoopCovers'
        BY <1>1, <1>3, <2>1, <2>3, <2>4, <2>5, <2>6, Unmoved
        DEF FirstLoopCovers, Pushing, FirstLoop
    <2> QED
        BY <1>1, <1>5, <2>1, <2>2, <2>7, Unmoved
        DEF SecondLoopCovers, Finalized, Pushing, FirstLoop, SecondLoop
<1> QED
    BY <1>6, <1>7

\* The end of a push leaves what it has copied, and its checkpoint.
LEMMA PushDies ==
    ASSUME PushTypes', SourceHolds', FileCovers', MarksFollowRecords', script' = Idle
    PROVE  PushInv'
<1>1. script'.name = "none"
    BY DEF Idle
<1> QED
    BY <1>1 DEF PushInv, FirstLoopCovers, SecondLoopCovers, Finalized, Pushing

\* A page of records is imported, once or more.
LEMMA PushImportsStep ==
    ASSUME PushInv, PushImports
    PROVE  PushInv'
<1> USE DEF PushInv
<1>1. /\ script.name = "push" /\ script.pc = "import"
      /\ UNCHANGED <<source, began, pushFile>>
      /\ dest' = ImportStored(dest, script.page)
      /\ \/ script' = [script EXCEPT !.pc = "save", !.cursor = CursorAfter(script)]
         \/ script' = script
         \/ script' = Idle
    BY DEF PushImports, Elsewhere, Dies
<1>2. /\ NoneMarked /\ script.offset = 0 /\ pushFile.phase # "watermarks"
      /\ RowsUpTo(script.cursor)
      /\ script.page \subseteq Records
      /\ script.next = 0 => began.rows \subseteq dest.rows \cup script.page
      /\ script.next # 0 => \A r \in began.rows :
                                r <= script.next => r \in dest.rows \cup script.page
    BY <1>1 DEF FirstLoopCovers, Pushing, FirstLoop
<1>3. /\ dest' \in StoreStates
      /\ dest'.rows = dest.rows \cup script.page /\ dest'.marks = dest.marks
    BY <1>1, <1>2, StoreWrites DEF PushTypes
<1>4. /\ SourceHolds' /\ MarksFollowRecords' /\ NoneMarked'
      /\ RowsCopied => RowsCopied'
      /\ \A n : RowsUpTo(n) => RowsUpTo(n)'
      /\ \A n : MarksUpTo(n) => MarksUpTo(n)'
    BY <1>1, <1>2, <1>3, DestGains
<1>5. FileCovers'
    BY <1>1, <1>4 DEF FileCovers
<1>6. CASE script' = [script EXCEPT !.pc = "save", !.cursor = CursorAfter(script)]
    <2>1. /\ script'.name = "push" /\ script'.pc = "save" /\ script'.offset = script.offset
          /\ script'.cursor = CursorAfter(script) /\ script'.next = script.next
          /\ DOMAIN script' = DOMAIN script
        BY <1>1, <1>6 DEF PushTypes
    <2>2. /\ CursorAfter(script) \in Nat
          /\ script.next = 0 => CursorAfter(script) = script.cursor
          /\ script.next # 0 => CursorAfter(script) = script.next
        BY <1>1 DEF CursorAfter, PushTypes
    <2>3. PushTypes'
        BY <1>1, <1>3, <2>1, <2>2 DEF PushTypes, FirstLoop, SecondLoop
    <2>4. script.next = 0 => RowsCopied'
        BY <1>1, <1>2, <1>3 DEF RowsCopied
    <2>5. script.next # 0 => \A r \in began'.rows : r <= script'.cursor => r \in dest'.rows
        BY <1>1, <1>2, <1>3, <2>1, <2>2
    <2>6. FirstLoopCovers'
        <3>1. RowsUpTo(script.cursor)'
            <4>1. CASE script.next = 0
                <5>1. script'.cursor = script.cursor
                    BY <2>1, <2>2, <4>1
                <5> QED
                    BY <1>2, <1>4, <5>1
            <4>2. CASE script.next # 0
                BY <2>5, <4>2 DEF RowsUpTo
            <4> QED
                BY <4>1, <4>2
        <3> QED
            BY <1>1, <1>2, <1>4, <2>1, <2>4, <3>1 DEF FirstLoopCovers, Pushing, FirstLoop
    <2> QED
        BY <1>4, <1>5, <2>1, <2>3, <2>6
        DEF SecondLoopCovers, Finalized, Pushing, FirstLoop, SecondLoop
<1>7. CASE script' = script
    <2>1. PushTypes'
        BY <1>1, <1>3, <1>7 DEF PushTypes
    <2>2. /\ script.next = 0 => began'.rows \subseteq dest'.rows \cup script'.page
          /\ script.next # 0 => \A r \in began'.rows :
                                    r <= script'.next => r \in dest'.rows \cup script'.page
        BY <1>1, <1>2, <1>3, <1>7
    <2>3. FirstLoopCovers'
        BY <1>1, <1>2, <1>4, <1>7, <2>2 DEF FirstLoopCovers, Pushing, FirstLoop
    <2> QED
        BY <1>1, <1>4, <1>5, <1>7, <2>1, <2>3
        DEF SecondLoopCovers, Finalized, Pushing, FirstLoop, SecondLoop
<1>8. CASE script' = Idle
    <2>1. PushTypes'
        BY <1>1, <1>3, <1>8 DEF PushTypes, Idle
    <2> QED
        BY <1>4, <1>5, <1>8, <2>1, PushDies
<1> QED
    BY <1>1, <1>6, <1>7, <1>8

\* A checkpoint is saved after a page; after the last one the first loop ends.
LEMMA PushSavesStep ==
    ASSUME PushInv, PushSaves
    PROVE  PushInv'
<1> USE DEF PushInv
<1>1. /\ script.name = "push" /\ script.pc = "save"
      /\ UNCHANGED <<source, dest, began>>
      /\ pushFile' = [phase |-> "infringements", cursor |-> script.cursor,
                      offset |-> script.offset]
      /\ script' = [script EXCEPT !.pc = IF script.next = 0 THEN "phase" ELSE "export",
                                  !.page = {}, !.next = 0]
    BY DEF PushSaves, Elsewhere
<1>2. /\ NoneMarked /\ script.offset = 0 /\ RowsUpTo(script.cursor)
      /\ script.next = 0 => RowsCopied
    BY <1>1 DEF FirstLoopCovers, Pushing, FirstLoop
<1>3. /\ script'.name = "push" /\ script'.offset = script.offset
      /\ script'.pc = IF script.next = 0 THEN "phase" ELSE "export"
      /\ script'.cursor = script.cursor /\ script'.next = 0
      /\ DOMAIN script' = DOMAIN script
    BY <1>1 DEF PushTypes
<1>4. PushTypes'
    BY <1>1, <1>3 DEF PushTypes, FirstLoop, SecondLoop
<1>5. FileCovers'
    BY <1>1, <1>2, Unmoved DEF FileCovers
<1>6. FirstLoopCovers'
    <2>1. NoneMarked' /\ RowsUpTo(script.cursor)' /\ pushFile'.phase = "infringements"
        BY <1>1, <1>2, <1>3, Unmoved
    <2>2. CASE script.next = 0
        <3>1. RowsCopied' /\ script'.pc = "phase"
            BY <1>1, <1>2, <1>3, <2>2, Unmoved
        <3> QED
            BY <1>2, <1>3, <2>1, <3>1 DEF FirstLoopCovers, Pushing
    <2>3. CASE script.next # 0
        BY <1>2, <1>3, <2>1, <2>3 DEF FirstLoopCovers, Pushing
    <2> QED
        BY <2>2, <2>3
<1> QED
    BY <1>1, <1>3, <1>4, <1>5, <1>6, Unmoved
    DEF SecondLoopCovers, Finalized, Pushing, FirstLoop, SecondLoop

\* Between the loops the checkpoint says that the records are copied.
LEMMA PushEntersWatermarksStep ==
    ASSUME PushInv, PushEntersWatermarks
    PROVE  PushInv'
<1> USE DEF PushInv
<1>1. /\ script.name = "push" /\ script.pc = "phase"
      /\ UNCHANGED <<source, dest, began>>
      /\ pushFile' = [phase |-> "watermarks", cursor |-> script.cursor, offset |-> 0]
      /\ script' = [script EXCEPT !.pc = "exportMarks"]
    BY DEF PushEntersWatermarks, Elsewhere
<1>2. script.offset = 0 /\ RowsCopied
    BY <1>1 DEF FirstLoopCovers, Pushing, FirstLoop
<1>3. /\ script'.name = "push" /\ script'.offset = 0 /\ script'.pc = "exportMarks"
      /\ script'.cursor = script.cursor /\ script'.next = script.next
      /\ DOMAIN script' = DOMAIN script
    BY <1>1, <1>2 DEF PushTypes
<1>4. PushTypes'
    BY <1>1, <1>3 DEF PushTypes, FirstLoop, SecondLoop
<1>5. MarksUpTo(0)
    <2>1. \A w \in began.marks : WindowRank(source.marks, w) \in Nat
        BY Ranks DEF PushTypes
    <2> QED
        BY <2>1 DEF MarksUpTo
<1>6. FileCovers'
    BY <1>1, <1>2, <1>5, Unmoved DEF FileCovers
<1>7. SecondLoopCovers'
    BY <1>1, <1>2, <1>3, <1>5, Unmoved DEF SecondLoopCovers, Pushing, SecondLoop
<1> QED
    BY <1>1, <1>3, <1>4, <1>6, <1>7, Unmoved
    DEF FirstLoopCovers, Finalized, Pushing, FirstLoop, SecondLoop

\* A page of watermarks is fetched, or there is none left.
LEMMA PushExportsMarksStep ==
    ASSUME PushInv, PushExportsMarks
    PROVE  PushInv'
<1> USE DEF PushInv
<1> DEFINE page == ExportWatermarks(source, script.offset, PageLimit)
<1>1. /\ script.name = "push" /\ script.pc = "exportMarks"
      /\ UNCHANGED <<source, dest, began, pushFile>>
      /\ script' = IF page.watermarks = {} THEN [script EXCEPT !.pc = "finalize"]
                   ELSE [script EXCEPT !.pc = "importMarks", !.page = page.watermarks,
                                       !.next = page.nextOffset]
    BY DEF PushExportsMarks, Elsewhere
<1>2. /\ page.watermarks \subseteq source.marks
      /\ page.nextOffset \in Nat
      /\ page.watermarks = {} =>
             \A w \in source.marks : WindowRank(source.marks, w) < script.offset
      /\ page.nextOffset = 0 =>
             \A w \in source.marks :
                 WindowRank(source.marks, w) < script.offset \/ w \in page.watermarks
      /\ page.nextOffset # 0 =>
             \A w \in source.marks :
                 WindowRank(source.marks, w) < page.nextOffset =>
                     WindowRank(source.marks, w) < script.offset \/ w \in page.watermarks
    <2>1. source.marks \subseteq Windows /\ script.offset \in Nat /\ PageLimit \in Nat \ {0}
        BY <1>1, ReplicationAssumption DEF PushTypes
    <2> QED
        BY <2>1, PageOfMarks
<1>3. /\ RowsCopied /\ pushFile.phase = "watermarks"
      /\ \A w \in began.marks : WindowRank(source.marks, w) < script.offset => w \in dest.marks
    BY <1>1 DEF SecondLoopCovers, Pushing, SecondLoop, MarksUpTo
<1>4. began.marks \subseteq source.marks
    BY DEF SourceHolds
<1>5. MarksUpTo(script.offset)
    BY <1>3 DEF MarksUpTo
<1>6. FileCovers'
    BY <1>1, Unmoved DEF FileCovers
<1> HIDE DEF page
<1>7. CASE page.watermarks = {}
    <2>1. /\ script'.name = "push" /\ script'.pc = "finalize"
          /\ script'.offset = script.offset /\ script'.cursor = script.cursor
          /\ script'.next = script.next /\ DOMAIN script' = DOMAIN script
        BY <1>1, <1>7 DEF PushTypes
    <2>2. PushTypes'
        BY <1>1, <2>1 DEF PushTypes, FirstLoop, SecondLoop
    <2>3. MarksCopied
        BY <1>2, <1>3, <1>4, <1>7 DEF MarksCopied
    <2> QED
        BY <1>1, <1>3, <1>5, <1>6, <2>1, <2>2, <2>3, Unmoved
        DEF FirstLoopCovers, SecondLoopCovers, Finalized, Pushing, FirstLoop, SecondLoop
<1>8. CASE page.watermarks # {}
    <2>1. /\ script'.name = "push" /\ script'.pc = "importMarks"
          /\ script'.offset = script.offset /\ script'.cursor = script.cursor
          /\ script'.next = page.nextOffset /\ script'.page = page.watermarks
          /\ DOMAIN script' = DOMAIN script
        BY <1>1, <1>8 DEF PushTypes
    <2>2. PushTypes'
        BY <1>1, <1>2, <2>1 DEF PushTypes, FirstLoop, SecondLoop
    <2>3. page.nextOffset = 0 => began.marks \subseteq dest.marks \cup page.watermarks
        BY <1>2, <1>3, <1>4
    <2>4. page.nextOffset # 0 => \A w \in began.marks :
              WindowRank(source.marks, w) < page.nextOffset =>
                  w \in dest.marks \cup page.watermarks
        BY <1>2, <1>3, <1>4
    <2>5. page.watermarks \subseteq Windows
        BY <1>2 DEF PushTypes
    <2>6. SecondLoopCovers'
        BY <1>1, <1>3, <1>5, <2>1, <2>3, <2>4, <2>5, Unmoved
        DEF SecondLoopCovers, Pushing, SecondLoop
    <2> QED
        BY <1>1, <1>6, <2>1, <2>2, <2>6, Unmoved
        DEF FirstLoopCovers, Finalized, Pushing, FirstLoop, SecondLoop
<1> QED
    BY <1>7, <1>8

\* A page of watermarks is imported; the records it vouches for are there.
LEMMA PushImportsMarksStep ==
    ASSUME PushInv, PushImportsMarks
    PROVE  PushInv'
<1> USE DEF PushInv
<1>1. /\ script.name = "push" /\ script.pc = "importMarks"
      /\ UNCHANGED <<source, began, pushFile>>
      /\ dest' = ImportedWatermarks(dest, script.page)
      /\ \/ script' = [script EXCEPT !.pc = "saveMarks",
                              !.offset = IF script.next = 0 THEN @ ELSE script.next]
         \/ script' = Idle
    BY DEF PushImportsMarks, Elsewhere, Dies
<1>2. /\ RowsCopied /\ pushFile.phase = "watermarks" /\ MarksUpTo(script.offset)
      /\ script.page \subseteq Windows
      /\ script.next = 0 => began.marks \subseteq dest.marks \cup script.page
      /\ script.next # 0 => \A w \in began.marks :
             WindowRank(source.marks, w) < script.next => w \in dest.marks \cup script.page
    BY <1>1 DEF SecondLoopCovers, Pushing, SecondLoop
<1>3. /\ dest' \in StoreStates
      /\ dest'.rows = dest.rows /\ dest'.marks = dest.marks \cup script.page
    BY <1>1, <1>2, StoreWrites DEF PushTypes
<1>4. /\ SourceHolds' /\ MarksFollowRecords' /\ RowsCopied'
      /\ \A n : MarksUpTo(n) => MarksUpTo(n)'
    BY <1>1, <1>2, <1>3, DestGains
<1>5. FileCovers'
    BY <1>1, <1>2, <1>4 DEF FileCovers
<1>6. CASE script' = [script EXCEPT !.pc = "saveMarks",
                            !.offset = IF script.next = 0 THEN @ ELSE script.next]
    <2>1. /\ script'.name = "push" /\ script'.pc = "saveMarks"
          /\ script'.cursor = script.cursor /\ script'.next = script.next
          /\ script'.offset = IF script.next = 0 THEN script.offset ELSE script.next
          /\ DOMAIN script' = DOMAIN script
        BY <1>1, <1>6 DEF PushTypes
    <2>2. PushTypes'
        BY <1>1, <1>3, <2>1 DEF PushTypes, FirstLoop, SecondLoop
    <2>3. script.next = 0 => MarksCopied'
        BY <1>1, <1>2, <1>3 DEF MarksCopied
    <2>4. MarksUpTo(script.offset)'
        <3>1. CASE script.next = 0
            BY <1>2, <1>4, <2>1, <3>1
        <3>2. CASE script.next # 0
            BY <1>1, <1>2, <1>3, <2>1, <3>2 DEF MarksUpTo
        <3> QED
            BY <3>1, <3>2
    <2>5. SecondLoopCovers'
        BY <1>1, <1>2, <1>4, <2>1, <2>3, <2>4 DEF SecondLoopCovers, Pushing, SecondLoop
    <2> QED
        BY <1>4, <1>5, <2>1, <2>2, <2>5
        DEF FirstLoopCovers, Finalized, Pushing, FirstLoop, SecondLoop
<1>7. CASE script' = Idle
    <2>1. PushTypes'
        BY <1>1, <1>3, <1>7 DEF PushTypes, Idle
    <2> QED
        BY <1>4, <1>5, <1>7, <2>1, PushDies
<1> QED
    BY <1>1, <1>6, <1>7

\* A checkpoint after a page of watermarks.
LEMMA PushSavesMarksStep ==
    ASSUME PushInv, PushSavesMarks
    PROVE  PushInv'
<1> USE DEF PushInv
<1>1. /\ script.name = "push" /\ script.pc = "saveMarks"
      /\ UNCHANGED <<source, dest, began>>
      /\ pushFile' = [phase |-> "watermarks", cursor |-> script.cursor,
                      offset |-> script.offset]
      /\ script' = [script EXCEPT !.pc = IF script.next = 0 THEN "finalize" ELSE "exportMarks",
                                  !.page = {}, !.next = 0]
    BY DEF PushSavesMarks, Elsewhere
<1>2. /\ RowsCopied /\ MarksUpTo(script.offset)
      /\ script.next = 0 => MarksCopied
    BY <1>1 DEF SecondLoopCovers, Pushing, SecondLoop
<1>3. /\ script'.name = "push" /\ script'.offset = script.offset
      /\ script'.pc = IF script.next = 0 THEN "finalize" ELSE "exportMarks"
      /\ script'.cursor = script.cursor /\ script'.next = 0
      /\ DOMAIN script' = DOMAIN script
    BY <1>1 DEF PushTypes
<1>4. PushTypes'
    BY <1>1, <1>3 DEF PushTypes, FirstLoop, SecondLoop
<1>5. FileCovers'
    BY <1>1, <1>2, Unmoved DEF FileCovers
<1>6. SecondLoopCovers'
    <2>1. RowsCopied' /\ MarksUpTo(script.offset)' /\ pushFile'.phase = "watermarks"
        BY <1>1, <1>2, <1>3, Unmoved
    <2>2. CASE script.next = 0
        <3>1. MarksCopied' /\ script'.pc = "finalize"
            BY <1>1, <1>2, <1>3, <2>2, Unmoved
        <3> QED
            BY <1>3, <2>1, <3>1 DEF SecondLoopCovers, Pushing
    <2>3. CASE script.next # 0
        BY <1>3, <2>1, <2>3 DEF SecondLoopCovers, Pushing
    <2> QED
        BY <2>2, <2>3
<1> QED
    BY <1>1, <1>3, <1>4, <1>5, <1>6, Unmoved
    DEF FirstLoopCovers, Finalized, Pushing, FirstLoop, SecondLoop

\* The statistics are made anew.
LEMMA PushFinalizesStep ==
    ASSUME PushInv, PushFinalizes
    PROVE  PushInv'
<1> USE DEF PushInv
<1>1. /\ script.name = "push" /\ script.pc = "finalize"
      /\ UNCHANGED <<source, began, pushFile>>
      /\ dest' \in FinalizedImport(dest)
      /\ script' = [script EXCEPT !.pc = "clear"] \/ script' = Idle
    BY DEF PushFinalizes, Elsewhere, Dies
<1>2. /\ RowsCopied /\ pushFile.phase = "watermarks" /\ MarksUpTo(script.offset)
      /\ MarksCopied
    BY <1>1 DEF SecondLoopCovers, Pushing, SecondLoop
<1>3. /\ dest' \in StoreStates
      /\ dest'.rows = dest.rows /\ dest'.marks = dest.marks
      /\ dest'.stats = dest'.rows
    BY <1>1, FinalWrites DEF PushTypes
<1>4. /\ SourceHolds' /\ MarksFollowRecords' /\ RowsCopied' /\ MarksCopied'
      /\ \A n : MarksUpTo(n) => MarksUpTo(n)'
    BY <1>1, <1>2, <1>3, DestGains
<1>5. FileCovers'
    BY <1>1, <1>2, <1>4 DEF FileCovers
<1>6. CASE script' = [script EXCEPT !.pc = "clear"]
    <2>1. /\ script'.name = "push" /\ script'.pc = "clear" /\ script'.offset = script.offset
          /\ script'.cursor = script.cursor /\ script'.next = script.next
          /\ DOMAIN script' = DOMAIN script
        BY <1>1, <1>6 DEF PushTypes
    <2>2. PushTypes'
        BY <1>1, <1>3, <2>1 DEF PushTypes, FirstLoop, SecondLoop
    <2>3. SecondLoopCovers' /\ Finalized'
        BY <1>1, <1>2, <1>3, <1>4, <2>1 DEF SecondLoopCovers, Finalized, Pushing, SecondLoop
    <2> QED
        BY <1>4, <1>5, <2>1, <2>2, <2>3 DEF FirstLoopCovers, Pushing, FirstLoop
<1>7. CASE script' = Idle
    <2>1. PushTypes'
        BY <1>1, <1>3, <1>7 DEF PushTypes, Idle
    <2> QED
        BY <1>4, <1>5, <1>7, <2>1, PushDies
<1> QED
    BY <1>1, <1>6, <1>7

\* The checkpoint goes.
LEMMA PushClearsStep ==
    ASSUME PushInv, PushClears
    PROVE  PushInv'
<1>1. UNCHANGED <<source, dest, began>> /\ pushFile' = NoFile /\ script' = Idle
    BY DEF PushClears, Dies, Elsewhere
<1>2. {"name", "pc"} \subseteq DOMAIN script' /\ script'.name # "push"
    BY <1>1 DEF Idle
<1> QED
    BY <1>1, <1>2, OtherScriptStep

LEMMA PushStep ==
    ASSUME PushInv, Push
    PROVE  PushInv'
BY PushStartsStep, PushExportsStep, PushImportsStep, PushSavesStep,
   PushEntersWatermarksStep, PushExportsMarksStep, PushImportsMarksStep,
   PushSavesMarksStep, PushFinalizesStep, PushClearsStep DEF Push

-----------------------------------------------------------------------------
(* The other scripts                                                       *)

\* A script goes on under its name, or ends.
LEMMA ExportName ==
    ASSUME PushInv, Export
    PROVE  {"name", "pc"} \subseteq DOMAIN script' /\ script'.name \in {"export", "none"}
<1>1. {"name", "pc"} \subseteq DOMAIN script
    BY DEF PushInv, PushTypes
<1>2. {"name", "pc"} \subseteq DOMAIN script' /\ script'.name \in {"export", "none"}
    <2>1. CASE ExportStarts
        BY <2>1 DEF ExportStarts
    <2>2. CASE ExportPulls
        BY <1>1, <2>2 DEF ExportPulls, Appended
    <2>3. CASE ExportPullsMarks
        BY <1>1, <2>3 DEF ExportPullsMarks
    <2>4. ASSUME NEW f \in -1 .. Cardinality(Records), ExportUploads(f)
          PROVE  {"name", "pc"} \subseteq DOMAIN script' /\ script'.name \in {"export", "none"}
        BY <1>1, <2>4 DEF ExportUploads, Dies, Idle
    <2> QED
        BY <2>1, <2>2, <2>3, <2>4 DEF Export
<1> QED
    BY <1>2

LEMMA MigrateName ==
    ASSUME PushInv, Migrate
    PROVE  {"name", "pc"} \subseteq DOMAIN script' /\ script'.name \in {"migrate", "none"}
<1>1. {"name", "pc"} \subseteq DOMAIN script
    BY DEF PushInv, PushTypes
<1>2. {"name", "pc"} \subseteq DOMAIN script' /\ script'.name \in {"migrate", "none"}
    <2>1. CASE MigrateStarts
        BY <2>1 DEF MigrateStarts, MigrateWith, Idle
    <2>2. CASE MigrateReads
        BY <1>1, <2>2 DEF MigrateReads, Idle
    <2>3. CASE MigrateImports
        <3>1. \/ \E lines, pc : script' = [script EXCEPT !.lines = lines, !.pc = pc]
              \/ script' = Idle
            BY <2>3 DEF MigrateImports, Dies
        <3>2. script.name = "migrate"
            BY <2>3 DEF MigrateImports
        <3>3. ASSUME NEW lines, NEW pc,
                     script' = [script EXCEPT !.lines = lines, !.pc = pc]
              PROVE  {"name", "pc"} \subseteq DOMAIN script' /\ script'.name \in {"migrate", "none"}
            <4>1. DOMAIN script' = DOMAIN script /\ script'.name = script.name
                BY <1>1, <3>3
            <4> QED
                BY <1>1, <3>2, <4>1
        <3>4. CASE script' = Idle
            BY <3>4 DEF Idle
        <3> QED
            BY <3>1, <3>2, <3>3, <3>4
    <2>4. CASE MigrateSaves
        BY <1>1, <2>4 DEF MigrateSaves, Idle
    <2>5. CASE MigrateImportsMarks
        BY <1>1, <2>5 DEF MigrateImportsMarks, Idle
    <2>6. CASE MigrateFinalizes
        BY <2>6 DEF MigrateFinalizes, Dies, Idle
    <2> QED
        BY <2>1, <2>2, <2>3, <2>4, <2>5, <2>6 DEF Migrate
<1> QED
    BY <1>2

LEMMA SyncName ==
    ASSUME PushInv, Sync
    PROVE  {"name", "pc"} \subseteq DOMAIN script' /\ script'.name \in {"sync", "none"}
<1>1. {"name", "pc"} \subseteq DOMAIN script
    BY DEF PushInv, PushTypes
<1>2. {"name", "pc"} \subseteq DOMAIN script' /\ script'.name \in {"sync", "none"}
    <2>1. CASE SyncStarts
        BY <2>1 DEF SyncStarts
    <2>2. CASE SyncExports
        BY <1>1, <2>2 DEF SyncExports
    <2>3. CASE SyncImports
        <3>1. \/ \E pc : script' = [script EXCEPT !.pc = pc, !.page = {}]
              \/ script' = script
              \/ script' = Idle
            BY <2>3 DEF SyncImports, Dies
        <3>2. script.name = "sync"
            BY <2>3 DEF SyncImports
        <3>3. ASSUME NEW pc, script' = [script EXCEPT !.pc = pc, !.page = {}]
              PROVE  {"name", "pc"} \subseteq DOMAIN script' /\ script'.name \in {"sync", "none"}
            <4>1. DOMAIN script' = DOMAIN script /\ script'.name = script.name
                BY <1>1, <3>3
            <4> QED
                BY <1>1, <3>2, <4>1
        <3>4. CASE script' = Idle
            BY <3>4 DEF Idle
        <3> QED
            BY <1>1, <3>1, <3>2, <3>3, <3>4
    <2>4. CASE SyncCopiesMarks
        BY <1>1, <2>4 DEF SyncCopiesMarks
    <2>5. CASE SyncFinalizes
        BY <2>5 DEF SyncFinalizes, Dies, Idle
    <2> QED
        BY <2>1, <2>2, <2>3, <2>4, <2>5 DEF Sync
<1> QED
    BY <1>2

\* They write neither the source nor the destination of a push nor its checkpoint.
LEMMA ExportStep ==
    ASSUME PushInv, Export
    PROVE  PushInv'
<1>1. UNCHANGED <<source, dest, began, pushFile>>
    BY DEF Export, ExportStarts, ExportPulls, ExportPullsMarks, ExportUploads, SeedElsewhere
<1>2. {"name", "pc"} \subseteq DOMAIN script' /\ script'.name # "push"
    BY ExportName
<1> QED
    BY <1>1, <1>2, OtherScriptStep

LEMMA MigrateStep ==
    ASSUME PushInv, Migrate
    PROVE  PushInv'
<1>1. UNCHANGED <<source, dest, began, pushFile>>
    BY DEF Migrate, MigrateStarts, MigrateReads, MigrateImports, MigrateSaves,
           MigrateImportsMarks, MigrateFinalizes, MigrateElsewhere
<1>2. {"name", "pc"} \subseteq DOMAIN script' /\ script'.name # "push"
    BY MigrateName
<1> QED
    BY <1>1, <1>2, OtherScriptStep

LEMMA SyncStep ==
    ASSUME PushInv, Sync
    PROVE  PushInv'
<1>1. UNCHANGED <<source, dest, began, pushFile>>
    BY DEF Sync, SyncStarts, SyncExports, SyncImports, SyncCopiesMarks, SyncFinalizes,
           SyncElsewhere
<1>2. {"name", "pc"} \subseteq DOMAIN script' /\ script'.name # "push"
    BY SyncName
<1> QED
    BY <1>1, <1>2, OtherScriptStep

\* A script that is killed may leave a torn checkpoint, which counts for none.
LEMMA ScriptKilledStep ==
    ASSUME PushInv, ScriptKilled
    PROVE  PushInv'
<1>1. UNCHANGED <<source, dest, began>> /\ (pushFile' = pushFile \/ pushFile' = NoFile)
    BY DEF ScriptKilled
<1>2. {"name", "pc"} \subseteq DOMAIN script' /\ script'.name # "push"
    BY DEF ScriptKilled, Dies, Idle
<1> QED
    BY <1>1, <1>2, OtherScriptStep

\* What the seed refresh leaves alone
LEMMA RefreshKeeps ==
    ASSUME Refresh
    PROVE  UNCHANGED <<source, dest, target, script, pushFile, migrateFile, exports, began>>
BY DEF Refresh, SeedPlans, SeedStores, SeedPublishes, RefreshElsewhere

LEMMA StepKeepsPushInv ==
    ASSUME PushInv, [Next]_vars
    PROVE  PushInv'
<1>1. CASE \E d \in Days : SourceIngests(d)
    BY <1>1, SourceIngestsStep
<1>2. CASE Refresh
    BY <1>2, RefreshKeeps, UnrelatedStep
<1>3. CASE UNCHANGED vars
    BY <1>3, UnrelatedStep DEF vars
<1> QED
    BY <1>1, <1>2, <1>3, ScriptKilledStep, PushStep, ExportStep, MigrateStep, SyncStep
    DEF Next

-----------------------------------------------------------------------------
(* The theorems                                                            *)

\* What a push has copied is known from its cursor and offset, and from those in its
\* checkpoint, at every step.
THEOREM PushInvariant == Spec => []PushInv
<1>1. Init => PushInv
    BY InitHasPushInv
<1>2. PushInv /\ [Next]_vars => PushInv'
    BY StepKeepsPushInv
<1> QED
    BY <1>1, <1>2, PTL DEF Spec

\* A push that reports its end has copied every record and every watermark that the
\* source had when it was begun, and its statistics are those of its rows.
THEOREM PushCopiesAll == Spec => []PushIsComplete
<1>1. PushInv => PushIsComplete
    <2>1. SUFFICES ASSUME PushInv, script.name = "push", script.pc = "clear"
                   PROVE  PushIsComplete
        BY DEF PushIsComplete
    <2>2. RowsCopied /\ MarksCopied /\ dest.stats = dest.rows
        BY <2>1 DEF PushInv, SecondLoopCovers, Finalized, Pushing, SecondLoop
    <2> QED
        BY <2>2 DEF PushIsComplete, RowsCopied, MarksCopied
<1> QED
    BY <1>1, PushInvariant, PTL

\* Of the windows that were due when the push was begun, ingested at the source and
\* not at the destination, none is marked before the records it has.
THEOREM MarksComeAfter == Spec => []MarksFollowRecords
<1>1. PushInv => MarksFollowRecords
    BY DEF PushInv
<1> QED
    BY <1>1, PushInvariant, PTL

-----------------------------------------------------------------------------
(* What an export and a migration keep                                     *)

\* The names of the chunks: those of an export are numbered, those of a refresh have the
\* days of their windows.
ChunkNames == ({"export"} \X Nat) \cup ({"refresh"} \X Windows)

ChunkFiles == [name : ChunkNames, lines : Seq(Records)]

\* The records in the chunks of an export
Held(chunks) == UNION {Range(chunks[i].lines) : i \in DOMAIN chunks}

Apart(chunks) ==
    \A i, j \in DOMAIN chunks :
        i # j => Range(chunks[i].lines) \cap Range(chunks[j].lines) = {}

Numbered(chunks) == \A i \in DOMAIN chunks : chunks[i].name = <<"export", i>>

ExportTypes ==
    /\ {"cursor", "pending", "chunks", "had", "marks", "todo"} \subseteq DOMAIN script
    /\ script.pc \in {"pages", "marks", "upload"}
    /\ script.cursor \in Nat
    /\ script.pending \in Seq(Records)
    /\ script.chunks \in Seq(ChunkFiles) /\ Numbered(script.chunks)
    /\ script.had \subseteq source.rows
    /\ script.marks \subseteq Windows
    /\ script.todo \subseteq DOMAIN script.chunks \cup {0, -1}
    /\ script.pc # "upload" => script.todo = {}

\* Each record up to the cursor that was there when the export began is on one line,
\* of a chunk or of those that wait for one; in the end all are in chunks.
ExportKeeps ==
    /\ Apart(script.chunks)
    /\ script.pc = "pages" =>
           /\ NoRepeats(script.pending)
           /\ Range(script.pending) \cap Held(script.chunks) = {}
           /\ \A r \in Range(script.pending) \cup Held(script.chunks) : r <= script.cursor
           /\ \A r \in script.had :
                  r <= script.cursor => r \in Range(script.pending) \cup Held(script.chunks)
    /\ script.pc # "pages" => script.had \subseteq Held(script.chunks)

ExportInv == script.name = "export" => ExportTypes /\ ExportKeeps

\* A name that may be listed: a refresh lists a chunk when it is there.
Given(n) == n \in ChunkNames /\ (n[1] = "refresh" => HasObject(n))

\* The records of a chunk are in the store, if there is one of that name, but for those
\* that were put into it late.
AppliedTo(rows, objects, put, n) ==
    \A o \in objects : o.name = n => Range(o.lines) \ {r \in Records : <<n, r>> \in put} \subseteq rows
Applied(n) == AppliedTo(target.rows, seed.objects, late, n)

\* The chunks that are no refresh's before the first place of n
Before(names, n) ==
    {names[i] : i \in {i \in DOMAIN names : names[i][1] # "refresh"
                                         /\ \A j \in 1 .. i - 1 : names[j] # n}}

\* A refresh lists one chunk before the other, in a range that ends on this day or later.
GoesBefore(m, n, day) ==
    \E to \in Days :
        /\ day <= to /\ RefreshDays <= to
        /\ \E s, t \in RefreshStarts(to) :
              s < t /\ m = RefreshChunk(s, to) /\ n = RefreshChunk(t, to)

\* A chunk that is before the other in the manifest, or that a refresh to come may list
\* before it. As the range only slides on, a refresh never adds to these.
Precedes(m, n) == m \in Before(seed.manifest, n) \/ GoesBefore(m, n, seed.day)

\* In a manifest the chunks of the last refresh come last, those of all its windows, in
\* their order.
Listed(names, day) ==
    /\ \A j \in DOMAIN names : names[j][1] = "refresh" =>
           /\ day \in Days /\ RefreshDays <= day
           /\ \E t \in RefreshStarts(day) :
                 /\ names[j] = RefreshChunk(t, day)
                 /\ \A s \in RefreshStarts(day) :
                       s < t => \E i \in 1 .. j - 1 : names[i] = RefreshChunk(s, day)
    /\ \A i, j \in DOMAIN names : i < j /\ names[i][1] = "refresh" =>
           /\ names[j][1] = "refresh"
           /\ \E s, t \in RefreshStarts(day) :
                 s < t /\ names[i] = RefreshChunk(s, day) /\ names[j] = RefreshChunk(t, day)

\* A refresh that runs has stored the chunks before the next, and kept none of a refresh.
RefreshTypes ==
    /\ refresh \in [to : Days \cup {0}, next : Nat \ {0}, chunks : Seq(ChunkNames)]
    /\ \A i \in DOMAIN refresh.chunks : refresh.chunks[i][1] # "refresh"
    /\ refresh.to # 0 =>
           /\ RefreshDays <= refresh.to /\ seed.day <= refresh.to
           /\ \A k \in DOMAIN RefreshChunks(refresh.to) :
                  k < refresh.next => HasObject(RefreshChunks(refresh.to)[k])

SeedTypes ==
    /\ DOMAIN seed = {"manifest", "objects", "marks", "version", "day"}
    /\ seed.manifest \in Seq(ChunkNames) /\ \A i \in DOMAIN seed.manifest : Given(seed.manifest[i])
    /\ Listed(seed.manifest, seed.day) /\ seed.day \in Nat
    /\ seed.objects \subseteq ChunkFiles
    /\ \A o, p \in seed.objects : o.name = p.name => o = p
    /\ RefreshTypes
    /\ "rows" \in DOMAIN target
    /\ {seed.version, exports} \subseteq Nat /\ migrated \in Nat \cup {NoExport}
    /\ seed.version <= exports /\ migrated <= exports
    /\ script.name = "export" => migrated < exports

\* The files are those the migration was begun with.
SameExport == migrated = seed.version

\* What a migration may be resumed from: the chunk of the checkpoint and all that precede
\* it are in the store.
CheckpointCovers ==
    migrateFile # NoFile =>
        /\ migrateFile \in [phase : {"chunks"}, last : ChunkNames]
        /\ Given(migrateFile.last)
        /\ SameExport =>
               /\ Applied(migrateFile.last)
               /\ \A m : Precedes(m, migrateFile.last) => Given(m) /\ Applied(m)

MigrationTypes ==
    /\ {"all", "pending", "left", "lines"} \subseteq DOMAIN script
    /\ script.pc \in {"read", "import", "save", "done", "finalize"}
    /\ script.all \in Seq(ChunkNames) /\ \A i \in DOMAIN script.all : Given(script.all[i])
    /\ script.pending \in Seq(ChunkNames)
    /\ script.lines \in Seq(Records)

\* How many chunks of its manifest a migration is done with
DoneChunks == Len(script.all) - Len(script.pending)

\* The chunks that are pending end the manifest that the script read.
PendingEndsManifest ==
    /\ Len(script.pending) <= Len(script.all)
    /\ \A i \in DOMAIN script.pending : script.pending[i] = script.all[DoneChunks + i]
    /\ script.pc \in {"read", "import", "save"} <=> script.pending # <<>>

DoneApplied == \A i \in 1 .. DoneChunks : Applied(script.all[i])

\* No refresh since then has put another before one of them.
OrderKept ==
    \A j \in DOMAIN script.all : \A m :
        Precedes(m, script.all[j]) => \E i \in 1 .. j : script.all[i] = m

\* Of the chunk at hand, what is not in the store is in the lines that are left.
HeadCovered ==
    /\ script.pc = "import" =>
           AppliedTo(target.rows \cup Range(script.lines), seed.objects, late, Head(script.pending))
    /\ script.pc = "save" => Applied(Head(script.pending))

MigrationKeeps ==
    PendingEndsManifest /\ (SameExport => DoneApplied /\ OrderKept /\ HeadCovered)

MigrationInv ==
    SeedTypes /\ CheckpointCovers /\ (script.name = "migrate" => MigrationTypes /\ MigrationKeeps)

-----------------------------------------------------------------------------
(* The export                                                              *)

\* A chunk that is written holds its lines, beside those there were.
LEMMA FlushedHolds ==
    ASSUME NEW chunks \in Seq(ChunkFiles), Numbered(chunks), Apart(chunks),
           NEW lines \in Seq(Records), Range(lines) \cap Held(chunks) = {}
    PROVE  /\ FlushedChunk(chunks, lines) \in Seq(ChunkFiles)
           /\ Numbered(FlushedChunk(chunks, lines)) /\ Apart(FlushedChunk(chunks, lines))
           /\ Held(FlushedChunk(chunks, lines)) = Held(chunks) \cup Range(lines)
<1>1. CASE lines = <<>>
    <2>1. Range(lines) = {}
        BY <1>1 DEF Range
    <2> QED
        BY <1>1, <2>1 DEF FlushedChunk
<1>2. CASE lines # <<>>
    <2> DEFINE n == Len(chunks)
               file == [name |-> <<"export", n + 1>>, lines |-> lines]
               all == Append(chunks, file)
    <2>1. n \in Nat /\ DOMAIN chunks = 1 .. n
        BY LenProperties
    <2>2. file \in ChunkFiles /\ file.lines = lines /\ file.name = <<"export", n + 1>>
        BY <2>1 DEF ChunkFiles, ChunkNames
    <2>3. FlushedChunk(chunks, lines) = all
        BY <1>2 DEF FlushedChunk
    <2> HIDE DEF file
    <2>4. /\ all \in Seq(ChunkFiles) /\ DOMAIN all = 1 .. n + 1
          /\ \A i \in 1 .. n : all[i] = chunks[i]
          /\ all[n + 1] = file
        BY <2>1, <2>2, AppendProperties, LenProperties
    <2> HIDE DEF all, n
    <2>5. \A i \in DOMAIN all : i \in 1 .. n \/ i = n + 1
        BY <2>1, <2>4
    <2>6. Numbered(all)
        BY <2>1, <2>2, <2>4, <2>5 DEF Numbered
    <2>7. \A i \in 1 .. n : Range(chunks[i].lines) \cap Range(lines) = {}
        BY <2>1 DEF Held
    <2>8. Apart(all)
        BY <2>1, <2>2, <2>4, <2>5, <2>7 DEF Apart
    <2>9. Held(all) = Held(chunks) \cup Range(lines)
        <3>1. \A i \in 1 .. n : i \in DOMAIN all
            BY <2>1, <2>4
        <3>2. n + 1 \in DOMAIN all
            BY <2>1, <2>4
        <3> QED
            BY <2>1, <2>2, <2>4, <2>5, <3>1, <3>2 DEF Held
    <2> QED
        BY <2>3, <2>4, <2>6, <2>8, <2>9
<1> QED
    BY <1>1, <1>2

\* The lines of a page: full chunks are written, the rest waits.
LEMMA AppendedKeeps ==
    ASSUME NEW s, {"pending", "chunks"} \subseteq DOMAIN s,
           s.pending \in Seq(Records), NoRepeats(s.pending),
           s.chunks \in Seq(ChunkFiles), Numbered(s.chunks), Apart(s.chunks),
           Range(s.pending) \cap Held(s.chunks) = {},
           NEW records \in Seq(Records), NoRepeats(records),
           Range(records) \cap (Range(s.pending) \cup Held(s.chunks)) = {}
    PROVE  LET t == Appended(s, records)
           IN  /\ \E p, c : t = [s EXCEPT !.pending = p, !.chunks = c]
               /\ t.pending \in Seq(Records) /\ NoRepeats(t.pending)
               /\ t.chunks \in Seq(ChunkFiles) /\ Numbered(t.chunks) /\ Apart(t.chunks)
               /\ Range(t.pending) \cap Held(t.chunks) = {}
               /\ Range(t.pending) \cup Held(t.chunks) =
                      Range(s.pending) \cup Held(s.chunks) \cup Range(records)
<1> DEFINE lines == s.pending \o records
           t == Appended(s, records)
<1>1. /\ lines \in Seq(Records) /\ Len(lines) \in Nat
      /\ Range(lines) = Range(s.pending) \cup Range(records)
      /\ NoRepeats(lines)
    BY JoinedLines
<1>2. CASE Len(lines) < ChunkRecords
    <2>1. t = [s EXCEPT !.pending = lines]
        BY <1>2 DEF Appended
    <2>2. t.pending = lines /\ t.chunks = s.chunks
        BY <2>1
    <2>3. t = [s EXCEPT !.pending = lines, !.chunks = s.chunks]
        BY <2>1
    <2> HIDE DEF t, lines
    <2> QED
        BY <1>1, <2>2, <2>3 DEF t
<1>3. CASE ~(Len(lines) < ChunkRecords)
    <2> DEFINE a == SubSeq(lines, 1, ChunkRecords)
               b == SubSeq(lines, ChunkRecords + 1, Len(lines))
               c == FlushedChunk(s.chunks, a)
    <2>1. t = [s EXCEPT !.chunks = c, !.pending = b]
        BY <1>3 DEF Appended
    <2>2. t.pending = b /\ t.chunks = c /\ t = [s EXCEPT !.pending = b, !.chunks = c]
        BY <2>1
    <2>3. ChunkRecords \in Nat /\ ChunkRecords <= Len(lines)
        BY <1>1, <1>3, ReplicationAssumption
    <2> HIDE DEF lines, t
    <2>4. /\ a \in Seq(Records) /\ b \in Seq(Records)
          /\ Range(lines) = Range(a) \cup Range(b)
          /\ NoRepeats(b) /\ Range(a) \cap Range(b) = {}
        BY <1>1, <2>3, CutLines
    <2> HIDE DEF a, b
    <2>5. Range(a) \cap Held(s.chunks) = {} /\ Range(b) \cap Held(s.chunks) = {}
        BY <1>1, <2>4
    <2>6. /\ c \in Seq(ChunkFiles) /\ Numbered(c) /\ Apart(c)
          /\ Held(c) = Held(s.chunks) \cup Range(a)
        BY <2>4, <2>5, FlushedHolds
    <2> HIDE DEF c
    <2> QED
        BY <1>1, <2>2, <2>4, <2>5, <2>6 DEF t
<1> QED
    BY <1>2, <1>3

\* The script of an export appends the next page to what it has.
LEMMA ExportPullsStep ==
    ASSUME PushInv, ExportInv, ExportPulls
    PROVE  ExportInv'
<1> DEFINE page == ExportInfringements(source, script.cursor, ChunkRecords)
           s == Appended(script, InOrder(page.records))
           all == Range(script.pending) \cup Held(script.chunks)
<1>1. /\ script.name = "export" /\ script.pc = "pages" /\ source' = source
      /\ script' = IF page.nextCursor # 0 THEN [s EXCEPT !.cursor = page.nextCursor]
                   ELSE [s EXCEPT !.pc = "marks", !.pending = <<>>,
                                  !.chunks = FlushedChunk(@, s.pending)]
    BY DEF ExportPulls, SeedElsewhere
<1>2. /\ {"name", "pc"} \subseteq DOMAIN script
      /\ {"cursor", "pending", "chunks", "had", "marks", "todo"} \subseteq DOMAIN script
      /\ script.cursor \in Nat
      /\ script.pending \in Seq(Records)
      /\ script.chunks \in Seq(ChunkFiles) /\ Numbered(script.chunks)
      /\ script.had \subseteq source.rows
      /\ script.marks \subseteq Windows
      /\ script.todo = {}
    BY <1>1 DEF PushInv, PushTypes, ExportInv, ExportTypes
<1>3. /\ Apart(script.chunks)
      /\ NoRepeats(script.pending)
      /\ Range(script.pending) \cap Held(script.chunks) = {}
      /\ \A r \in all : r <= script.cursor
      /\ \A r \in script.had : r <= script.cursor => r \in all
    BY <1>1 DEF ExportInv, ExportKeeps
<1>4. /\ page.records \subseteq source.rows
      /\ \A r \in page.records : script.cursor < r
      /\ page.nextCursor \in Nat
      /\ page.nextCursor # 0 =>
             script.cursor <= page.nextCursor /\ \A r \in page.records : r <= page.nextCursor
      /\ page.nextCursor = 0 => \A r \in source.rows : script.cursor < r => r \in page.records
      /\ page.nextCursor # 0 =>
             \A r \in source.rows :
                 script.cursor < r /\ r <= page.nextCursor => r \in page.records
    BY <1>2, PageOfRecords, ReplicationAssumption DEF PushInv, PushTypes
<1>5. /\ page.records \subseteq Records /\ page.records \subseteq Nat /\ IsFiniteSet(page.records)
      /\ script.had \subseteq Nat
    BY <1>2, <1>4, StoreAssumption, FS_Subset DEF PushInv, PushTypes
<1>6. /\ InOrder(page.records) \in Seq(Records) /\ NoRepeats(InOrder(page.records))
      /\ Range(InOrder(page.records)) = page.records
    BY <1>5, InOrderLists, SeqMonotonic
<1>7. page.records \cap all = {} /\ all \subseteq Nat
    <2>1. all \subseteq Nat
        <3>1. Range(script.pending) \subseteq Records
            BY <1>2, RangeOf
        <3>2. \A i \in DOMAIN script.chunks : Range(script.chunks[i].lines) \subseteq Records
            <4>1. \A i \in DOMAIN script.chunks : script.chunks[i] \in ChunkFiles
                BY <1>2, RangeOf
            <4>2. \A i \in DOMAIN script.chunks : script.chunks[i].lines \in Seq(Records)
                BY <4>1 DEF ChunkFiles
            <4> QED
                BY <4>2, RangeOf
        <3> QED
            BY <3>1, <3>2, StoreAssumption DEF Held
    <2>2. \A r \in page.records : r \notin all
        <3>1. \A r \in Nat : r <= script.cursor => ~(script.cursor < r)
            BY <1>2
        <3> QED
            BY <3>1, <1>3, <1>4, <1>5
    <2> QED
        BY <2>1, <2>2
<1> HIDE DEF page
<1>8. /\ \E p, c : s = [script EXCEPT !.pending = p, !.chunks = c]
      /\ s.pending \in Seq(Records) /\ NoRepeats(s.pending)
      /\ s.chunks \in Seq(ChunkFiles) /\ Numbered(s.chunks) /\ Apart(s.chunks)
      /\ Range(s.pending) \cap Held(s.chunks) = {}
      /\ Range(s.pending) \cup Held(s.chunks) = all \cup page.records
    <2>1. {"pending", "chunks"} \subseteq DOMAIN script
        BY <1>2
    <2>2. Range(InOrder(page.records)) \cap (Range(script.pending) \cup Held(script.chunks)) = {}
        BY <1>6, <1>7
    <2> DEFINE records == InOrder(page.records)
    <2>3. records \in Seq(Records) /\ NoRepeats(records) /\ Range(records) = page.records
        BY <1>6
    <2> HIDE DEF records
    <2>4. Range(records) \cap (Range(script.pending) \cup Held(script.chunks)) = {}
        BY <2>2 DEF records
    <2>5. LET t == Appended(script, records)
           IN  /\ \E p, c : t = [script EXCEPT !.pending = p, !.chunks = c]
               /\ t.pending \in Seq(Records) /\ NoRepeats(t.pending)
               /\ t.chunks \in Seq(ChunkFiles) /\ Numbered(t.chunks) /\ Apart(t.chunks)
               /\ Range(t.pending) \cap Held(t.chunks) = {}
               /\ Range(t.pending) \cup Held(t.chunks) =
                      Range(script.pending) \cup Held(script.chunks) \cup Range(records)
        BY <1>2, <1>3, <2>1, <2>3, <2>4, AppendedKeeps
    <2> QED
        BY <2>3, <2>5 DEF records
<1>9. /\ DOMAIN s = DOMAIN script /\ s.name = "export" /\ s.pc = "pages"
      /\ s.had = script.had /\ s.marks = script.marks /\ s.todo = script.todo
    BY <1>1, <1>2, <1>8
<1>10. \A r \in all \cup page.records : r \in Nat
    BY <1>5, <1>7
<1> HIDE DEF s
<1>11. CASE page.nextCursor # 0
    <2>1. script' = [s EXCEPT !.cursor = page.nextCursor]
        BY <1>1, <1>11
    <2>2. /\ DOMAIN script' = DOMAIN s /\ script'.cursor = page.nextCursor
          /\ script'.name = "export" /\ script'.pc = "pages"
          /\ script'.had = script.had /\ script'.marks = script.marks
          /\ script'.todo = script.todo
          /\ script'.pending = s.pending /\ script'.chunks = s.chunks
        BY <2>1, <1>2, <1>9
    <2>3. \A r \in all \cup page.records : r <= page.nextCursor
        <3>1. \A r \in all : r <= script.cursor /\ script.cursor <= page.nextCursor /\ r \in Nat
            BY <1>3, <1>4, <1>10, <1>11
        <3>2. \A r \in all : r <= page.nextCursor
            BY <3>1, <1>2, <1>4
        <3> QED
            BY <3>2, <1>4, <1>11
    <2>4. \A r \in script.had : r <= page.nextCursor => r \in all \cup page.records
        <3>1. \A r \in script.had : r <= script.cursor \/ script.cursor < r
            BY <1>2, <1>5
        <3> QED
            BY <3>1, <1>2, <1>3, <1>4, <1>11
    <2>5. ExportTypes'
        BY <2>2, <1>1, <1>2, <1>4, <1>8, <1>9 DEF ExportTypes, Numbered
    <2>6. ExportKeeps'
        <3>1. Apart(script.chunks)' /\ NoRepeats(script.pending)'
            BY <2>2, <1>8 DEF Apart, NoRepeats
        <3>2. /\ Held(script.chunks)' = Held(s.chunks)
              /\ Range(script.pending)' = Range(s.pending)
            BY <2>2 DEF Held, Range
        <3>3. \A r \in (Range(script.pending) \cup Held(script.chunks))' :
                  r \in all \cup page.records
            BY <3>2, <1>8
        <3>4. \A r \in all \cup page.records :
                  r \in (Range(script.pending) \cup Held(script.chunks))'
            BY <3>2, <1>8
        <3>5. (Range(script.pending) \cap Held(script.chunks))' = {}
            BY <3>2, <1>8
        <3> HIDE DEF all
        <3> QED
            BY <2>2, <2>3, <2>4, <3>1, <3>3, <3>4, <3>5 DEF ExportKeeps
    <2> QED
        BY <2>5, <2>6 DEF ExportInv
<1>12. CASE page.nextCursor = 0
    <2> DEFINE c == FlushedChunk(s.chunks, s.pending)
    <2>1. script' = [s EXCEPT !.pc = "marks", !.pending = <<>>, !.chunks = c]
        BY <1>1, <1>12
    <2> HIDE DEF c
    <2>2. /\ DOMAIN script' = DOMAIN s /\ script'.cursor = script.cursor
          /\ script'.name = "export" /\ script'.pc = "marks"
          /\ script'.had = script.had /\ script'.marks = script.marks
          /\ script'.todo = script.todo
          /\ script'.pending = <<>> /\ script'.chunks = c
        <3>1. s.cursor = script.cursor
            BY <1>2, <1>8
        <3> QED
            BY <2>1, <3>1, <1>2, <1>9
    <2>3. /\ c \in Seq(ChunkFiles) /\ Numbered(c) /\ Apart(c)
          /\ Held(c) = all \cup page.records
        BY <1>8, FlushedHolds DEF c
    <2>4. script.had \subseteq all \cup page.records
        <3>1. \A r \in script.had : r <= script.cursor \/ script.cursor < r
            BY <1>2, <1>5
        <3> QED
            BY <3>1, <1>2, <1>3, <1>4, <1>12
    <2>5. ExportTypes'
        BY <2>2, <2>3, <1>1, <1>2, <1>9 DEF ExportTypes, Numbered
    <2>6. ExportKeeps'
        BY <2>2, <2>3, <2>4 DEF ExportKeeps, Apart, Held
    <2> QED
        BY <2>5, <2>6 DEF ExportInv
<1> QED
    BY <1>11, <1>12
LEMMA PushName ==
    ASSUME PushInv, Push
    PROVE  script'.name \in {"push", "none"}
<1>1. {"name", "pc"} \subseteq DOMAIN script
    BY DEF PushInv, PushTypes
<1>2. CASE PushStarts
    BY <1>2 DEF PushStarts, Resumed, PushAt
<1>3. CASE PushExports
    BY <1>1, <1>3 DEF PushExports
<1>4. CASE PushImports
    <2>1. \/ \E cursor : script' = [script EXCEPT !.pc = "save", !.cursor = cursor]
          \/ script' = script
          \/ script' = Idle
        BY <1>4 DEF PushImports, Dies
    <2>2. script.name = "push"
        BY <1>4 DEF PushImports
    <2>3. ASSUME NEW cursor, script' = [script EXCEPT !.pc = "save", !.cursor = cursor]
          PROVE  script'.name = "push"
        BY <1>1, <2>2, <2>3
    <2>4. CASE script' = Idle
        BY <2>4 DEF Idle
    <2>5. CASE script' = script
        BY <2>2, <2>5
    <2> QED
        BY <2>1, <2>3, <2>4, <2>5
<1>5. CASE PushSaves
    BY <1>1, <1>5 DEF PushSaves
<1>6. CASE PushEntersWatermarks
    BY <1>1, <1>6 DEF PushEntersWatermarks
<1>7. CASE PushExportsMarks
    BY <1>1, <1>7 DEF PushExportsMarks
<1>8. CASE PushImportsMarks
    <2>1. \/ \E offset : script' = [script EXCEPT !.pc = "saveMarks", !.offset = offset]
          \/ script' = Idle
        BY <1>8 DEF PushImportsMarks, Dies
    <2>2. script.name = "push"
        BY <1>8 DEF PushImportsMarks
    <2>3. ASSUME NEW offset, script' = [script EXCEPT !.pc = "saveMarks", !.offset = offset]
          PROVE  script'.name = "push"
        BY <1>1, <2>2, <2>3
    <2>4. CASE script' = Idle
        BY <2>4 DEF Idle
    <2> QED
        BY <2>1, <2>3, <2>4
<1>9. CASE PushSavesMarks
    BY <1>1, <1>9 DEF PushSavesMarks
<1>10. CASE PushFinalizes
    BY <1>1, <1>10 DEF PushFinalizes, Dies, Idle
<1>11. CASE PushClears
    BY <1>11 DEF PushClears, Dies, Idle
<1> QED
    BY <1>2, <1>3, <1>4, <1>5, <1>6, <1>7, <1>8, <1>9, <1>10, <1>11 DEF Push

LEMMA ExportStartsStep ==
    ASSUME PushInv, ExportStarts
    PROVE  ExportInv'
<1>1. /\ source' = source
      /\ script' = [name |-> "export", pc |-> "pages", cursor |-> 0, pending |-> <<>>,
                    chunks |-> <<>>, had |-> source.rows, marks |-> {}, todo |-> {}]
    BY DEF ExportStarts, SeedElsewhere
<1>2. <<>> \in Seq(Records) /\ <<>> \in Seq(ChunkFiles)
    BY EmptySeq
<1>3. Range(<<>>) = {} /\ Held(<<>>) = {} /\ Numbered(<<>>) /\ Apart(<<>>) /\ NoRepeats(<<>>)
    BY DEF Range, Held, Numbered, Apart, NoRepeats
<1>4. \A r \in source.rows : ~(r <= 0)
    <2>1. source.rows \subseteq Records /\ Records \subseteq Nat \ {0}
        BY StoreAssumption DEF PushInv, PushTypes
    <2>2. \A r \in Nat \ {0} : ~(r <= 0)
        OBVIOUS
    <2> QED
        BY <2>1, <2>2
<1>5. ExportTypes'
    BY <1>1, <1>2 DEF ExportTypes, Numbered
<1>6. ExportKeeps'
    BY <1>1, <1>3, <1>4 DEF ExportKeeps, Held, Apart, NoRepeats, Range
<1> QED
    BY <1>5, <1>6 DEF ExportInv

LEMMA ExportPullsMarksStep ==
    ASSUME PushInv, ExportInv, ExportPullsMarks
    PROVE  ExportInv'
<1>1. /\ script.name = "export" /\ script.pc = "marks" /\ source' = source
      /\ script' = [script EXCEPT !.pc = "upload", !.marks = source.marks,
                        !.todo = DOMAIN script.chunks \cup {0, -1}]
    BY DEF ExportPullsMarks, SeedElsewhere
<1>2. ExportTypes /\ ExportKeeps /\ {"name", "pc"} \subseteq DOMAIN script
    BY <1>1 DEF PushInv, PushTypes, ExportInv
<1>3. /\ DOMAIN script' = DOMAIN script /\ script'.pc = "upload" /\ script'.name = "export"
      /\ script'.cursor = script.cursor /\ script'.pending = script.pending
      /\ script'.chunks = script.chunks /\ script'.had = script.had
      /\ script'.marks = source.marks
      /\ script'.todo = DOMAIN script.chunks \cup {0, -1}
    BY <1>1, <1>2 DEF ExportTypes
<1>4. ExportTypes'
    BY <1>1, <1>2, <1>3 DEF ExportTypes, Numbered, PushInv, PushTypes
<1>5. ExportKeeps'
    BY <1>1, <1>2, <1>3 DEF ExportKeeps, Apart, Held
<1> QED
    BY <1>4, <1>5 DEF ExportInv

LEMMA ExportUploadsStep ==
    ASSUME PushInv, ExportInv, NEW f, ExportUploads(f)
    PROVE  ExportInv'
<1>1. /\ script.name = "export" /\ script.pc = "upload" /\ source' = source
      /\ script' = [script EXCEPT !.todo = @ \ {f}] \/ script' = Idle
    BY DEF ExportUploads, SeedElsewhere, Dies
<1>2. ExportTypes /\ ExportKeeps /\ {"name", "pc"} \subseteq DOMAIN script
    BY <1>1 DEF PushInv, PushTypes, ExportInv
<1>3. CASE script' = Idle
    BY <1>3 DEF ExportInv, Idle
<1>4. CASE script' = [script EXCEPT !.todo = @ \ {f}]
    <2>1. /\ DOMAIN script' = DOMAIN script /\ script'.pc = "upload" /\ script'.name = "export"
          /\ script'.cursor = script.cursor /\ script'.pending = script.pending
          /\ script'.chunks = script.chunks /\ script'.had = script.had
          /\ script'.marks = script.marks /\ script'.todo \subseteq script.todo
        BY <1>1, <1>2, <1>4 DEF ExportTypes
    <2>2. ExportTypes'
        BY <1>1, <1>2, <2>1 DEF ExportTypes, Numbered
    <2>3. ExportKeeps'
        BY <1>1, <1>2, <2>1 DEF ExportKeeps, Apart, Held
    <2> QED
        BY <2>2, <2>3 DEF ExportInv
<1> QED
    BY <1>1, <1>3, <1>4

\* What an export has pulled stays, whatever the source ingests beside it.
LEMMA ExportWaits ==
    ASSUME ExportInv, script' = script, source.rows \subseteq source'.rows
    PROVE  ExportInv'
<1>1. ExportTypes => ExportTypes'
    BY DEF ExportTypes, Numbered
<1>2. ExportKeeps => ExportKeeps'
    <2>1. Apart(script.chunks)' = Apart(script.chunks)
        BY DEF Apart
    <2>2. /\ NoRepeats(script.pending)' = NoRepeats(script.pending)
          /\ Range(script.pending)' = Range(script.pending)
          /\ Held(script.chunks)' = Held(script.chunks)
        BY DEF Held, NoRepeats, Range
    <2> QED
        BY <2>1, <2>2 DEF ExportKeeps
<1> QED
    BY <1>1, <1>2 DEF ExportInv

LEMMA StepKeepsExportInv ==
    ASSUME PushInv, ExportInv, [Next]_vars
    PROVE  ExportInv'
<1>1. ASSUME NEW d \in Days, SourceIngests(d)
      PROVE  ExportInv'
    <2>1. script' = script /\ source'.rows = source.rows \cup OfDays({d})
        BY <1>1 DEF SourceIngests, Watermarked, Upserted, PushInv, PushTypes
    <2> QED
        BY <2>1, ExportWaits
<1>2. CASE Refresh
    BY <1>2, RefreshKeeps, ExportWaits
<1>3. CASE UNCHANGED vars
    BY <1>3, ExportWaits DEF vars
<1>4. CASE ScriptKilled
    BY <1>4 DEF ScriptKilled, Dies, Idle, ExportInv
<1>5. CASE Export
    BY <1>5, ExportStartsStep, ExportPullsStep, ExportPullsMarksStep, ExportUploadsStep DEF Export
<1>6. CASE Push
    BY <1>6, PushName DEF ExportInv
<1>7. CASE Migrate
    BY <1>7, MigrateName DEF ExportInv
<1>8. CASE Sync
    BY <1>8, SyncName DEF ExportInv
<1> QED
    BY <1>1, <1>2, <1>3, <1>4, <1>5, <1>6, <1>7, <1>8 DEF Next

\* What an export has in its chunks is known from its cursor, at every step.
THEOREM ExportInvariant == Spec => []ExportInv
<1>1. Init => ExportInv
    BY DEF Init, ExportInv, Idle
<1>2. PushInv /\ ExportInv /\ [Next]_vars => ExportInv'
    BY StepKeepsExportInv
<1> QED
    BY <1>1, <1>2, PushInvariant, PTL DEF Spec

\* A seed that is exported holds every record that the source had when the export began,
\* each on one line, whatever the source ingested between its pages.
THEOREM ExportHoldsAll == Spec => []SeedIsWhole
<1>1. PushInv /\ ExportInv => SeedIsWhole
    BY DEF ExportInv, ExportKeeps, SeedIsWhole, Held, Apart
<1> QED
    BY <1>1, PushInvariant, ExportInvariant, PTL

-----------------------------------------------------------------------------
(* The chunks of a refresh                                                 *)

\* The chunk of a window has its days for a name.
LEMMA ChunkOfWindow ==
    ASSUME NEW to \in Days, RefreshDays <= to, NEW s \in RefreshStarts(to)
    PROVE  /\ s \in Days /\ s <= to /\ to - RefreshDays + 1 <= s
           /\ RefreshChunk(s, to) \in ChunkNames
           /\ RefreshChunk(s, to)[1] = "refresh"
           /\ RefreshChunk(s, to)[2] \in Windows /\ RefreshChunk(s, to)[2][1] = s
<1> DEFINE end == IF s + WorkChunkDays - 1 > to THEN to ELSE s + WorkChunkDays - 1
<1>1. /\ LastDay \in Nat /\ RefreshDays \in Nat \ {0} /\ WorkChunkDays \in Nat \ {0}
      /\ to \in Nat /\ to <= LastDay
    BY StoreAssumption, ReplicationAssumption DEF Days
<1>2. s \in Days /\ s <= to /\ to - RefreshDays + 1 <= s
    BY <1>1 DEF RefreshStarts, Days
<1>3. end \in Days /\ s <= end
    BY <1>1, <1>2 DEF Days
<1>4. RefreshChunk(s, to) = <<"refresh", <<s, end>>>>
    BY DEF RefreshChunk
<1> HIDE DEF end
<1>5. <<s, end>> \in Windows
    BY <1>2, <1>3 DEF Windows
<1> QED
    BY <1>2, <1>4, <1>5 DEF ChunkNames

LEMMA ProductBounds ==
    /\ \A m, n \in Nat : m * n \in Nat
    /\ \A m \in Nat \ {0}, n \in Nat \ {0} : m <= m * n
BY SMT

\* Multiples of a width: where three starts lie on two grids.
LEMMA OnBothGrids ==
    ASSUME NEW from \in Int, NEW later \in Int, NEW width \in Nat \ {0},
           NEW a \in Nat, NEW b \in Nat, NEW c \in Nat, NEW s \in Int, NEW t \in Int,
           t = from + a * width, t = later + b * width, s = later + c * width,
           s < t, from <= s
    PROVE  /\ s + width <= t
           /\ a - (b - c) \in 0 .. a
           /\ s = from + (a - (b - c)) * width
<1>1. /\ a * width \in Int /\ b * width \in Int /\ c * width \in Int
      /\ (b - c) * width = b * width - c * width
      /\ (a - (b - c)) * width = a * width - (b * width - c * width)
      /\ (b - c - 1) * width = b * width - c * width - width
    BY SMT
<1>2. (b - c) * width > 0
    BY <1>1
<1>3. b - c > 0
    <2>1. ASSUME ~(b - c > 0)
          PROVE  FALSE
        <3>1. c - b \in Nat
            BY <2>1
        <3>2. (c - b) * width \in Nat
            BY <3>1, ProductBounds
        <3>3. (c - b) * width = 0 - (b - c) * width
            BY SMT
        <3> QED
            BY <3>2, <3>3, <1>2, <1>1
    <2> QED
        BY <2>1
<1>4. s + width <= t
    <2>1. b - c - 1 \in Nat
        BY <1>3
    <2>2. (b - c - 1) * width \in Nat
        BY <2>1, ProductBounds
    <2> QED
        BY <1>1, <2>2
<1>5. s = from + (a - (b - c)) * width
    BY <1>1
<1>6. a - (b - c) >= 0
    <2>1. ASSUME ~(a - (b - c) >= 0)
          PROVE  FALSE
        <3> DEFINE d == b - c - a
        <3>1. d \in Nat \ {0}
            BY <2>1
        <3>2. width <= width * d
            BY <3>1, ProductBounds
        <3>3. width * d = 0 - (a - (b - c)) * width
            BY SMT
        <3> QED
            BY <3>2, <3>3, <1>5, <1>1
    <2> QED
        BY <2>1
<1> QED
    BY <1>3, <1>4, <1>5, <1>6

\* What a later refresh lists before a chunk that it shares with an earlier one, the
\* earlier one listed before it.
LEMMA RefreshesSlide ==
    ASSUME NEW day \in Days, RefreshDays <= day, NEW to \in Days, day <= to,
           NEW s \in RefreshStarts(to), NEW t \in RefreshStarts(to), s < t,
           NEW u \in RefreshStarts(day), RefreshChunk(u, day) = RefreshChunk(t, to)
    PROVE  u = t /\ s \in RefreshStarts(day) /\ RefreshChunk(s, day) = RefreshChunk(s, to)
<1> DEFINE from == day - RefreshDays + 1
           later == to - RefreshDays + 1
<1>1. /\ LastDay \in Nat /\ RefreshDays \in Nat \ {0} /\ WorkChunkDays \in Nat \ {0}
      /\ to \in Nat /\ day \in Nat /\ RefreshDays <= to
      /\ from \in Int /\ later \in Int /\ from <= later
    BY StoreAssumption, ReplicationAssumption DEF Days
<1>2. u = t
    BY <1>1, ChunkOfWindow
<1>3. /\ s \in Int /\ t \in Int /\ later <= s /\ t <= day
    BY <1>1, <1>2, ChunkOfWindow DEF Days
<1>4. PICK a \in 0 .. RefreshDays : t = from + a * WorkChunkDays
    BY <1>2 DEF RefreshStarts
<1>5. PICK b \in 0 .. RefreshDays : t = later + b * WorkChunkDays
    BY DEF RefreshStarts
<1>6. PICK c \in 0 .. RefreshDays : s = later + c * WorkChunkDays
    BY DEF RefreshStarts
<1>7. from <= s /\ a \in Nat /\ b \in Nat /\ c \in Nat /\ s <= day
    BY <1>1, <1>3, <1>4, <1>5, <1>6
<1> HIDE DEF from, later
<1>8. /\ s + WorkChunkDays <= t
      /\ a - (b - c) \in 0 .. a
      /\ s = from + (a - (b - c)) * WorkChunkDays
    BY <1>1, <1>3, <1>4, <1>5, <1>6, <1>7, OnBothGrids
<1>9. a - (b - c) \in 0 .. RefreshDays
    BY <1>1, <1>4, <1>7, <1>8
<1>10. s \in RefreshStarts(day)
    <2>1. s \in from .. day
        BY <1>1, <1>3, <1>7
    <2> QED
        BY <2>1, <1>8, <1>9 DEF RefreshStarts, from
<1>11. ~(s + WorkChunkDays - 1 > day) /\ ~(s + WorkChunkDays - 1 > to)
    BY <1>1, <1>3, <1>8
<1> QED
    BY <1>2, <1>10, <1>11 DEF RefreshChunk

\* A refresh lists its chunks in the order of their windows, each of them once.
LEMMA RefreshLists ==
    ASSUME NEW to \in Days, RefreshDays <= to
    PROVE  LET firsts == InOrder(RefreshStarts(to))
               names == RefreshChunks(to)
           IN  /\ names \in Seq(ChunkNames) /\ Len(names) \in Nat /\ DOMAIN names = 1 .. Len(names)
               /\ \A k \in DOMAIN names :
                      /\ firsts[k] \in RefreshStarts(to) /\ names[k] = RefreshChunk(firsts[k], to)
                      /\ names[k][1] = "refresh"
               /\ \A s \in RefreshStarts(to) : \E k \in DOMAIN names : firsts[k] = s
               /\ \A k, l \in DOMAIN names : k < l => firsts[k] < firsts[l]
<1> DEFINE S == RefreshStarts(to)
           firsts == InOrder(S)
           names == RefreshChunks(to)
           n == Cardinality(S)
<1>1. \A s \in S : s \in Days /\ RefreshChunk(s, to) \in ChunkNames
                   /\ RefreshChunk(s, to)[1] = "refresh"
    BY ChunkOfWindow
<1>2. S \subseteq Nat /\ IsFiniteSet(S)
    <2>1. IsFiniteSet(Days) /\ Days \subseteq Nat
        BY StoreAssumption, FS_Interval DEF Days
    <2> QED
        BY <1>1, <2>1, FS_Subset
<1> HIDE DEF S
<1>3. /\ DOMAIN firsts = 1 .. n /\ n \in Nat /\ Range(firsts) = S
      /\ \A i, j \in DOMAIN firsts : i < j => firsts[i] < firsts[j]
    BY <1>2, InOrderLists
<1>4. names = [k \in DOMAIN firsts |-> RefreshChunk(firsts[k], to)]
    BY DEF RefreshChunks, S
<1> HIDE DEF firsts, names, n
<1>5. \A k \in 1 .. n : firsts[k] \in S
    BY <1>3 DEF Range
<1>6. \A s \in S : \E k \in 1 .. n : firsts[k] = s
    BY <1>3 DEF Range
<1>7. names \in [1 .. n -> ChunkNames]
    BY <1>1, <1>3, <1>4, <1>5
<1>8. names \in Seq(ChunkNames) /\ Len(names) = n /\ DOMAIN names = 1 .. n
    <2>1. names \in Seq(ChunkNames)
        BY <1>3, <1>7, SeqDef
    <2> QED
        BY <1>7, <2>1, <1>3, LenProperties
<1>9. \A k \in 1 .. n : names[k] = RefreshChunk(firsts[k], to) /\ names[k][1] = "refresh"
    BY <1>1, <1>3, <1>4, <1>5
<1> QED
    BY <1>3, <1>5, <1>6, <1>8, <1>9 DEF S, firsts, names

-----------------------------------------------------------------------------
(* The migration                                                           *)

TargetGrows == "rows" \in DOMAIN target' /\ target.rows \subseteq target'.rows

\* While the seed stays as it is, a chunk that is applied stays applied, and so does
\* what the checkpoint says, also when it is lost.
LEMMA SeedUntouched ==
    ASSUME MigrationInv, UNCHANGED <<seed, exports, refresh, late>>, TargetGrows
    PROVE  /\ \A n : Given(n) => Given(n)'
           /\ \A n : Applied(n) => Applied(n)'
           /\ migrated' = migrated /\ (script'.name = "export" => migrated < exports)
                  => SeedTypes'
           /\ migrated' = migrated /\ (migrateFile' = migrateFile \/ migrateFile' = NoFile)
                  => CheckpointCovers'
<1> USE DEF TargetGrows, MigrationInv
<1>1. \A n : Given(n)' = Given(n)
    BY DEF Given, HasObject
<1>2. \A n : Applied(n) => Applied(n)'
    BY DEF Applied, AppliedTo
<1>3. ASSUME migrated' = migrated, script'.name = "export" => migrated < exports
      PROVE  SeedTypes'
    <2>1. RefreshTypes => RefreshTypes'
        BY DEF RefreshTypes, HasObject
    <2> QED
        BY <1>1, <1>3, <2>1 DEF SeedTypes
<1>4. ASSUME migrated' = migrated, migrateFile' = migrateFile \/ migrateFile' = NoFile
      PROVE  CheckpointCovers'
    <2>1. CASE migrateFile' = NoFile
        BY <2>1 DEF CheckpointCovers
    <2>2. CASE migrateFile' = migrateFile
        <3>1. /\ \A m, n : Precedes(m, n)' = Precedes(m, n)
              /\ SameExport' = SameExport
            BY <1>4 DEF Precedes, SameExport
        <3> QED
            BY <1>1, <1>2, <2>2, <3>1 DEF CheckpointCovers
    <2> QED
        BY <1>4, <2>1, <2>2
<1> QED
    BY <1>1, <1>2, <1>3, <1>4

\* A step of another script, or the end of one.
LEMMA NotMigrating ==
    ASSUME MigrationInv, UNCHANGED <<seed, exports, refresh, late, migrated>>, TargetGrows,
           migrateFile' = migrateFile \/ migrateFile' = NoFile,
           script'.name # "migrate", script'.name = "export" => migrated < exports
    PROVE  MigrationInv'
BY SeedUntouched DEF MigrationInv

\* A running migration, and its next chunk.
LEMMA Pending ==
    ASSUME PushInv, MigrationInv, script.name = "migrate"
    PROVE  /\ MigrationTypes /\ MigrationKeeps /\ {"name", "pc"} \subseteq DOMAIN script
           /\ DOMAIN script.all = 1 .. Len(script.all) /\ Len(script.all) \in Nat
           /\ DOMAIN script.pending = 1 .. Len(script.pending) /\ Len(script.pending) \in Nat
           /\ DoneChunks \in Nat /\ DoneChunks + Len(script.pending) = Len(script.all)
           /\ script.pending # <<>> =>
                  /\ Head(script.pending) = script.pending[1]
                  /\ Len(script.pending) # 0
                  /\ DoneChunks + 1 \in DOMAIN script.all
                  /\ Head(script.pending) = script.all[DoneChunks + 1]
                  /\ Given(Head(script.pending))
<1>1. /\ MigrationTypes /\ MigrationKeeps /\ {"name", "pc"} \subseteq DOMAIN script
      /\ script.all \in Seq(ChunkNames) /\ script.pending \in Seq(ChunkNames)
    BY DEF PushInv, PushTypes, MigrationInv, MigrationTypes
<1>2. /\ DOMAIN script.all = 1 .. Len(script.all) /\ Len(script.all) \in Nat
      /\ DOMAIN script.pending = 1 .. Len(script.pending) /\ Len(script.pending) \in Nat
      /\ Len(script.pending) <= Len(script.all)
    BY <1>1, LenProperties DEF MigrationKeeps, PendingEndsManifest
<1>3. DoneChunks \in Nat /\ DoneChunks + Len(script.pending) = Len(script.all)
    <2>1. \A m, n \in Nat : n <= m => m - n \in Nat /\ (m - n) + n = m
        OBVIOUS
    <2> QED
        BY <1>2, <2>1 DEF DoneChunks
<1>4. ASSUME script.pending # <<>>
      PROVE  /\ Head(script.pending) = script.pending[1]
             /\ Len(script.pending) # 0
             /\ DoneChunks + 1 \in DOMAIN script.all
             /\ Head(script.pending) = script.all[DoneChunks + 1]
             /\ Given(Head(script.pending))
    <2>1. Head(script.pending) = script.pending[1] /\ Len(script.pending) # 0
        BY <1>1, <1>4, EmptySeq
    <2>2. \A d, m, n \in Nat : m # 0 /\ d + m = n => d + 1 \in 1 .. n /\ 1 \in 1 .. m
        OBVIOUS
    <2>3. DoneChunks + 1 \in DOMAIN script.all /\ 1 \in DOMAIN script.pending
        BY <2>1, <2>2, <1>2, <1>3
    <2>4. Head(script.pending) = script.all[DoneChunks + 1]
        BY <1>1, <2>1, <2>3 DEF MigrationKeeps, PendingEndsManifest
    <2>5. Given(script.all[DoneChunks + 1])
        BY <1>1, <2>3 DEF MigrationTypes
    <2> QED
        BY <2>1, <2>3, <2>4, <2>5
<1> QED
    BY <1>1, <1>2, <1>3, <1>4

\* A step beside the scripts after which the chunks that were applied are applied, and
\* no other precedes them.
LEMMA MigrationSurvives ==
    ASSUME PushInv, MigrationInv, UNCHANGED <<target, script, migrateFile>>, SeedTypes',
           \A n : Given(n) => Given(n)',
           SameExport' => SameExport /\ \A m, n : Precedes(m, n)' => Precedes(m, n),
           \A rows, n : Given(n) /\ AppliedTo(rows, seed.objects, late, n)
                           => AppliedTo(rows, seed'.objects, late', n)
    PROVE  MigrationInv'
<1>1. \A n : Given(n) /\ Applied(n) => Given(n)' /\ Applied(n)'
    BY DEF Applied
<1>2. CheckpointCovers'
    BY <1>1 DEF MigrationInv, CheckpointCovers
<1>3. ASSUME script.name = "migrate"
      PROVE  MigrationTypes' /\ MigrationKeeps'
    <2>1. /\ MigrationTypes /\ MigrationKeeps
          /\ DOMAIN script.all = 1 .. Len(script.all) /\ Len(script.all) \in Nat
          /\ DoneChunks \in Nat /\ Len(script.pending) \in Nat
          /\ DoneChunks + Len(script.pending) = Len(script.all)
          /\ script.pending # <<>> => Given(Head(script.pending))
        BY <1>3, Pending
    <2>2. MigrationTypes'
        BY <2>1 DEF MigrationTypes
    <2>3. DoneChunks' = DoneChunks
        BY DEF DoneChunks
    <2>4. PendingEndsManifest'
        BY <2>1, <2>3 DEF MigrationKeeps, PendingEndsManifest
    <2>5. SameExport' => DoneApplied'
        <3>1. \A i \in 1 .. DoneChunks : i \in DOMAIN script.all
            BY <2>1
        <3>2. \A i \in DOMAIN script.all : Given(script.all[i])
            BY <2>1 DEF MigrationTypes
        <3> QED
            BY <1>1, <2>1, <2>3, <3>1, <3>2 DEF MigrationKeeps, DoneApplied
    <2>6. SameExport' => OrderKept'
        BY <2>1 DEF MigrationKeeps, OrderKept
    <2>7. SameExport' => HeadCovered'
        <3>1. script.pc \in {"import", "save"} => Given(Head(script.pending))
            BY <2>1 DEF MigrationKeeps, PendingEndsManifest
        <3>2. SameExport' => HeadCovered
            BY <2>1 DEF MigrationKeeps
        <3> QED
            BY <3>1, <3>2 DEF HeadCovered, Applied
    <2> QED
        BY <2>2, <2>4, <2>5, <2>6, <2>7 DEF MigrationKeeps
<1> QED
    BY <1>2, <1>3 DEF MigrationInv

\* A step that leaves the script where it is.
LEMMA MigrationWaits ==
    ASSUME PushInv, MigrationInv,
           UNCHANGED <<seed, exports, refresh, late, migrated, migrateFile, script, target>>
    PROVE  MigrationInv'
<1>1. TargetGrows
    BY DEF TargetGrows, MigrationInv, SeedTypes
<1>2. SeedTypes' /\ \A n : Given(n) => Given(n)'
    BY <1>1, SeedUntouched DEF MigrationInv, SeedTypes
<1>3. SameExport' = SameExport /\ \A m, n : Precedes(m, n)' = Precedes(m, n)
    BY DEF SameExport, Precedes
<1>4. \A rows, n : AppliedTo(rows, seed.objects, late, n)
                      => AppliedTo(rows, seed'.objects, late', n)
    OBVIOUS
<1> QED
    BY <1>2, <1>3, <1>4, MigrationSurvives

\* The files of an export take the place of those from before one by one; from the first
\* on, they are not those that a migration was begun with.
LEMMA ExportMigrationStep ==
    ASSUME PushInv, ExportInv, MigrationInv, Export
    PROVE  MigrationInv'
<1>1. script'.name # "migrate" /\ UNCHANGED <<migrated, migrateFile, target, refresh, late>>
    BY ExportName DEF Export, ExportStarts, ExportPulls, ExportPullsMarks, ExportUploads,
                      SeedElsewhere, Counters
<1>2. CASE ExportStarts
    <2>1. seed' = seed /\ exports' = exports + 1
        BY <1>2 DEF ExportStarts
    <2>2. SeedTypes'
        <3>1. (\A n : Given(n)' = Given(n)) /\ (RefreshTypes => RefreshTypes')
            BY <1>1, <2>1 DEF Given, HasObject, RefreshTypes
        <3>2. exports \in Nat /\ migrated \in Int /\ seed.version \in Nat
              /\ migrated <= exports /\ seed.version <= exports
            BY DEF MigrationInv, SeedTypes, NoExport
        <3>3. exports' \in Nat /\ migrated < exports' /\ migrated <= exports'
              /\ seed.version <= exports'
            BY <2>1, <3>2
        <3> QED
            BY <1>1, <2>1, <3>1, <3>3 DEF MigrationInv, SeedTypes
    <2>3. CheckpointCovers'
        <3>1. /\ \A n : Given(n)' = Given(n) /\ Applied(n)' = Applied(n)
              /\ \A m, n : Precedes(m, n)' = Precedes(m, n)
            BY <1>1, <2>1 DEF Given, HasObject, Applied, Precedes
        <3> QED
            BY <1>1, <2>1, <3>1 DEF MigrationInv, CheckpointCovers, SameExport
    <2> QED
        BY <1>1, <2>2, <2>3 DEF MigrationInv
<1>3. CASE ExportPulls \/ ExportPullsMarks
    <2>1. UNCHANGED <<seed, exports>> /\ script.name = "export"
        BY <1>3 DEF ExportPulls, ExportPullsMarks, Counters
    <2> QED
        BY <1>1, <2>1, NotMigrating DEF MigrationInv, SeedTypes, TargetGrows
<1>4. ASSUME NEW f, ExportUploads(f)
      PROVE  MigrationInv'
    <2>1. /\ script.name = "export" /\ script.pc = "upload" /\ f \in script.todo
          /\ exports' = exports
          /\ seed' = [CASE f = 0 -> [seed EXCEPT !.manifest =
                                        [i \in DOMAIN script.chunks |-> script.chunks[i].name]]
                        [] f = -1 -> [seed EXCEPT !.marks = script.marks]
                        [] OTHER -> [seed EXCEPT !.objects =
                              WithObject(@, script.chunks[f].name, script.chunks[f].lines)]
                     EXCEPT !.version = exports]
        BY <1>4 DEF ExportUploads, Counters
    <2>2. /\ SeedTypes /\ migrated < exports /\ exports \in Nat /\ migrated \in Int
          /\ script.chunks \in Seq(ChunkFiles) /\ Numbered(script.chunks)
          /\ script.todo \subseteq DOMAIN script.chunks \cup {0, -1}
          /\ DOMAIN seed = {"manifest", "objects", "marks", "version", "day"}
        BY <2>1 DEF MigrationInv, SeedTypes, NoExport, ExportInv, ExportTypes
    <2>3. /\ DOMAIN script.chunks = 1 .. Len(script.chunks) /\ Len(script.chunks) \in Nat
          /\ \A i \in DOMAIN script.chunks : script.chunks[i] \in ChunkFiles
        BY <2>2, RangeOf
    <2>4. ASSUME NEW i \in DOMAIN script.chunks
          PROVE  /\ script.chunks[i].name = <<"export", i>> /\ i \in Nat
                 /\ Given(script.chunks[i].name)
                 /\ script.chunks[i].name \in ChunkNames
                 /\ script.chunks[i].lines \in Seq(Records)
        <3>1. script.chunks[i] \in ChunkFiles /\ i \in Nat /\ script.chunks[i].name = <<"export", i>>
            BY <2>2, <2>3 DEF Numbered
        <3>2. script.chunks[i].name \in ChunkNames /\ script.chunks[i].lines \in Seq(Records)
            BY <3>1 DEF ChunkFiles
        <3>3. <<"export", i>>[1] # "refresh"
            OBVIOUS
        <3> QED
            BY <3>1, <3>2, <3>3 DEF Given
    <2> DEFINE names == [i \in DOMAIN script.chunks |-> script.chunks[i].name]
    <2>5. /\ names \in Seq(ChunkNames) /\ \A i \in DOMAIN names : Given(names[i])
          /\ Listed(names, seed.day)
        <3>1. names \in [1 .. Len(script.chunks) -> ChunkNames]
            BY <2>3, <2>4
        <3>2. names \in Seq(ChunkNames)
            BY <2>3, <3>1, SeqDef
        <3>3. \A i \in DOMAIN names : names[i][1] # "refresh"
            BY <2>4
        <3> QED
            BY <2>4, <3>2, <3>3 DEF Listed
    <2>6. /\ seed'.version = exports /\ seed'.day = seed.day
          /\ DOMAIN seed' = {"manifest", "objects", "marks", "version", "day"}
        <3>1. CASE f = 0
            BY <2>1, <2>2, <3>1
        <3>2. CASE f = -1
            BY <2>1, <2>2, <3>2
        <3>3. CASE f # 0 /\ f # -1
            BY <2>1, <2>2, <3>3
        <3> QED
            BY <3>1, <3>2, <3>3
    <2>7. \/ seed'.manifest = seed.manifest
          \/ seed'.manifest = names
        <3>1. CASE f = 0
            BY <2>1, <2>2, <3>1
        <3>2. CASE f = -1
            BY <2>1, <2>2, <3>2
        <3>3. CASE f # 0 /\ f # -1
            BY <2>1, <2>2, <3>3
        <3> QED
            BY <3>1, <3>2, <3>3
    <2>8. \/ seed'.objects = seed.objects
          \/ \E i \in DOMAIN script.chunks : seed'.objects =
                 WithObject(seed.objects, script.chunks[i].name, script.chunks[i].lines)
        <3>1. CASE f = 0
            BY <2>1, <2>2, <3>1
        <3>2. CASE f = -1
            BY <2>1, <2>2, <3>2
        <3>3. CASE f # 0 /\ f # -1
            BY <2>1, <2>2, <3>3
        <3> QED
            BY <3>1, <3>2, <3>3
    <2> HIDE DEF names
    <2>9. /\ seed'.objects \subseteq ChunkFiles
          /\ \A o, p \in seed'.objects : o.name = p.name => o = p
          /\ \A n : HasObject(n) => HasObject(n)'
        <3>1. CASE seed'.objects = seed.objects
            BY <2>2, <3>1 DEF SeedTypes, HasObject
        <3>2. ASSUME NEW i \in DOMAIN script.chunks,
                     seed'.objects =
                         WithObject(seed.objects, script.chunks[i].name, script.chunks[i].lines)
              PROVE  /\ seed'.objects \subseteq ChunkFiles
                     /\ \A o, p \in seed'.objects : o.name = p.name => o = p
                     /\ \A n : HasObject(n) => HasObject(n)'
            <4> DEFINE new == [name |-> script.chunks[i].name, lines |-> script.chunks[i].lines]
            <4>1. new \in ChunkFiles
                BY <2>4 DEF ChunkFiles
            <4>2. seed'.objects = {o \in seed.objects : o.name # new.name} \cup {new}
                BY <3>2 DEF WithObject
            <4> HIDE DEF new
            <4> QED
                BY <2>2, <4>1, <4>2 DEF SeedTypes, HasObject
        <3> QED
            BY <2>8, <3>1, <3>2
    <2>10. \A n : Given(n) => Given(n)'
        BY <2>9 DEF Given
    <2>11. SeedTypes'
        <3>1. /\ seed'.manifest \in Seq(ChunkNames)
              /\ \A i \in DOMAIN seed'.manifest : Given(seed'.manifest[i])
              /\ Listed(seed'.manifest, seed'.day)
            BY <2>2, <2>5, <2>6, <2>7 DEF SeedTypes
        <3>2. /\ {seed'.version, exports} \subseteq Nat /\ migrated \in Nat \cup {NoExport}
              /\ seed'.version <= exports /\ migrated <= exports
            BY <2>2, <2>6 DEF SeedTypes
        <3>3. RefreshTypes'
            BY <1>1, <2>2, <2>6, <2>9 DEF SeedTypes, RefreshTypes
        <3> QED
            BY <1>1, <2>1, <2>2, <2>6, <2>9, <2>10, <3>1, <3>2, <3>3 DEF SeedTypes
    <2>12. ~SameExport'
        BY <1>1, <2>2, <2>6 DEF SameExport
    <2> QED
        BY <1>1, <2>10, <2>11, <2>12 DEF MigrationInv, CheckpointCovers
<1> QED
    BY <1>2, <1>3, <1>4 DEF Export

\* The chunks of a manifest that are no refresh's, in their order, and then those of a
\* refresh: no chunk comes before another that it did not come before.
LEMMA HistoricalKeepsOrder ==
    ASSUME NEW names \in Seq(ChunkNames),
           \A i, j \in DOMAIN names : i < j /\ names[i][1] = "refresh" => names[j][1] = "refresh"
    PROVE  LET hist == HistoricalChunks(names)
           IN  /\ hist \in Seq(ChunkNames)
               /\ \A i \in DOMAIN hist : hist[i][1] # "refresh"
               /\ \A tail \in Seq(ChunkNames) :
                      (\A k \in DOMAIN tail : tail[k][1] = "refresh") =>
                          \A n : Before(hist \o tail, n) \subseteq Before(names, n)
<1> DEFINE picked == {i \in DOMAIN names : names[i][1] # "refresh"}
           kept == InOrder(picked)
           hist == HistoricalChunks(names)
<1>1. DOMAIN names = 1 .. Len(names) /\ Len(names) \in Nat
      /\ \A i \in DOMAIN names : names[i] \in ChunkNames
    BY RangeOf
<1>2. picked \subseteq Nat /\ IsFiniteSet(picked)
    <2>1. picked \subseteq 1 .. Len(names) /\ IsFiniteSet(1 .. Len(names))
        BY <1>1, FS_Interval
    <2> QED
        BY <2>1, FS_Subset
<1>3. /\ DOMAIN kept = 1 .. Cardinality(picked) /\ Cardinality(picked) \in Nat
      /\ Range(kept) = picked
      /\ \A i, j \in DOMAIN kept : i < j => kept[i] < kept[j]
    <2> HIDE DEF picked
    <2> QED
        BY <1>2, InOrderLists
<1>4. hist = [j \in DOMAIN kept |-> names[kept[j]]]
    BY DEF HistoricalChunks
<1> DEFINE c == Cardinality(picked)
<1>5. \A j \in 1 .. c : kept[j] \in picked
    BY <1>3 DEF Range
<1>6. \A i \in picked : \E j \in 1 .. c : kept[j] = i
    BY <1>3 DEF Range
<1>7. hist \in Seq(ChunkNames) /\ DOMAIN hist = 1 .. c /\ Len(hist) = c /\ c \in Nat
    <2>1. hist \in [1 .. c -> ChunkNames]
        BY <1>1, <1>3, <1>4, <1>5
    <2>2. c \in Nat
        BY <1>3
    <2> HIDE DEF hist, c
    <2>3. hist \in Seq(ChunkNames)
        BY <2>1, <2>2, SeqDef
    <2> QED
        BY <2>1, <2>2, <2>3, LenProperties
<1>8. \A j \in 1 .. c : hist[j] = names[kept[j]] /\ hist[j][1] # "refresh"
    BY <1>3, <1>4, <1>5
<1>9. \A i, j \in 1 .. c : i < j => kept[i] < kept[j]
    BY <1>3
<1> HIDE DEF kept, hist, c
<1>10. ASSUME NEW tail \in Seq(ChunkNames), \A k \in DOMAIN tail : tail[k][1] = "refresh", NEW n
       PROVE  Before(hist \o tail, n) \subseteq Before(names, n)
    <2> DEFINE after == hist \o tail
    <2>1. /\ DOMAIN after = 1 .. c + Len(tail) /\ Len(tail) \in Nat
          /\ \A i \in DOMAIN after : after[i] = IF i <= c THEN hist[i] ELSE tail[i - c]
          /\ DOMAIN tail = 1 .. Len(tail)
        BY <1>7, ConcatProperties, LenProperties
    <2> HIDE DEF after
    <2>2. ASSUME NEW i \in DOMAIN after, after[i][1] # "refresh",
                 \A k \in 1 .. i - 1 : after[k] # n
          PROVE  after[i] \in Before(names, n)
        <3>1. i \in 1 .. c
            <4>1. ~(i <= c) => i - c \in DOMAIN tail
                BY <2>1, <1>7
            <4>2. i <= c
                BY <4>1, <2>1, <2>2, <1>10
            <4> QED
                BY <4>2, <2>1, <1>7
        <3>2. kept[i] \in picked /\ after[i] = names[kept[i]] /\ kept[i] \in 1 .. Len(names)
            BY <3>1, <2>1, <1>1, <1>5, <1>8
        <3>3. ASSUME NEW k \in 1 .. kept[i] - 1, names[k] = n
              PROVE  FALSE
            <4>1. k \in DOMAIN names /\ k \in Nat /\ k < kept[i]
                BY <1>1, <3>2
            <4>2. k \in picked
                BY <4>1, <3>2
            <4>3. PICK l \in 1 .. c : kept[l] = k
                BY <4>2, <1>6
            <4>4. l < i
                <5>1. i \in Nat /\ l \in Nat
                    BY <3>1, <1>7
                <5>2. ~(kept[i] < kept[l]) /\ kept[i] # kept[l]
                    BY <4>1, <4>3, <3>2
                <5>3. ~(i < l)
                    BY <5>2, <3>1, <1>9
                <5>4. i # l
                    BY <5>2
                <5> QED
                    BY <5>1, <5>3, <5>4
            <4>5. l \in 1 .. i - 1 /\ l \in DOMAIN after /\ l <= c
                BY <4>4, <3>1, <2>1, <1>7
            <4>6. after[l] = n
                BY <4>3, <4>5, <3>3, <2>1, <1>8
            <4> QED
                BY <4>5, <4>6, <2>2
        <3> QED
            BY <3>2, <3>3 DEF Before
    <2> QED
        BY <2>2 DEF Before, after
<1> QED
    BY <1>7, <1>8, <1>10 DEF hist

\* What a refresh publishes is a manifest with the chunks it kept and then its own.
LEMMA PublishedIsListed ==
    ASSUME NEW kept \in Seq(ChunkNames), \A i \in DOMAIN kept : kept[i][1] # "refresh",
           NEW to \in Days, RefreshDays <= to
    PROVE  LET names == kept \o RefreshChunks(to)
           IN  /\ names \in Seq(ChunkNames) /\ Listed(names, to)
               /\ \A j \in DOMAIN names :
                      \/ names[j][1] # "refresh"
                      \/ \E k \in DOMAIN RefreshChunks(to) : names[j] = RefreshChunks(to)[k]
<1> DEFINE firsts == InOrder(RefreshStarts(to))
           own == RefreshChunks(to)
           names == kept \o own
           c == Len(kept)
<1>1. /\ own \in Seq(ChunkNames) /\ Len(own) \in Nat /\ DOMAIN own = 1 .. Len(own)
      /\ \A k \in DOMAIN own :
             /\ firsts[k] \in RefreshStarts(to) /\ own[k] = RefreshChunk(firsts[k], to)
             /\ own[k][1] = "refresh"
      /\ \A s \in RefreshStarts(to) : \E k \in DOMAIN own : firsts[k] = s
      /\ \A k, l \in DOMAIN own : k < l => firsts[k] < firsts[l]
    BY RefreshLists
<1>2. \A s \in RefreshStarts(to) : s \in Nat
    BY ChunkOfWindow DEF Days
<1> HIDE DEF firsts, own
<1>3. /\ names \in Seq(ChunkNames) /\ c \in Nat /\ DOMAIN kept = 1 .. c
      /\ DOMAIN names = 1 .. c + Len(own)
      /\ \A i \in DOMAIN names : names[i] = IF i <= c THEN kept[i] ELSE own[i - c]
    BY <1>1, ConcatProperties, LenProperties
<1> HIDE DEF names, c
<1>4. \A i \in DOMAIN names : i <= c => names[i][1] # "refresh"
    BY <1>1, <1>3
<1>5. ASSUME NEW j \in DOMAIN names, ~(j <= c)
      PROVE  /\ j - c \in DOMAIN own /\ names[j] = own[j - c] /\ names[j][1] = "refresh"
             /\ firsts[j - c] \in RefreshStarts(to) /\ names[j] = RefreshChunk(firsts[j - c], to)
    <2>1. j - c \in DOMAIN own /\ names[j] = own[j - c]
        BY <1>1, <1>3, <1>5
    <2> QED
        BY <2>1, <1>1
<1>6. ASSUME NEW j \in DOMAIN names, names[j][1] = "refresh"
      PROVE  /\ to \in Days /\ RefreshDays <= to
             /\ \E t \in RefreshStarts(to) :
                   /\ names[j] = RefreshChunk(t, to)
                   /\ \A s \in RefreshStarts(to) :
                         s < t => \E i \in 1 .. j - 1 : names[i] = RefreshChunk(s, to)
    <2>1. ~(j <= c)
        BY <1>4, <1>6
    <2>2. ASSUME NEW s \in RefreshStarts(to), s < firsts[j - c]
          PROVE  \E i \in 1 .. j - 1 : names[i] = RefreshChunk(s, to)
        <3>1. PICK k \in DOMAIN own : firsts[k] = s
            BY <1>1
        <3>2. k < j - c
            <4>1. j - c \in DOMAIN own /\ firsts[j - c] \in Nat /\ s \in Nat
                BY <1>2, <1>5, <2>1
            <4>2. ~(j - c < k) /\ j - c # k
                BY <4>1, <3>1, <2>2, <1>1
            <4>3. j - c \in Nat /\ k \in Nat
                BY <4>1, <1>1
            <4> QED
                BY <4>2, <4>3
        <3>3. c + k \in 1 .. j - 1 /\ c + k \in DOMAIN names /\ ~(c + k <= c) /\ (c + k) - c = k
            BY <3>2, <1>1, <1>3
        <3>4. names[c + k] = own[k] /\ own[k] = RefreshChunk(s, to)
            BY <3>1, <3>3, <1>1, <1>3
        <3> QED
            BY <3>3, <3>4
    <2> QED
        BY <2>1, <2>2, <1>5
<1>7. ASSUME NEW i \in DOMAIN names, NEW j \in DOMAIN names, i < j, names[i][1] = "refresh"
      PROVE  /\ names[j][1] = "refresh"
             /\ \E s, t \in RefreshStarts(to) :
                   s < t /\ names[i] = RefreshChunk(s, to) /\ names[j] = RefreshChunk(t, to)
    <2>1. ~(i <= c) /\ ~(j <= c)
        BY <1>3, <1>4, <1>7
    <2>2. i - c \in DOMAIN own /\ j - c \in DOMAIN own /\ i - c < j - c
        BY <2>1, <1>3, <1>5, <1>7
    <2>3. firsts[i - c] < firsts[j - c]
        BY <2>2, <1>1
    <2> QED
        BY <2>1, <2>3, <1>5
<1>8. Listed(names, to)
    BY <1>6, <1>7 DEF Listed
<1> QED
    BY <1>3, <1>4, <1>5, <1>8 DEF names, own

\* A refresh that is planned keeps the chunks that are no refresh's, or none.
LEMMA SeedPlansStep ==
    ASSUME PushInv, MigrationInv, NEW to \in Days, SeedPlans(to)
    PROVE  MigrationInv'
<1>1. /\ UNCHANGED <<seed, migrated, late, target, script, migrateFile, exports>>
      /\ RefreshDays <= to /\ seed.day <= to
      /\ \/ refresh' = [to |-> to, next |-> 1, chunks |-> HistoricalChunks(seed.manifest)]
         \/ refresh' = [to |-> to, next |-> 1, chunks |-> <<>>]
    BY DEF SeedPlans, RefreshElsewhere
<1>2. SeedTypes
    BY DEF MigrationInv
<1>3. \A n : Given(n)' = Given(n) /\ HasObject(n)' = HasObject(n)
    BY <1>1 DEF Given, HasObject
<1>4. RefreshTypes'
    <2>1. PICK chunks \in Seq(ChunkNames) :
              /\ refresh' = [to |-> to, next |-> 1, chunks |-> chunks]
              /\ \A i \in DOMAIN chunks : chunks[i][1] # "refresh"
        <3>1. /\ HistoricalChunks(seed.manifest) \in Seq(ChunkNames)
              /\ \A i \in DOMAIN HistoricalChunks(seed.manifest) :
                     HistoricalChunks(seed.manifest)[i][1] # "refresh"
            BY <1>2, HistoricalKeepsOrder DEF SeedTypes, Listed
        <3>2. <<>> \in Seq(ChunkNames) /\ DOMAIN <<>> = {}
            BY EmptySeq
        <3> QED
            BY <1>1, <3>1, <3>2
    <2>2. \A k \in DOMAIN RefreshChunks(to) : ~(k < 1)
        BY <1>1, RefreshLists
    <2> QED
        BY <1>1, <2>1, <2>2 DEF RefreshTypes
<1>5. SeedTypes'
    BY <1>1, <1>2, <1>3, <1>4 DEF SeedTypes
<1>6. SameExport' = SameExport /\ \A m, n : Precedes(m, n)' = Precedes(m, n)
    BY <1>1 DEF SameExport, Precedes
<1>7. \A rows, n : AppliedTo(rows, seed.objects, late, n)
                      => AppliedTo(rows, seed'.objects, late', n)
    BY <1>1
<1> QED
    BY <1>1, <1>3, <1>5, <1>6, <1>7, MigrationSurvives

\* A chunk that a refresh stores anew holds what it held and what was put into it late.
LEMMA SeedStoresStep ==
    ASSUME PushInv, MigrationInv, SeedStores
    PROVE  MigrationInv'
<1> DEFINE name == RefreshChunks(refresh.to)[refresh.next]
<1>1. /\ UNCHANGED <<migrated, target, script, migrateFile, exports>>
      /\ refresh.to # 0 /\ refresh.next \in DOMAIN RefreshChunks(refresh.to)
      /\ refresh' = refresh \/ refresh' = [refresh EXCEPT !.next = @ + 1]
    BY DEF SeedStores, RefreshElsewhere
<1>2. PICK found \in SUBSET Records :
          /\ seed' = [seed EXCEPT !.objects = WithObject(@, name, InOrder(found))]
          /\ late' = IF HasObject(name)
                     THEN late \cup ({name} \X (found \ Range(LinesOf(name))))
                     ELSE late
    <2>1. \A held, days : held \cap OfDays(days) \in SUBSET Records
        BY DEF OfDays
    <2> QED
        BY <2>1 DEF SeedStores
<1>3. /\ SeedTypes /\ RefreshTypes /\ refresh.to \in Days /\ RefreshDays <= refresh.to
      /\ seed.objects \subseteq ChunkFiles
      /\ \A o, p \in seed.objects : o.name = p.name => o = p
    BY <1>1 DEF MigrationInv, SeedTypes, RefreshTypes
<1>4. name \in ChunkNames /\ name[1] = "refresh"
    <2>1. /\ RefreshChunks(refresh.to) \in Seq(ChunkNames)
          /\ \A k \in DOMAIN RefreshChunks(refresh.to) : RefreshChunks(refresh.to)[k][1] = "refresh"
        BY <1>3, RefreshLists
    <2> QED
        BY <1>1, <2>1, RangeOf
<1> DEFINE new == [name |-> name, lines |-> InOrder(found)]
<1>5. new \in ChunkFiles /\ new.name = name /\ Range(new.lines) = found
    <2>1. found \subseteq Records /\ found \subseteq Nat /\ IsFiniteSet(found)
        BY StoreAssumption, FS_Subset
    <2>2. InOrder(found) \in Seq(found) /\ Range(InOrder(found)) = found
        BY <2>1, InOrderLists
    <2>3. InOrder(found) \in Seq(Records)
        BY <2>1, <2>2, SeqMonotonic
    <2> HIDE DEF name
    <2> QED
        BY <1>4, <2>2, <2>3 DEF ChunkFiles
<1>6. /\ DOMAIN seed' = DOMAIN seed /\ seed'.manifest = seed.manifest
      /\ seed'.objects = {o \in seed.objects : o.name # name} \cup {new}
      /\ seed'.version = seed.version /\ seed'.day = seed.day
    <2>1. DOMAIN seed = {"manifest", "objects", "marks", "version", "day"}
        BY <1>3 DEF SeedTypes
    <2> QED
        BY <1>2, <2>1 DEF WithObject
<1> HIDE DEF name, new
<1>7. /\ \A n : HasObject(n) => HasObject(n)'
      /\ \A n : n = name => HasObject(n)'
      /\ \A n : Given(n) => Given(n)'
    <2>1. ASSUME NEW n, HasObject(n)
          PROVE  HasObject(n)'
        <3>1. PICK o \in seed.objects : o.name = n
            BY <2>1 DEF HasObject
        <3>2. CASE n = name
            BY <3>2, <1>5, <1>6 DEF HasObject
        <3>3. CASE n # name
            BY <3>1, <3>3, <1>6 DEF HasObject
        <3> QED
            BY <3>2, <3>3
    <2>2. ASSUME NEW n, n = name
          PROVE  HasObject(n)'
        BY <2>2, <1>5, <1>6 DEF HasObject
    <2> QED
        BY <2>1, <2>2 DEF Given
<1>8. ASSUME NEW rows, NEW n, Given(n), AppliedTo(rows, seed.objects, late, n)
      PROVE  AppliedTo(rows, seed'.objects, late', n)
    <2>1. SUFFICES ASSUME NEW o \in seed'.objects, o.name = n, NEW r \in Range(o.lines),
                          r \notin {q \in Records : <<n, q>> \in late'}
                   PROVE  r \in rows
        BY DEF AppliedTo
    <2>2. late \subseteq late'
        BY <1>2
    <2>3. CASE o \in seed.objects
        <3>1. r \notin {q \in Records : <<n, q>> \in late}
            BY <2>1, <2>2
        <3> QED
            BY <1>8, <2>1, <2>3, <3>1 DEF AppliedTo
    <2>4. CASE o = new
        <3>1. n = name /\ r \in found /\ r \in Records
            BY <1>5, <2>1, <2>4
        <3>2. HasObject(name)
            BY <1>4, <1>8, <3>1 DEF Given
        <3>3. PICK p \in seed.objects : p.name = name /\ LinesOf(name) = p.lines
            BY <3>2 DEF HasObject, LinesOf
        <3>4. late' = late \cup ({name} \X (found \ Range(LinesOf(name))))
            BY <1>2, <3>2
        <3>5. <<name, r>> \notin late'
            BY <2>1, <3>1
        <3>6. r \in Range(LinesOf(name)) /\ <<name, r>> \notin late
            BY <3>1, <3>4, <3>5
        <3> QED
            BY <1>8, <3>1, <3>3, <3>6 DEF AppliedTo
    <2> QED
        BY <1>6, <2>1, <2>3, <2>4
<1>9. RefreshTypes'
    <2>1. /\ refresh'.to = refresh.to /\ refresh'.chunks = refresh.chunks
          /\ refresh'.next = refresh.next \/ refresh'.next = refresh.next + 1
          /\ refresh' \in [to : Days \cup {0}, next : Nat \ {0}, chunks : Seq(ChunkNames)]
        BY <1>1, <1>3 DEF RefreshTypes
    <2>2. ASSUME NEW k \in DOMAIN RefreshChunks(refresh.to), k < refresh'.next,
                 NEW n, n = RefreshChunks(refresh.to)[k]
          PROVE  HasObject(n)'
        <3>1. k \in Nat /\ refresh.next \in Nat
            BY <1>3, RefreshLists DEF RefreshTypes
        <3>2. k < refresh.next \/ k = refresh.next
            BY <2>1, <2>2, <3>1
        <3>3. CASE k < refresh.next
            BY <1>1, <1>3, <1>7, <2>2, <3>3 DEF RefreshTypes
        <3>4. CASE k = refresh.next
            BY <1>7, <2>2, <3>4 DEF name
        <3> QED
            BY <3>2, <3>3, <3>4
    <2> QED
        BY <1>3, <1>6, <2>1, <2>2 DEF RefreshTypes
<1>10. SeedTypes'
    <2>1. /\ seed'.objects \subseteq ChunkFiles
          /\ \A o, p \in seed'.objects : o.name = p.name => o = p
        BY <1>3, <1>5, <1>6
    <2> QED
        BY <1>1, <1>3, <1>6, <1>7, <1>9, <2>1 DEF SeedTypes
<1>11. SameExport' = SameExport /\ \A m, n : Precedes(m, n)' = Precedes(m, n)
    BY <1>1, <1>6 DEF SameExport, Precedes
<1> QED
    BY <1>1, <1>7, <1>8, <1>10, <1>11, MigrationSurvives

\* A refresh lists the chunks it kept and its own, and puts no chunk before another that
\* might not have come before it. If another export was uploaded meanwhile, the manifest
\* is no more that of the export the migration was begun with.
LEMMA SeedPublishesStep ==
    ASSUME PushInv, MigrationInv, SeedPublishes
    PROVE  MigrationInv'
<1> DEFINE names == refresh.chunks \o RefreshChunks(refresh.to)
<1>1. /\ UNCHANGED <<target, script, migrateFile, exports, late>>
      /\ refresh.to # 0 /\ refresh.next \notin DOMAIN RefreshChunks(refresh.to)
      /\ seed' = [seed EXCEPT !.manifest = names, !.day = refresh.to]
      /\ migrated' = IF refresh.chunks = HistoricalChunks(seed.manifest) THEN migrated
                     ELSE NoExport
      /\ refresh' = NoRefresh
    BY DEF SeedPublishes, RefreshElsewhere
<1>2. /\ SeedTypes /\ RefreshTypes /\ refresh.to \in Days /\ RefreshDays <= refresh.to
      /\ seed.day <= refresh.to /\ refresh.next \in Nat \ {0} /\ refresh.to \in Nat
      /\ seed.day \in Nat
    BY <1>1 DEF MigrationInv, SeedTypes, RefreshTypes, Days
<1>3. /\ refresh.chunks \in Seq(ChunkNames)
      /\ \A i \in DOMAIN refresh.chunks : refresh.chunks[i][1] # "refresh"
    BY <1>2 DEF RefreshTypes
<1>4. /\ names \in Seq(ChunkNames) /\ Listed(names, refresh.to)
      /\ \A j \in DOMAIN names :
             \/ names[j][1] # "refresh"
             \/ \E k \in DOMAIN RefreshChunks(refresh.to) :
                    names[j] = RefreshChunks(refresh.to)[k]
    BY <1>2, <1>3, PublishedIsListed
<1>5. \A k \in DOMAIN RefreshChunks(refresh.to) : HasObject(RefreshChunks(refresh.to)[k])
    <2>1. /\ DOMAIN RefreshChunks(refresh.to) = 1 .. Len(RefreshChunks(refresh.to))
          /\ Len(RefreshChunks(refresh.to)) \in Nat
        BY <1>2, RefreshLists
    <2>2. \A k \in DOMAIN RefreshChunks(refresh.to) : k < refresh.next
        BY <1>1, <1>2, <2>1
    <2> QED
        BY <1>1, <1>2, <2>2 DEF RefreshTypes
<1>6. /\ DOMAIN seed' = DOMAIN seed /\ seed'.manifest = names /\ seed'.objects = seed.objects
      /\ seed'.version = seed.version /\ seed'.day = refresh.to
    <2>1. DOMAIN seed = {"manifest", "objects", "marks", "version", "day"}
        BY <1>2 DEF SeedTypes
    <2> HIDE DEF names
    <2> QED
        BY <1>1, <2>1
<1>7. \A n : HasObject(n)' = HasObject(n) /\ Given(n)' = Given(n)
    BY <1>6 DEF HasObject, Given
<1>8. \A j \in DOMAIN names : Given(names[j])
    <2>1. \A j \in DOMAIN names : names[j] \in ChunkNames
        BY <1>4, RangeOf
    <2> QED
        BY <2>1, <1>4, <1>5 DEF Given
<1>9. RefreshTypes'
    <2>1. <<>> \in Seq(ChunkNames)
        BY EmptySeq
    <2> QED
        BY <1>1, <2>1 DEF RefreshTypes, NoRefresh
<1>10. SeedTypes'
    <2>1. /\ migrated' \in Nat \cup {NoExport} /\ migrated' <= exports
          /\ script.name = "export" => migrated' < exports
        <3>1. exports \in Nat /\ NoExport <= exports /\ NoExport < exports
            BY <1>2 DEF SeedTypes, NoExport
        <3> QED
            BY <1>1, <1>2, <3>1 DEF SeedTypes
    <2> HIDE DEF names
    <2> QED
        BY <1>1, <1>2, <1>4, <1>6, <1>7, <1>8, <1>9, <2>1 DEF SeedTypes
<1>11. ASSUME SameExport'
       PROVE  SameExport /\ \A m, n : Precedes(m, n)' => Precedes(m, n)
    <2>1. refresh.chunks = HistoricalChunks(seed.manifest) /\ migrated' = migrated
        <3>1. seed.version # NoExport
            BY <1>2 DEF SeedTypes, NoExport
        <3> QED
            BY <1>1, <1>6, <1>11, <3>1 DEF SameExport
    <2>2. \A n : Before(names, n) \subseteq Before(seed.manifest, n)
        <3>1. /\ RefreshChunks(refresh.to) \in Seq(ChunkNames)
              /\ \A k \in DOMAIN RefreshChunks(refresh.to) :
                     RefreshChunks(refresh.to)[k][1] = "refresh"
            BY <1>2, RefreshLists
        <3> QED
            BY <1>2, <2>1, <3>1, HistoricalKeepsOrder DEF SeedTypes, Listed
    <2>3. \A m, n : GoesBefore(m, n, refresh.to) => GoesBefore(m, n, seed.day)
        <3>1. \A to \in Days : refresh.to <= to => seed.day <= to
            BY <1>2 DEF Days
        <3> QED
            BY <3>1 DEF GoesBefore
    <2> QED
        BY <1>6, <1>11, <2>1, <2>2, <2>3 DEF SameExport, Precedes
<1>12. \A rows, n : AppliedTo(rows, seed.objects, late, n)
                       => AppliedTo(rows, seed'.objects, late', n)
    BY <1>1, <1>6
<1> QED
    BY <1>1, <1>7, <1>10, <1>11, <1>12, MigrationSurvives

\* A migration that begins after the first k chunks of the manifest, which are applied.
LEMMA BegunAfter ==
    ASSUME SeedTypes, UNCHANGED <<seed, target>>, NEW k \in Nat,
           k <= Len(seed.manifest),
           script' = MigrateWith(SubSeq(seed.manifest, k + 1, Len(seed.manifest))),
           SameExport' => \A i \in 1 .. k : Applied(seed.manifest[i])'
    PROVE  MigrationTypes' /\ MigrationKeeps'
<1> DEFINE m == seed.manifest
           rest == SubSeq(m, k + 1, Len(m))
<1>1. /\ m \in Seq(ChunkNames) /\ \A i \in DOMAIN m : Given(m[i])
      /\ DOMAIN m = 1 .. Len(m) /\ Len(m) \in Nat
    BY RangeOf DEF SeedTypes
<1>2. /\ rest \in Seq(ChunkNames) /\ Len(rest) = Len(m) - k
      /\ \A i \in 1 .. Len(rest) : rest[i] = m[k + i]
      /\ DOMAIN rest = 1 .. Len(rest) /\ Len(rest) \in Nat
    BY <1>1, CutLines, LenProperties
<1>3. script' = [name |-> "migrate", pc |-> IF rest = <<>> THEN "done" ELSE "read",
                 all |-> m, pending |-> rest, left |-> ChunksPerRun, lines |-> <<>>]
    BY DEF MigrateWith
<1> HIDE DEF rest, m
<1>4. /\ {"all", "pending", "left", "lines"} \subseteq DOMAIN script'
      /\ script'.pc = IF rest = <<>> THEN "done" ELSE "read"
      /\ script'.all = m /\ script'.pending = rest /\ script'.lines = <<>>
    BY <1>3
<1>5. MigrationTypes'
    <2>1. <<>> \in Seq(Records)
        BY EmptySeq
    <2>2. script'.pc \in {"read", "import", "save", "done", "finalize"}
        BY <1>4
    <2> QED
        BY <1>1, <1>2, <1>4, <2>1, <2>2 DEF MigrationTypes, Given, HasObject
<1>6. DoneChunks' = k
    <2>1. \A a \in Nat : a - (a - k) = k
        OBVIOUS
    <2> QED
        BY <1>1, <1>2, <1>4, <2>1 DEF DoneChunks
<1>7. PendingEndsManifest'
    <2>1. Len(rest) <= Len(m)
        <3>1. \A a \in Nat : a - k <= a
            OBVIOUS
        <3> QED
            BY <3>1, <1>1, <1>2
    <2> QED
        BY <1>2, <1>4, <1>6, <2>1 DEF PendingEndsManifest
<1>8. SameExport' => DoneApplied'
    BY <1>4, <1>6 DEF DoneApplied, m
<1>9. OrderKept'
    <2>1. ASSUME NEW j \in DOMAIN m, NEW n, n \in Before(m, m[j])
          PROVE  \E i \in 1 .. j : m[i] = n
        <3>1. PICK i \in DOMAIN m : m[i] = n /\ \A l \in 1 .. i - 1 : m[l] # m[j]
            BY <2>1 DEF Before
        <3>2. ~(j \in 1 .. i - 1)
            BY <3>1
        <3>3. i \in 1 .. j
            BY <3>2, <1>1
        <3> QED
            BY <3>1, <3>3
    <2>2. ASSUME NEW j \in DOMAIN m, NEW n, GoesBefore(n, m[j], seed.day)
          PROVE  \E i \in 1 .. j : m[i] = n
        <3>1. PICK to \in Days :
                  /\ seed.day <= to /\ RefreshDays <= to
                  /\ \E r, t \in RefreshStarts(to) :
                        r < t /\ n = RefreshChunk(r, to) /\ m[j] = RefreshChunk(t, to)
            BY <2>2 DEF GoesBefore
        <3>2. PICK r \in RefreshStarts(to), t \in RefreshStarts(to) :
                  r < t /\ n = RefreshChunk(r, to) /\ m[j] = RefreshChunk(t, to)
            BY <3>1
        <3>3. m[j][1] = "refresh"
            BY <3>1, <3>2, ChunkOfWindow
        <3>4. Listed(m, seed.day)
            BY DEF SeedTypes, m
        <3>5. seed.day \in Days /\ RefreshDays <= seed.day
            BY <3>3, <3>4 DEF Listed
        <3>6. PICK u \in RefreshStarts(seed.day) :
                  /\ m[j] = RefreshChunk(u, seed.day)
                  /\ \A q \in RefreshStarts(seed.day) :
                        q < u => \E i \in 1 .. j - 1 : m[i] = RefreshChunk(q, seed.day)
            BY <3>3, <3>4 DEF Listed
        <3>7. RefreshChunk(u, seed.day) = RefreshChunk(t, to)
            BY <3>2, <3>6
        <3>8. u = t /\ r \in RefreshStarts(seed.day) /\ RefreshChunk(r, seed.day) = RefreshChunk(r, to)
            <4> DEFINE day == seed.day
            <4>1. day \in Days /\ RefreshDays <= day /\ day <= to /\ u \in RefreshStarts(day)
                  /\ RefreshChunk(u, day) = RefreshChunk(t, to)
                BY <3>1, <3>5, <3>6, <3>7
            <4> HIDE DEF day
            <4>2. u = t /\ r \in RefreshStarts(day) /\ RefreshChunk(r, day) = RefreshChunk(r, to)
                BY <3>1, <3>2, <4>1, RefreshesSlide
            <4> QED
                BY <4>2 DEF day
        <3>9. PICK i \in 1 .. j - 1 : m[i] = n
            BY <3>2, <3>6, <3>8
        <3>10. i \in 1 .. j
            BY <1>1
        <3> QED
            BY <3>9, <3>10
    <2>3. script'.all = m /\ seed'.manifest = m /\ seed'.day = seed.day
        BY <1>4 DEF m
    <2> QED
        BY <2>1, <2>2, <2>3 DEF OrderKept, Precedes
<1>10. HeadCovered'
    BY <1>4 DEF HeadCovered
<1> QED
    BY <1>5, <1>7, <1>8, <1>9, <1>10 DEF MigrationKeeps

\* A migration begins with the first chunk, or after the first place of the chunk in the
\* checkpoint.
LEMMA MigrateStartsStep ==
    ASSUME MigrationInv, MigrateStarts
    PROVE  MigrationInv'
<1> DEFINE m == seed.manifest
<1>1. UNCHANGED <<seed, refresh, exports, target>>
    BY DEF MigrateStarts, Start, MigrateElsewhere
<1>2. SeedTypes /\ TargetGrows
    BY <1>1 DEF MigrationInv, SeedTypes, TargetGrows
<1>3. m \in Seq(ChunkNames) /\ DOMAIN m = 1 .. Len(m) /\ Len(m) \in Nat
    BY <1>2, RangeOf DEF SeedTypes
<1>4. CASE script' = MigrateWith(m) /\ migrateFile' = NoFile /\ migrated' = seed.version
    <2>1. SubSeq(m, 0 + 1, Len(m)) = m
        BY <1>3, SubSeqFull
    <2>2. MigrationTypes' /\ MigrationKeeps'
        <3>1. script' = MigrateWith(SubSeq(seed.manifest, 0 + 1, Len(seed.manifest)))
            BY <1>4, <2>1
        <3>2. 0 <= Len(seed.manifest) /\ 0 \in Nat
              /\ \A i \in 1 .. 0 : Applied(seed.manifest[i])'
            BY <1>3
        <3> HIDE DEF m
        <3> QED
            BY <1>1, <1>2, <3>1, <3>2, BegunAfter
    <2>3. script'.name = "migrate"
        BY <1>4 DEF MigrateWith
    <2>4. SeedTypes'
        <3>1. (\A n : Given(n)' = Given(n)) /\ (RefreshTypes => RefreshTypes')
            BY <1>1 DEF Given, HasObject, RefreshTypes
        <3> QED
            BY <1>1, <1>2, <1>4, <2>3, <3>1 DEF SeedTypes
    <2>5. CheckpointCovers'
        BY <1>4 DEF CheckpointCovers
    <2> QED
        BY <2>2, <2>4, <2>5 DEF MigrationInv
<1>5. CASE migrateFile # NoFile /\ UNCHANGED <<migrateFile, migrated, late>>
           /\ migrateFile.last \in Range(m)
           /\ script' = MigrateWith(ChunksAfter(m, migrateFile.last))
    <2> DEFINE last == migrateFile.last
               I == {i \in 1 .. Len(m) : m[i] = last}
               k == Min(I)
    <2>1. k \in I /\ \A i \in I : k <= i
        <3>1. I \subseteq Nat /\ I # {}
            BY <1>3, <1>5 DEF Range
        <3> HIDE DEF I
        <3>2. \E i \in I : \A j \in I : i <= j
            BY <3>1, NatMin
        <3> QED
            BY <3>2 DEF Min
    <2>2. SelectInSeq(m, LAMBDA n : n = last) = k
        BY <2>1 DEF SelectInSeq
    <2> HIDE DEF k
    <2>3. k \in Nat /\ k <= Len(m) /\ k \in DOMAIN m /\ m[k] = last
        BY <2>1, <1>3
    <2>4. script' = MigrateWith(SubSeq(m, k + 1, Len(m)))
        BY <1>5, <2>2 DEF ChunksAfter
    <2>5. ASSUME NEW i \in 1 .. k, i # k
          PROVE  Precedes(m[i], last)
        <3>1. i \in DOMAIN m /\ i < k /\ \A l \in 1 .. i - 1 : l \in 1 .. Len(m) /\ ~(k <= l)
            BY <2>3, <2>5, <1>3
        <3>2. \A l \in 1 .. i - 1 : m[l] # last
            BY <3>1, <2>1
        <3>3. CASE m[i][1] # "refresh"
            BY <3>1, <3>2, <3>3 DEF Precedes, Before
        <3>4. CASE m[i][1] = "refresh"
            <4>1. Listed(m, seed.day)
                BY <1>2 DEF SeedTypes
            <4>2. seed.day \in Days /\ RefreshDays <= seed.day /\ seed.day <= seed.day
                BY <3>1, <3>4, <4>1 DEF Listed, Days
            <4>3. \E s, t \in RefreshStarts(seed.day) :
                      /\ s < t /\ m[i] = RefreshChunk(s, seed.day)
                      /\ m[k] = RefreshChunk(t, seed.day)
                BY <2>3, <3>1, <3>4, <4>1 DEF Listed
            <4> QED
                BY <2>3, <4>2, <4>3 DEF Precedes, GoesBefore
        <3> QED
            BY <3>3, <3>4
    <2>6. SameExport => \A i \in 1 .. k : Applied(m[i])'
        <3>1. SameExport => \A i \in 1 .. k : Applied(m[i])
            BY <1>5, <2>3, <2>5 DEF MigrationInv, CheckpointCovers
        <3>2. \A n : Applied(n)' = Applied(n)
            BY <1>1, <1>5 DEF Applied
        <3> QED
            BY <3>1, <3>2, <1>1
    <2>7. MigrationTypes' /\ MigrationKeeps'
        <3>1. SameExport' = SameExport
            BY <1>1, <1>5 DEF SameExport
        <3> QED
            BY <1>1, <1>2, <2>3, <2>4, <2>6, <3>1, BegunAfter
    <2>8. script'.name # "export"
        BY <2>4 DEF MigrateWith
    <2>9. SeedTypes' /\ CheckpointCovers'
        BY <1>1, <1>2, <1>5, <2>8, SeedUntouched
    <2> QED
        BY <2>7, <2>9 DEF MigrationInv
<1>6. CASE UNCHANGED <<migrateFile, migrated, late>> /\ script' = Idle
    <2>1. script'.name = "none"
        BY <1>6 DEF Idle
    <2> QED
        BY <1>1, <1>2, <1>6, <2>1, NotMigrating
<1> QED
    BY <1>4, <1>5, <1>6 DEF MigrateStarts

\* What a step keeps that leaves the chunks of the migration as they are.
LEMMA SameChunks ==
    ASSUME PushInv, MigrationInv, script.name = "migrate",
           UNCHANGED <<seed, exports, refresh, late, migrated>>, TargetGrows,
           script'.all = script.all, script'.pending = script.pending
    PROVE  /\ SameExport' = SameExport /\ DoneChunks' = DoneChunks
           /\ OrderKept => OrderKept'
           /\ DoneApplied => DoneApplied'
<1>1. SameExport' = SameExport /\ DoneChunks' = DoneChunks
    BY DEF SameExport, DoneChunks
<1>2. OrderKept => OrderKept'
    <2>1. \A m, n : Precedes(m, n)' = Precedes(m, n)
        BY DEF Precedes
    <2> QED
        BY <2>1 DEF OrderKept
<1>3. DoneApplied => DoneApplied'
    <2>1. \A n : Applied(n) => Applied(n)'
        BY DEF Applied, AppliedTo, TargetGrows
    <2> QED
        BY <1>1, <2>1 DEF DoneApplied
<1> QED
    BY <1>1, <1>2, <1>3

\* The lines that are read are those of the one chunk of that name.
LEMMA MigrateReadsStep ==
    ASSUME PushInv, MigrationInv, MigrateReads
    PROVE  MigrationInv'
<1> DEFINE name == Head(script.pending)
<1>1. /\ script.name = "migrate" /\ script.pc = "read"
      /\ UNCHANGED <<seed, exports, refresh, late, migrated, migrateFile, target>>
    BY DEF MigrateReads, MigrateElsewhere, Counters
<1>2. TargetGrows /\ SeedTypes
    BY <1>1 DEF TargetGrows, MigrationInv, SeedTypes
<1>3. CASE script' = Idle
    <2>1. script'.name = "none"
        BY <1>3 DEF Idle
    <2> QED
        BY <1>1, <1>2, <2>1, NotMigrating
<1>4. CASE HasObject(name) /\ script' = [script EXCEPT !.pc = "import", !.lines = LinesOf(name)]
    <2>1. /\ MigrationTypes /\ MigrationKeeps /\ {"name", "pc"} \subseteq DOMAIN script
        BY <1>1, Pending
    <2>2. /\ DOMAIN script' = DOMAIN script /\ script'.name = "migrate" /\ script'.pc = "import"
          /\ script'.all = script.all /\ script'.pending = script.pending
          /\ script'.left = script.left /\ script'.lines = LinesOf(name)
        BY <1>1, <1>4, <2>1 DEF MigrationTypes
    <2>3. PICK o \in seed.objects : o.name = name /\ LinesOf(name) = o.lines
        <3>1. \E o \in seed.objects : o.name = name
            BY <1>4 DEF HasObject
        <3> QED
            BY <3>1 DEF LinesOf
    <2>4. o.lines \in Seq(Records) /\ \A p \in seed.objects : p.name = name => p = o
        BY <1>2, <2>3 DEF SeedTypes, ChunkFiles
    <2>5. MigrationTypes'
        BY <1>1, <2>1, <2>2, <2>3, <2>4 DEF MigrationTypes, Given, HasObject
    <2>6. /\ SameExport' = SameExport /\ DoneChunks' = DoneChunks
          /\ OrderKept => OrderKept'
          /\ DoneApplied => DoneApplied'
        BY <1>1, <1>2, <2>2, SameChunks
    <2>7. PendingEndsManifest'
        BY <1>1, <2>1, <2>2, <2>6 DEF MigrationKeeps, PendingEndsManifest
    <2>8. HeadCovered'
        <3>1. \A p \in seed'.objects : p.name = name => p.lines = o.lines
            BY <1>1, <2>4
        <3> QED
            BY <2>2, <2>3, <3>1 DEF HeadCovered, AppliedTo
    <2>9. MigrationKeeps'
        BY <2>1, <2>6, <2>7, <2>8 DEF MigrationKeeps
    <2>10. SeedTypes' /\ CheckpointCovers'
        BY <1>1, <1>2, <2>2, SeedUntouched
    <2> QED
        BY <2>5, <2>9, <2>10 DEF MigrationInv
<1> QED
    BY <1>3, <1>4 DEF MigrateReads

\* A batch of the lines goes to the store; the rest is left.
LEMMA MigrateImportsStep ==
    ASSUME PushInv, MigrationInv, MigrateImports
    PROVE  MigrationInv'
<1> DEFINE n == IF UpsertBatch < Len(script.lines) THEN UpsertBatch ELSE Len(script.lines)
           batch == SubSeq(script.lines, 1, n)
           rest == SubSeq(script.lines, n + 1, Len(script.lines))
<1>1. /\ script.name = "migrate" /\ script.pc = "import"
      /\ UNCHANGED <<seed, exports, refresh, late, migrated, migrateFile>>
      /\ target' = Imported(target, Range(batch))
      /\ \/ script' = [script EXCEPT !.lines = rest,
                             !.pc = IF rest = <<>> THEN "save" ELSE "import"]
         \/ script' = Idle
    BY DEF MigrateImports, MigrateElsewhere, Counters, Dies
<1>2. /\ SeedTypes /\ MigrationTypes /\ MigrationKeeps /\ {"name", "pc"} \subseteq DOMAIN script
      /\ script.pending # <<>>
    <2>1. SeedTypes /\ MigrationTypes /\ MigrationKeeps /\ {"name", "pc"} \subseteq DOMAIN script
        BY <1>1, Pending DEF MigrationInv
    <2> QED
        BY <1>1, <2>1 DEF MigrationKeeps, PendingEndsManifest
<1>3. /\ TargetGrows /\ target'.rows = target.rows \cup Range(batch)
    <2>1. "rows" \in DOMAIN target
        BY <1>2 DEF SeedTypes
    <2>2. \A rs : "rows" \in DOMAIN Imported(target, rs)
                  /\ Imported(target, rs).rows = target.rows \cup rs
        BY <2>1, ImportsKeepRows
    <2>3. target' = Imported(target, Range(batch))
        BY <1>1
    <2> HIDE DEF batch
    <2>4. "rows" \in DOMAIN target' /\ target'.rows = target.rows \cup Range(batch)
        BY <2>2, <2>3
    <2> QED
        BY <2>4 DEF TargetGrows
<1>4. rest \in Seq(Records) /\ Range(script.lines) = Range(batch) \cup Range(rest)
    <2>1. script.lines \in Seq(Records) /\ Len(script.lines) \in Nat /\ UpsertBatch \in Nat
        BY <1>2, LenProperties, ReplicationAssumption DEF MigrationTypes
    <2>2. n \in Nat /\ n <= Len(script.lines)
        <3>1. \A k, l \in Nat : (IF k < l THEN k ELSE l) \in Nat /\ (IF k < l THEN k ELSE l) <= l
            OBVIOUS
        <3> QED
            BY <2>1, <3>1
    <2> HIDE DEF n
    <2> QED
        BY <2>1, <2>2, CutLines
<1> HIDE DEF batch, rest
<1>5. CASE script' = Idle
    <2>1. script'.name = "none"
        BY <1>5 DEF Idle
    <2> QED
        BY <1>1, <1>3, <2>1, NotMigrating
<1>6. CASE script' = [script EXCEPT !.lines = rest,
                            !.pc = IF rest = <<>> THEN "save" ELSE "import"]
    <2>1. /\ DOMAIN script' = DOMAIN script /\ script'.name = "migrate"
          /\ script'.pc = IF rest = <<>> THEN "save" ELSE "import"
          /\ script'.all = script.all /\ script'.pending = script.pending
          /\ script'.left = script.left /\ script'.lines = rest
        BY <1>1, <1>2, <1>6 DEF MigrationTypes
    <2>2. script'.pc \in {"save", "import"}
        BY <2>1
    <2>3. MigrationTypes'
        BY <1>1, <1>2, <1>4, <2>1, <2>2 DEF MigrationTypes, Given, HasObject
    <2>4. /\ SameExport' = SameExport /\ DoneChunks' = DoneChunks
          /\ OrderKept => OrderKept'
          /\ DoneApplied => DoneApplied'
        BY <1>1, <1>3, <2>1, SameChunks
    <2>5. PendingEndsManifest'
        BY <1>1, <1>2, <2>1, <2>2, <2>4 DEF MigrationKeeps, PendingEndsManifest
    <2>6. SameExport => HeadCovered'
        <3>1. SUFFICES ASSUME SameExport PROVE HeadCovered'
            OBVIOUS
        <3>2. AppliedTo(target'.rows \cup Range(rest), seed'.objects, late', Head(script'.pending))
            <4>1. AppliedTo(target.rows \cup Range(script.lines), seed.objects, late,
                            Head(script.pending))
                BY <1>1, <1>2, <3>1 DEF MigrationKeeps, HeadCovered
            <4>2. target.rows \cup Range(script.lines) = target'.rows \cup Range(rest)
                BY <1>3, <1>4
            <4> QED
                BY <4>1, <4>2, <1>1, <2>1
        <3>3. ASSUME rest = <<>>
              PROVE  Applied(Head(script.pending))'
            <4>1. Range(rest) = {}
                BY <3>3 DEF Range
            <4> QED
                BY <3>2, <4>1, <2>1 DEF AppliedTo, Applied
        <3> QED
            BY <2>1, <3>2, <3>3 DEF HeadCovered, Applied
    <2>7. MigrationKeeps'
        BY <1>2, <2>4, <2>5, <2>6 DEF MigrationKeeps
    <2>8. SeedTypes' /\ CheckpointCovers'
        BY <1>1, <1>3, <2>1, SeedUntouched DEF SeedTypes
    <2> QED
        BY <2>3, <2>7, <2>8 DEF MigrationInv
<1> QED
    BY <1>1, <1>5, <1>6

\* A chunk of which nothing is left is done with, and the checkpoint says so.
LEMMA MigrateSavesStep ==
    ASSUME PushInv, MigrationInv, MigrateSaves
    PROVE  MigrationInv'
<1> DEFINE head == Head(script.pending)
           rest == Tail(script.pending)
<1>1. /\ script.name = "migrate" /\ script.pc = "save"
      /\ UNCHANGED <<seed, exports, refresh, late, migrated, target>>
      /\ migrateFile' = [phase |-> "chunks", last |-> head]
      /\ \/ rest = <<>> /\ script' = [script EXCEPT !.pc = "done", !.pending = <<>>]
         \/ rest # <<>> /\ script' = [script EXCEPT !.pc = "read", !.pending = rest,
                                                    !.left = @ - 1]
         \/ script' = Idle
    BY DEF MigrateSaves, MigrateElsewhere, Counters
<1>2. /\ SeedTypes /\ MigrationTypes /\ MigrationKeeps /\ {"name", "pc"} \subseteq DOMAIN script
      /\ script.pending # <<>> /\ script.pending \in Seq(ChunkNames)
    <2>1. SeedTypes /\ MigrationTypes /\ MigrationKeeps /\ {"name", "pc"} \subseteq DOMAIN script
        BY <1>1, Pending DEF MigrationInv
    <2> QED
        BY <1>1, <2>1 DEF MigrationKeeps, PendingEndsManifest, MigrationTypes
<1>3. /\ DOMAIN script.all = 1 .. Len(script.all) /\ Len(script.all) \in Nat
      /\ DOMAIN script.pending = 1 .. Len(script.pending) /\ Len(script.pending) \in Nat
      /\ DoneChunks \in Nat /\ DoneChunks + Len(script.pending) = Len(script.all)
      /\ DoneChunks + 1 \in DOMAIN script.all
      /\ head = script.all[DoneChunks + 1] /\ Given(head)
    BY <1>1, <1>2, Pending
<1>4. /\ rest \in Seq(ChunkNames) /\ Len(rest) = Len(script.pending) - 1
      /\ \A i \in 1 .. Len(rest) : rest[i] = script.pending[i + 1]
      /\ DOMAIN rest = 1 .. Len(rest) /\ Len(rest) \in Nat
    BY <1>2, HeadTailProperties, LenProperties
<1> HIDE DEF head, rest
<1>5. /\ \A n : Given(n)' = Given(n) /\ Applied(n)' = Applied(n)
      /\ \A m, n : Precedes(m, n)' = Precedes(m, n)
      /\ RefreshTypes => RefreshTypes'
    BY <1>1 DEF Given, HasObject, Applied, Precedes, RefreshTypes
<1>6. SameExport' = SameExport
    BY <1>1 DEF SameExport
<1>7. SameExport => \A i \in 1 .. DoneChunks + 1 : Applied(script.all[i])
    <2>1. SUFFICES ASSUME SameExport PROVE \A i \in 1 .. DoneChunks + 1 : Applied(script.all[i])
        OBVIOUS
    <2>2. Applied(head) /\ \A i \in 1 .. DoneChunks : Applied(script.all[i])
        BY <1>1, <1>2, <2>1 DEF MigrationKeeps, DoneApplied, HeadCovered, head
    <2>3. \A i \in 1 .. DoneChunks + 1 : i \in 1 .. DoneChunks \/ i = DoneChunks + 1
        BY <1>3
    <2> QED
        BY <2>2, <2>3, <1>3
<1>8. CheckpointCovers'
    <2>1. migrateFile' \in [phase : {"chunks"}, last : ChunkNames] /\ migrateFile'.last = head
        BY <1>1, <1>3 DEF Given
    <2>2. SameExport =>
              /\ Applied(head)
              /\ \A m : Precedes(m, head) => \E i \in 1 .. DoneChunks + 1 : script.all[i] = m
        <3>1. SameExport => OrderKept
            BY <1>2 DEF MigrationKeeps
        <3>2. DoneChunks + 1 \in 1 .. DoneChunks + 1
            BY <1>3
        <3> QED
            BY <3>1, <3>2, <1>3, <1>7 DEF OrderKept
    <2>3. \A i \in 1 .. DoneChunks + 1 : Given(script.all[i])
        <3>1. \A i \in 1 .. DoneChunks + 1 : i \in DOMAIN script.all
            BY <1>3
        <3> QED
            BY <3>1, <1>2 DEF MigrationTypes
    <2>4. SameExport => \A m : Precedes(m, head) => Given(m) /\ Applied(m)
        BY <2>2, <2>3, <1>7
    <2> QED
        BY <1>3, <1>5, <1>6, <2>1, <2>2, <2>4 DEF CheckpointCovers
<1>9. ASSUME script'.name # "export"
      PROVE  SeedTypes'
    BY <1>1, <1>2, <1>5, <1>9 DEF SeedTypes
<1>10. CASE script' = Idle
    <2>1. script'.name = "none"
        BY <1>10 DEF Idle
    <2> QED
        BY <1>8, <1>9, <2>1 DEF MigrationInv
<1>11. CASE script' # Idle
    <2>1. /\ DOMAIN script' = DOMAIN script /\ script'.name = "migrate"
          /\ script'.pc = IF rest = <<>> THEN "done" ELSE "read"
          /\ script'.all = script.all /\ script'.pending = rest
          /\ script'.lines = script.lines
        <3>1. CASE rest = <<>> /\ script' = [script EXCEPT !.pc = "done", !.pending = <<>>]
            BY <1>1, <1>2, <3>1 DEF MigrationTypes
        <3>2. CASE rest # <<>> /\ script' = [script EXCEPT !.pc = "read", !.pending = rest,
                                                           !.left = @ - 1]
            BY <1>1, <1>2, <3>2 DEF MigrationTypes
        <3> QED
            BY <1>1, <1>11, <3>1, <3>2
    <2>2. MigrationTypes'
        <3>1. script'.pc \in {"read", "import", "save", "done", "finalize"}
            BY <2>1
        <3> QED
            BY <1>1, <1>2, <1>4, <2>1, <3>1 DEF MigrationTypes, Given, HasObject
    <2>3. DoneChunks' = DoneChunks + 1
        <3>1. \A m, n \in Nat : m - (n - 1) = (m - n) + 1
            OBVIOUS
        <3> QED
            BY <1>3, <1>4, <2>1, <3>1 DEF DoneChunks
    <2>4. PendingEndsManifest'
        <3>1. Len(rest) <= Len(script.all)
            <4>1. \A d, m, n \in Nat : d + m = n => m - 1 <= n
                OBVIOUS
            <4> QED
                BY <1>3, <1>4, <4>1
        <3>2. \A i \in DOMAIN rest : rest[i] = script.all[DoneChunks + 1 + i]
            <4>1. ASSUME NEW i \in DOMAIN rest
                  PROVE  i + 1 \in DOMAIN script.pending /\ DoneChunks + (i + 1) = DoneChunks + 1 + i
                <5>1. \A m \in Nat : \A j \in 1 .. m - 1 : j + 1 \in 1 .. m
                    OBVIOUS
                <5>2. \A d \in Nat : d + (i + 1) = d + 1 + i
                    BY <1>4
                <5> QED
                    BY <5>1, <5>2, <1>3, <1>4
            <4> QED
                BY <4>1, <1>2, <1>4 DEF MigrationKeeps, PendingEndsManifest
        <3> QED
            BY <2>1, <2>3, <3>1, <3>2 DEF PendingEndsManifest
    <2>5. SameExport => DoneApplied'
        BY <1>5, <1>7, <2>1, <2>3 DEF DoneApplied
    <2>6. SameExport => OrderKept'
        <3>1. SameExport => OrderKept
            BY <1>2 DEF MigrationKeeps
        <3>2. script'.all = script.all
            BY <2>1
        <3>3. OrderKept => OrderKept'
            BY <1>5, <3>2 DEF OrderKept
        <3> QED
            BY <3>1, <3>3
    <2>7. HeadCovered'
        BY <2>1 DEF HeadCovered
    <2>8. MigrationKeeps'
        BY <1>6, <2>4, <2>5, <2>6, <2>7 DEF MigrationKeeps
    <2> QED
        BY <1>8, <1>9, <2>1, <2>2, <2>8 DEF MigrationInv
<1> QED
    BY <1>10, <1>11

LEMMA MigrateImportsMarksStep ==
    ASSUME PushInv, MigrationInv, MigrateImportsMarks
    PROVE  MigrationInv'
<1>1. /\ script.name = "migrate" /\ script.pc = "done"
      /\ UNCHANGED <<seed, exports, refresh, late, migrated, migrateFile>>
      /\ target' = ImportedWatermarks(target, seed.marks)
      /\ script' = Idle \/ script' = [script EXCEPT !.pc = "finalize"]
    BY DEF MigrateImportsMarks, MigrateElsewhere, Counters
<1>2. SeedTypes /\ MigrationTypes /\ MigrationKeeps /\ {"name", "pc"} \subseteq DOMAIN script
    BY <1>1, Pending DEF MigrationInv
<1>3. TargetGrows
    BY <1>1, <1>2, ImportsKeepRows DEF SeedTypes, TargetGrows
<1>4. CASE script' = Idle
    <2>1. script'.name = "none"
        BY <1>4 DEF Idle
    <2> QED
        BY <1>1, <1>3, <2>1, NotMigrating
<1>5. CASE script' = [script EXCEPT !.pc = "finalize"]
    <2>1. /\ DOMAIN script' = DOMAIN script /\ script'.name = "migrate"
          /\ script'.pc = "finalize"
          /\ script'.all = script.all /\ script'.pending = script.pending
          /\ script'.left = script.left /\ script'.lines = script.lines
        BY <1>1, <1>2, <1>5 DEF MigrationTypes
    <2>2. MigrationTypes'
        BY <1>1, <1>2, <2>1 DEF MigrationTypes, Given, HasObject
    <2>3. /\ SameExport' = SameExport /\ DoneChunks' = DoneChunks
          /\ OrderKept => OrderKept'
          /\ DoneApplied => DoneApplied'
        BY <1>1, <1>3, <2>1, SameChunks
    <2>4. PendingEndsManifest' /\ HeadCovered'
        BY <1>1, <1>2, <2>1, <2>3 DEF MigrationKeeps, PendingEndsManifest, HeadCovered
    <2>5. MigrationKeeps'
        BY <1>2, <2>3, <2>4 DEF MigrationKeeps
    <2>6. SeedTypes' /\ CheckpointCovers'
        BY <1>1, <1>3, <2>1, SeedUntouched
    <2> QED
        BY <2>2, <2>5, <2>6 DEF MigrationInv
<1> QED
    BY <1>1, <1>4, <1>5

LEMMA MigrateFinalizesStep ==
    ASSUME PushInv, MigrationInv, MigrateFinalizes
    PROVE  MigrationInv'
<1>1. /\ UNCHANGED <<seed, exports, refresh, late, migrated>> /\ migrateFile' = NoFile
      /\ target' \in FinalizedImport(target) /\ script' = Idle
    BY DEF MigrateFinalizes, MigrateElsewhere, Counters, Dies
<1>2. TargetGrows
    BY <1>1, ImportsKeepRows DEF MigrationInv, SeedTypes, TargetGrows
<1> QED
    BY <1>1, <1>2, NotMigrating DEF Idle

\* A sync writes the same store, and a push and the source other ones.
LEMMA SyncMigrationStep ==
    ASSUME PushInv, MigrationInv, Sync
    PROVE  MigrationInv'
<1>1. /\ UNCHANGED <<seed, exports, refresh, late, migrated, migrateFile>>
      /\ script'.name \in {"sync", "none"}
    BY SyncName DEF Sync, SyncStarts, SyncExports, SyncImports, SyncCopiesMarks,
                    SyncFinalizes, SyncElsewhere, Counters, Start
<1>2. \/ target' = target
      \/ \E rs : target' = Imported(target, rs)
      \/ \E ws : target' = ImportedWatermarks(target, ws)
      \/ target' \in FinalizedImport(target)
    BY DEF Sync, SyncStarts, SyncExports, SyncImports, SyncCopiesMarks, SyncFinalizes,
           ImportSnapshot, ImportStored
<1>3. TargetGrows
    <2>1. "rows" \in DOMAIN target
        BY DEF MigrationInv, SeedTypes
    <2> QED
        BY <1>2, <2>1, ImportsKeepRows DEF TargetGrows
<1> QED
    BY <1>1, <1>3, NotMigrating

LEMMA PushMigrationStep ==
    ASSUME PushInv, MigrationInv, Push
    PROVE  MigrationInv'
<1>1. /\ UNCHANGED <<seed, exports, refresh, late, migrated, migrateFile, target>>
      /\ script'.name \in {"push", "none"}
    BY PushName DEF Push, PushStarts, PushExports, PushImports, PushSaves,
                    PushEntersWatermarks, PushExportsMarks, PushImportsMarks, PushSavesMarks,
                    PushFinalizes, PushClears, Elsewhere, Counters, Start
<1>2. TargetGrows
    BY <1>1 DEF MigrationInv, SeedTypes, TargetGrows
<1> QED
    BY <1>1, <1>2, NotMigrating

LEMMA StepKeepsMigrationInv ==
    ASSUME PushInv, ExportInv, MigrationInv, [Next]_vars
    PROVE  MigrationInv'
<1>1. ASSUME NEW d \in Days, SourceIngests(d)
      PROVE  MigrationInv'
    BY <1>1, MigrationWaits DEF SourceIngests, Counters
<1>2. CASE UNCHANGED vars
    BY <1>2, MigrationWaits DEF vars
<1>3. CASE ScriptKilled
    <2>1. /\ UNCHANGED <<seed, exports, refresh, late, migrated, target>> /\ script' = Idle
          /\ migrateFile' = migrateFile \/ migrateFile' = NoFile
        BY <1>3 DEF ScriptKilled, Dies
    <2>2. TargetGrows /\ script'.name = "none"
        BY <2>1 DEF MigrationInv, SeedTypes, TargetGrows, Idle
    <2> QED
        BY <2>1, <2>2, NotMigrating
<1>4. CASE Refresh
    BY <1>4, SeedPlansStep, SeedStoresStep, SeedPublishesStep DEF Refresh
<1>5. CASE Migrate
    BY <1>5, MigrateStartsStep, MigrateReadsStep, MigrateImportsStep, MigrateSavesStep,
       MigrateImportsMarksStep, MigrateFinalizesStep DEF Migrate
<1> QED
    BY <1>1, <1>2, <1>3, <1>4, <1>5, PushMigrationStep, ExportMigrationStep,
       SyncMigrationStep DEF Next

\* What a migration has applied is known from the chunks that are pending, and from the
\* chunk in the checkpoint, at every step.
THEOREM MigrationInvariant == Spec => []MigrationInv
<1>1. Init => MigrationInv
    <2> SUFFICES ASSUME Init PROVE MigrationInv
        OBVIOUS
    <2>1. /\ seed = [manifest |-> <<>>, objects |-> {}, marks |-> {}, version |-> 0, day |-> 0]
          /\ refresh = [to |-> 0, next |-> 1, chunks |-> <<>>]
          /\ exports = 0 /\ migrated = 0 /\ migrateFile = NoFile
          /\ script.name = "none" /\ "rows" \in DOMAIN target
        BY DEF Init, EmptySeed, NoRefresh, Idle, EmptyStore
    <2>2. <<>> \in Seq(ChunkNames)
        BY EmptySeq
    <2>3. SeedTypes
        BY <2>1, <2>2 DEF SeedTypes, Listed, RefreshTypes
    <2> QED
        BY <2>1, <2>3 DEF MigrationInv, CheckpointCovers
<1>2. PushInv /\ ExportInv /\ MigrationInv /\ [Next]_vars => MigrationInv'
    BY StepKeepsMigrationInv
<1> QED
    BY <1>1, <1>2, PushInvariant, ExportInvariant, PTL DEF Spec

\* When a migration reports its end, the store beside it has what the chunks of the
\* manifest it read have held since it was begun, over any number of runs, unfinished
\* chunks, torn checkpoints and refreshes that list other chunks. Left out is what a
\* refresh put into a chunk that was there, and a manifest with chunks of another export.
THEOREM MigrationAppliesAll == Spec => []MigrationIsComplete
<1>1. PushInv /\ MigrationInv => MigrationIsComplete
    <2>1. SUFFICES ASSUME PushInv, MigrationInv, script.name = "migrate", script.pc = "done",
                          SameExport
                   PROVE  \A o \in seed.objects : o.name \in Range(script.all) =>
                              Range(o.lines) \ PutLate(o.name) \subseteq target.rows
        BY DEF MigrationIsComplete, SameExport
    <2>2. /\ MigrationKeeps /\ DOMAIN script.all = 1 .. Len(script.all)
          /\ DoneChunks \in Nat /\ DoneChunks + Len(script.pending) = Len(script.all)
        BY <2>1, Pending
    <2>3. script.pending = <<>>
        BY <2>1, <2>2 DEF MigrationKeeps, PendingEndsManifest
    <2>4. DoneChunks = Len(script.all)
        <3>1. Len(<<>>) = 0
            OBVIOUS
        <3> QED
            BY <2>2, <2>3, <3>1
    <2>5. \A n \in Range(script.all) : Applied(n)
        BY <2>1, <2>2, <2>4 DEF MigrationKeeps, DoneApplied, Range
    <2> QED
        BY <2>5 DEF PutLate, Applied, AppliedTo
<1> QED
    BY <1>1, PushInvariant, MigrationInvariant, PTL

=============================================================================
