----------------------------- MODULE LiveFeed -----------------------------
(***************************************************************************)
(* How a dashboard snapshot reaches a browser: the publisher, the sockets, *)
(* and the client (src/client/use-live-socket.ts) with its two stores.     *)
(*                                                                         *)
(* Two servers can be at the other end. In store mode the ParkingStore     *)
(* keeps the snapshot, accepts a socket and sends the snapshot in one      *)
(* turn, and broadcasts each new one. In seed mode the snapshot is an R2   *)
(* object behind a cache, which the SeedRefreshCoordinator reads, with     *)
(* awaits, before it accepts a socket and after a refresh has written it.  *)
(*                                                                         *)
(* A snapshot is its version; TimeOf is its lastSyncedAt, the same for two *)
(* versions when only locations changed in between, and Empty are those    *)
(* without rows. Left out: ping and pong, which change nothing, and        *)
(* messages that do not parse.                                             *)
(***************************************************************************)
EXTENDS Integers, Sequences, FiniteSets

CONSTANTS
    Modes,          \* {"store", "seed"}
    TimeOf,         \* of every version, a sequence of numbers that never falls
    Empty,          \* the versions whose weight is 0
    MaxSockets,     \* sockets the browser holds at once
    MaxTroubles     \* bound, by mode: drops, unmounts, reloads and failed writes together

ASSUME FeedAssumption ==
    /\ Modes \subseteq {"store", "seed"}
    /\ TimeOf \in Seq(Nat) /\ TimeOf # <<>>
    /\ \A v \in 1 .. Len(TimeOf) - 1 : TimeOf[v] <= TimeOf[v + 1]
    /\ MaxSockets \in Nat
    /\ Empty \subseteq 1 .. Len(TimeOf)

VARIABLES
    mode,
    latest,     \* the newest snapshot: the store's payload, or the R2 object
    cache,      \* the edge cache of the R2 object, 0 when it has no entry
    publisher,  \* the refresh that publishes in seed mode
    sockets,    \* the sockets of the page, both ends
    client,     \* the module state of use-live-socket.ts
    loading,    \* a mounted dashboard still reads the stored snapshot
    indexedDb, localStorage,    \* the stored snapshots, 0 when there is none
    writes,     \* writes to IndexedDB that were begun, in their order
    troubles    \* counted against the bound

vars == <<mode, latest, cache, publisher, sockets, client, loading,
          indexedDb, localStorage, writes, troubles>>

-----------------------------------------------------------------------------
None == 0

Versions == 1 .. Len(TimeOf)

Snapshots == Versions \cup {None}

Sockets == 1 .. MaxSockets

\* getDashboardSnapshotTime; 0 before there is a snapshot
Time(v) == IF v = None THEN 0 ELSE TimeOf[v]

IsFull(v) == v # None /\ v \notin Empty

\* A reader of the R2 object: readSeedObjectText.
Reader(pc, payload) == [pc |-> pc, payload |-> payload]

NoReader == Reader("off", None)

NoSocket == [at |-> "off", server |-> NoReader, inbox |-> <<>>]

\* shown is the last snapshot applied: lastSnapshotTime and Weight are its own.
Fresh(shown, cached) ==
    [mounted |-> FALSE, ws |-> None, connected |-> FALSE, cached |-> cached,
     reconnect |-> FALSE, idleClose |-> FALSE, shown |-> shown]

Init ==
    /\ mode \in Modes
    /\ latest = 1
    /\ cache = None
    /\ publisher = NoReader
    /\ sockets = [s \in Sockets |-> NoSocket]
    /\ client = Fresh(None, FALSE)
    /\ loading = FALSE
    /\ indexedDb = None
    /\ localStorage = None
    /\ writes = <<>>
    /\ troubles = 0

Trouble == troubles < MaxTroubles[mode] /\ troubles' = troubles + 1

Server == <<mode, latest, cache, publisher>>

Storage == <<indexedDb, localStorage, writes>>

-----------------------------------------------------------------------------
(* The R2 object and its cache (seed-r2-client.ts)                         *)

\* readSeedObjectText begins: the cache has the object, or the bucket gives it.
Read == IF cache # None THEN Reader("done", cache) ELSE Reader("put", latest)

\* What the bucket gave is put into the cache, by now perhaps an old version.
Put(reader) ==
    /\ reader.pc = "put"
    /\ cache' = reader.payload

\* max-age has passed.
CacheExpires ==
    /\ cache # None
    /\ cache' = None
    /\ UNCHANGED <<mode, latest, publisher, sockets, client, loading, Storage, troubles>>

-----------------------------------------------------------------------------
(* Publishing                                                              *)

\* Mutant: sockets that were never accepted are sent to as well.
SentToAny(payload) == [s \in Sockets |-> [sockets[s] EXCEPT !.inbox = Append(@, payload)]]

\* The accepted sockets; one whose other end is gone takes nothing.
Sent(payload) ==
    [s \in Sockets |->
        IF sockets[s].server.pc = "accepted" /\ sockets[s].at \in {"connecting", "open"}
        THEN [sockets[s] EXCEPT !.inbox = Append(@, payload)] ELSE sockets[s]]

\* broadcastLiveUpdate
StorePublishes ==
    /\ mode = "store"
    /\ latest < Len(TimeOf)
    /\ latest' = latest + 1
    /\ sockets' = Sent(latest')
    /\ UNCHANGED <<mode, cache, publisher, client, loading, Storage, troubles>>

\* writeViaS3Api: the object is in the bucket before its cache entry is deleted.
SeedWrites ==
    /\ mode = "seed"
    /\ \/ /\ publisher.pc = "off" /\ latest < Len(TimeOf)
          /\ latest' = latest + 1
          /\ publisher' = Reader("delete", None)
          /\ UNCHANGED cache
       \/ /\ publisher.pc = "delete"
          /\ cache' = None
          /\ publisher' = Reader("read", None)
          /\ UNCHANGED latest
    /\ UNCHANGED <<mode, sockets, client, loading, Storage, troubles>>

\* broadcastCurrentSnapshot reads the object back and sends it to the sockets the
\* coordinator has accepted.
SeedPublishes ==
    /\ mode = "seed"
    /\ \/ /\ publisher.pc = "read"
          /\ publisher' = Read
          /\ UNCHANGED <<cache, sockets>>
       \/ /\ Put(publisher)
          /\ publisher' = Reader("done", publisher.payload)
          /\ UNCHANGED sockets
       \/ /\ publisher.pc = "done"
          /\ sockets' = Sent(publisher.payload)
          /\ publisher' = NoReader
          /\ UNCHANGED cache
    /\ UNCHANGED <<mode, latest, client, loading, Storage, troubles>>

-----------------------------------------------------------------------------
(* Upgrading a socket                                                      *)

\* handleWebSocketUpgrade: accepted, and sent the snapshot before anything else.
StoreAccepts(s) ==
    /\ mode = "store"
    /\ sockets[s].at = "connecting" /\ sockets[s].server.pc = "off"
    /\ sockets' = [sockets EXCEPT ![s].server = Reader("accepted", None),
                                  ![s].inbox = <<latest>>]
    /\ UNCHANGED <<Server, client, loading, Storage, troubles>>

\* SeedRefreshCoordinator.fetch: the snapshot is read first.
SeedAccepts(s) ==
    /\ mode = "seed"
    /\ sockets[s].at = "connecting"
    /\ LET server == sockets[s].server
       IN  \/ /\ server.pc = "off"
              /\ sockets' = [sockets EXCEPT ![s].server = Read]
              /\ UNCHANGED cache
           \/ /\ Put(server)
              /\ sockets' = [sockets EXCEPT ![s].server.pc = "done"]
           \/ /\ server.pc = "done"
              /\ sockets' = [sockets EXCEPT ![s].server = Reader("accepted", None),
                                            ![s].inbox = <<server.payload>>]
              /\ UNCHANGED cache
    /\ UNCHANGED <<mode, latest, publisher, client, loading, Storage, troubles>>

\* The connection breaks or is refused; the browser will hear of it.
Drops(s) ==
    /\ sockets[s].at \in {"connecting", "open"}
    /\ Trouble
    /\ sockets' = [sockets EXCEPT ![s] = [NoSocket EXCEPT !.at = "closing"]]
    /\ UNCHANGED <<Server, client, loading, Storage>>

-----------------------------------------------------------------------------
(* The client                                                              *)

\* connect: a socket that is connecting or open is kept, otherwise a new one is
\* made; c and ss are the client and the sockets it starts from.
Connect(c, ss) ==
    LET kept == c.ws # None /\ ss[c.ws].at \in {"connecting", "open"}
        s    == CHOOSE s \in Sockets : ss[s].at = "off"
    IN  IF kept THEN /\ client' = [c EXCEPT !.reconnect = FALSE]
                     /\ sockets' = ss
        ELSE /\ \E t \in Sockets : ss[t].at = "off"
             /\ client' = [c EXCEPT !.reconnect = FALSE, !.ws = s]
             /\ sockets' = [ss EXCEPT ![s].at = "connecting"]

\* acquireLiveSocket, and the read of the stored snapshot begins.
Mounts ==
    /\ ~client.mounted
    /\ Connect([client EXCEPT !.mounted = TRUE, !.idleClose = FALSE], sockets)
    /\ loading' = TRUE
    /\ UNCHANGED <<Server, Storage, troubles>>

\* releaseLiveSocket
Unmounts ==
    /\ client.mounted
    /\ Trouble
    /\ client' = [client EXCEPT !.mounted = FALSE, !.idleClose = TRUE]
    /\ loading' = FALSE
    /\ UNCHANGED <<Server, sockets, Storage>>

\* The idle timer: the socket is closed and forgotten, its close event comes later.
IdleCloses ==
    /\ client.idleClose
    /\ client' = [client EXCEPT !.idleClose = FALSE, !.reconnect = FALSE,
                                !.ws = None, !.connected = FALSE]
    /\ sockets' = IF client.ws # None
                  THEN [sockets EXCEPT ![client.ws] = [NoSocket EXCEPT !.at = "closing"]]
                  ELSE sockets
    /\ UNCHANGED <<Server, loading, Storage, troubles>>

Opens(s) ==
    /\ sockets[s].at = "connecting" /\ sockets[s].server.pc = "accepted"
    /\ sockets' = [sockets EXCEPT ![s].at = "open"]
    /\ client' = [client EXCEPT !.connected = TRUE]
    /\ UNCHANGED <<Server, loading, Storage, troubles>>

\* Mutant: the close event of a replaced socket starts no timer.
ClosesForGood(s) ==
    /\ sockets[s].at = "closing"
    /\ sockets' = [sockets EXCEPT ![s] = NoSocket]
    /\ client' = [client EXCEPT !.connected = FALSE, !.ws = None,
                                !.reconnect = @ \/ (client.mounted /\ client.ws = s)]
    /\ UNCHANGED <<Server, loading, Storage, troubles>>

\* The close event, of whichever socket, also one the client has replaced.
Closes(s) ==
    /\ sockets[s].at = "closing"
    /\ sockets' = [sockets EXCEPT ![s] = NoSocket]
    /\ client' = [client EXCEPT !.connected = FALSE, !.ws = None,
                                !.reconnect = @ \/ client.mounted]
    /\ UNCHANGED <<Server, loading, Storage, troubles>>

Reconnects ==
    /\ client.reconnect
    /\ Connect(client, sockets)
    /\ UNCHANGED <<Server, loading, Storage, troubles>>

\* neither isStale nor isEmptyRegression
IsNews(v) ==
    Time(v) >= Time(client.shown) /\ (v \in Empty => ~IsFull(client.shown))

\* persistDashboardSnapshot begins a write of a snapshot with rows.
Persisted(v) ==
    IF IsFull(v) THEN Append(writes, [version |-> v, migrates |-> FALSE]) ELSE writes

\* onSnapshot
Receives(s) ==
    /\ sockets[s].at = "open" /\ sockets[s].inbox # <<>>
    /\ LET v == Head(sockets[s].inbox)
       IN  /\ sockets' = [sockets EXCEPT ![s].inbox = Tail(@)]
           /\ client' = [client EXCEPT !.cached = FALSE,
                                       !.shown = IF IsNews(v) THEN v ELSE @]
           /\ writes' = IF IsNews(v) THEN Persisted(v) ELSE writes
    /\ UNCHANGED <<Server, loading, indexedDb, localStorage, troubles>>

-----------------------------------------------------------------------------
(* The stored snapshot (dashboard-snapshot-storage.ts)                     *)

\* Mutant: what is shown counts only while the socket is connected.
RestoresOffline(v) == client.connected => Time(v) > Time(client.shown)

\* The effect of useLiveSocket, when the stored snapshot is there: whether it is
\* applied to what is shown by now.
Restores(v) ==
    /\ Time(v) >= Time(client.shown)
    /\ ~(client.connected /\ Time(v) <= Time(client.shown))

\* readDashboardSnapshotFromIndexedDb, and localStorage when it gives nothing
StoredSnapshot == IF indexedDb # None THEN indexedDb ELSE localStorage

\* readPersistedDashboardSnapshot: a copy from localStorage is then written to IndexedDB.
Loads ==
    /\ loading
    /\ loading' = FALSE
    /\ client' = IF StoredSnapshot # None /\ Restores(StoredSnapshot)
                 THEN [client EXCEPT !.shown = StoredSnapshot, !.cached = ~client.connected]
                 ELSE client
    /\ writes' = IF indexedDb = None /\ localStorage # None
                 THEN Append(writes, [version |-> localStorage, migrates |-> TRUE])
                 ELSE writes
    /\ UNCHANGED <<Server, sockets, indexedDb, localStorage, troubles>>

\* writeDashboardSnapshotToIndexedDb ends. What localStorage holds is removed, but for
\* the copy that came from there.
Stores ==
    /\ writes # <<>>
    /\ writes' = Tail(writes)
    /\ indexedDb' = Head(writes).version
    /\ localStorage' = IF Head(writes).migrates THEN localStorage ELSE None
    /\ UNCHANGED <<Server, sockets, client, loading, troubles>>

\* persistDashboardSnapshotToLocalStorage: a snapshot IndexedDB does not take, if
\* localStorage takes it. Of the copy from there the failure is ignored.
StoreFails ==
    /\ writes # <<>>
    /\ Trouble
    /\ writes' = Tail(writes)
    /\ localStorage' \in {localStorage} \cup
          (IF Head(writes).migrates THEN {} ELSE {Head(writes).version})
    /\ UNCHANGED <<Server, sockets, client, loading, indexedDb>>

\* Mutant: main.tsx does not look at localStorage.
BootBlank == Fresh(None, FALSE)

\* main.tsx: restoreDashboardFromCache with the copy in localStorage.
Boot == Fresh(localStorage, localStorage # None)

\* The page is closed and loaded again.
Reloads ==
    /\ Trouble
    /\ client' = Boot
    /\ sockets' = [s \in Sockets |-> NoSocket]
    /\ loading' = FALSE
    /\ writes' = <<>>
    /\ UNCHANGED <<Server, indexedDb, localStorage>>

-----------------------------------------------------------------------------
\* What happens by itself; the rest is up to the user, the network, the cache and
\* the publisher.
Progress ==
    \/ \E s \in Sockets : StoreAccepts(s) \/ SeedAccepts(s) \/ Opens(s) \/ Closes(s)
                          \/ Receives(s)
    \/ IdleCloses \/ Reconnects \/ Loads \/ Stores \/ StoreFails

Next ==
    \/ Progress
    \/ CacheExpires \/ StorePublishes \/ SeedWrites \/ SeedPublishes
    \/ \E s \in Sockets : Drops(s)
    \/ Mounts \/ Unmounts \/ Reloads

Spec == Init /\ [][Next]_vars

\* Events are delivered, timers fire, and reads and writes end.
FairSpec == Spec /\ WF_vars(Progress)

-----------------------------------------------------------------------------
(* Properties                                                              *)

TypeOK ==
    /\ mode \in Modes
    /\ {latest} \subseteq Versions
    /\ {cache, indexedDb, localStorage, client.shown} \subseteq Snapshots
    /\ \A s \in Sockets :
          /\ sockets[s].at \in {"off", "connecting", "open", "closing"}
          /\ sockets[s].server.pc \in {"off", "put", "done", "accepted"}
          /\ \A i \in DOMAIN sockets[s].inbox : sockets[s].inbox[i] \in Versions
    /\ client.ws \in Sockets \cup {None}
    /\ \A s \in Sockets : sockets[s].at = "off" => sockets[s] = NoSocket

\* What the user sees never goes back in time, and never from rows to none, while
\* the page is open: whichever of its sockets, orphaned ones included, the stored
\* copy or a stale cache entry a snapshot comes from.
NoRegression ==
    [][\/ Reloads
       \/ /\ Time(client'.shown) >= Time(client.shown)
          /\ IsFull(client.shown) => IsFull(client'.shown)]_vars

\* A dashboard that has read the stored snapshot shows nothing older than either
\* store holds, although the two are written by turns.
StartsFromNewest ==
    (client.mounted /\ ~loading) =>
        \A v \in {indexedDb, localStorage} : Time(client.shown) >= Time(v)

\* In store mode a mounted dashboard comes to be connected and to show the newest
\* snapshot, if it has rows, whatever drops, late close events and unmounting
\* happened before.
CatchesUp ==
    <>[](mode = "store" /\ client.mounted =>
            client.connected /\ (IsFull(latest) => client.shown = latest))

=============================================================================
