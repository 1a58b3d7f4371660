--------------------------- MODULE LiveFeed_proofs ---------------------------
(***************************************************************************)
(* Theorems about LiveFeed, for any snapshots, any number of sockets and   *)
(* of troubles, and both kinds of server.                                  *)
(*                                                                         *)
(* What is stored or about to be stored has rows, and is no newer than     *)
(* what is shown: the copy in localStorage from the first moment of the    *)
(* page, the one in IndexedDB once it was read.  Neither needs anything of *)
(* the order in which servers send, so a stale cache entry and an orphaned *)
(* socket are covered.                                                     *)
(***************************************************************************)
EXTENDS LiveFeed, TLAPS

Full == Versions \ Empty

Pending == [version : Full, migrates : BOOLEAN]

Readers ==
    [pc : {"put", "done"}, payload : Versions]
        \cup [pc : {"off", "accepted", "delete", "read"}, payload : Snapshots]

SocketStates ==
    [at : {"off", "connecting", "open", "closing"}, server : Readers, inbox : Seq(Versions)]

ClientStates ==
    [mounted : BOOLEAN, ws : Sockets \cup {None}, connected : BOOLEAN, cached : BOOLEAN,
     reconnect : BOOLEAN, idleClose : BOOLEAN, shown : Snapshots]

\* Every message is a snapshot, and what is stored has rows.
ServerTypes ==
    /\ latest \in Versions
    /\ cache \in Snapshots
    /\ publisher \in Readers
    /\ sockets \in [Sockets -> SocketStates]

ClientTypes ==
    /\ client \in ClientStates
    /\ loading \in BOOLEAN
    /\ indexedDb \in Full \cup {None}
    /\ localStorage \in Full \cup {None}
    /\ writes \in Seq(Pending)

\* Nothing stored is newer than what is shown, once it was read.
ShownIsNewest ==
    /\ \A i \in DOMAIN writes : Time(writes[i].version) <= Time(client.shown)
    /\ Time(localStorage) <= Time(client.shown)
    /\ client.mounted /\ ~loading => Time(indexedDb) <= Time(client.shown)

FeedInv == ServerTypes /\ ClientTypes /\ ShownIsNewest

-----------------------------------------------------------------------------
\* Every snapshot has a time.
LEMMA TimeIsNat == \A v \in Snapshots : Time(v) \in Nat
BY FeedAssumption DEF Snapshots, Versions, Time, None

\* 0 is no version, and there is a first one.
LEMMA VersionsAreNumbers == Versions \subseteq Nat /\ None \notin Versions /\ 1 \in Versions
BY FeedAssumption DEF Versions, None

\* What begins a write is a version with rows.
LEMMA PendingWrites ==
    /\ \A p \in Pending : p.version \in Full
    /\ \A v \in Full : [version |-> v, migrates |-> TRUE] \in Pending
    /\ \A v \in Full : [version |-> v, migrates |-> FALSE] \in Pending
BY DEF Pending

\* What is written is known by its place.
LEMMA WritesAreFull ==
    ASSUME ClientTypes
    PROVE  \A i \in DOMAIN writes : writes[i].version \in Full
<1>1. \A i \in DOMAIN writes : writes[i] \in Pending
    BY DEF ClientTypes
<1> QED
    BY <1>1, PendingWrites

\* A version with rows is a snapshot, and full.
LEMMA FullAreShown == Full \subseteq Snapshots /\ \A v \in Full : IsFull(v)
BY VersionsAreNumbers DEF Full, IsFull, Snapshots

\* Reading gives a version, from the cache or the bucket.
LEMMA ReadGivesVersion ==
    ASSUME ServerTypes
    PROVE  Read \in Readers
BY VersionsAreNumbers DEF ServerTypes, Read, Reader, Readers, Snapshots

\* A broadcast appends a version to inboxes and changes nothing else.
LEMMA SentTypes ==
    ASSUME ServerTypes, NEW v \in Versions
    PROVE  Sent(v) \in [Sockets -> SocketStates]
<1>1. ASSUME NEW s \in Sockets
      PROVE  [sockets[s] EXCEPT !.inbox = Append(@, v)] \in SocketStates
    <2>1. sockets[s] \in SocketStates
        BY DEF ServerTypes
    <2>2. Append(sockets[s].inbox, v) \in Seq(Versions)
        BY <2>1 DEF SocketStates
    <2> QED
        BY <2>1, <2>2 DEF SocketStates
<1> QED
    BY <1>1 DEF Sent, ServerTypes

\* A socket that is gone, or whose close event is to come, is one.
LEMMA NoSocketType == NoSocket \in SocketStates /\ [NoSocket EXCEPT !.at = "closing"] \in SocketStates
<1>1. NoReader \in Readers
    BY DEF NoReader, Reader, Readers, Snapshots
<1>2. <<>> \in Seq(Versions)
    OBVIOUS
<1>3. /\ NoSocket = [at |-> "off", server |-> NoReader, inbox |-> <<>>]
      /\ [NoSocket EXCEPT !.at = "closing"]
            = [at |-> "closing", server |-> NoReader, inbox |-> <<>>]
    BY DEF NoSocket
<1> QED
    BY <1>1, <1>2, <1>3 DEF SocketStates

\* The page starts with nothing shown and nothing stored.
LEMMA FeedInit == Init => FeedInv
<1> SUFFICES ASSUME Init PROVE FeedInv
    OBVIOUS
<1>1. ServerTypes
    BY VersionsAreNumbers, NoSocketType DEF Init, ServerTypes, NoReader, Reader, Readers, Snapshots
<1>2. ClientTypes
    <2>1. client \in ClientStates
        BY DEF Init, ClientStates, Fresh, Snapshots
    <2>2. writes \in Seq(Pending)
        BY DEF Init
    <2> QED
        BY <2>1, <2>2 DEF Init, ClientTypes
<1>3. ShownIsNewest
    BY DEF Init, ShownIsNewest, Fresh, Time
<1> QED
    BY <1>1, <1>2, <1>3 DEF FeedInv

-----------------------------------------------------------------------------
(* Every action of the client either leaves what it shows, restores the    *)
(* stored snapshot, receives one, or loads the page.                       *)

\* connect changes the sockets and the references to them only.
LEMMA ConnectTypes ==
    ASSUME NEW c \in ClientStates, NEW ss \in [Sockets -> SocketStates], Connect(c, ss)
    PROVE  /\ client' \in ClientStates /\ sockets' \in [Sockets -> SocketStates]
           /\ client'.shown = c.shown /\ client'.mounted = c.mounted
<1> DEFINE s == CHOOSE s \in Sockets : ss[s].at = "off"
<1>1. CASE client' = [c EXCEPT !.reconnect = FALSE] /\ sockets' = ss
    BY <1>1 DEF ClientStates
<1>2. CASE /\ \E t \in Sockets : ss[t].at = "off"
           /\ client' = [c EXCEPT !.reconnect = FALSE, !.ws = s]
           /\ sockets' = [ss EXCEPT ![s].at = "connecting"]
    <2>1. s \in Sockets
        BY <1>2
    <2>2. ss[s] \in SocketStates
        BY <2>1
    <2>3. [ss[s] EXCEPT !.at = "connecting"] \in SocketStates
        BY <2>2 DEF SocketStates
    <2> HIDE DEF s
    <2>4. sockets' \in [Sockets -> SocketStates]
        BY <1>2, <2>1, <2>3
    <2> QED
        BY <1>2, <2>1, <2>4 DEF ClientStates
<1> QED
    BY <1>1, <1>2 DEF Connect

\* A message is a snapshot, and what it leads to.
LEMMA ReceivesShows ==
    ASSUME FeedInv, NEW s \in Sockets, Receives(s)
    PROVE  /\ client' \in ClientStates /\ sockets' \in [Sockets -> SocketStates]
           /\ client'.mounted = client.mounted
           /\ \/ client'.shown = client.shown /\ writes' = writes
              \/ /\ client'.shown \in Versions /\ IsNews(client'.shown)
                 /\ writes' = Persisted(client'.shown)
<1> DEFINE v == Head(sockets[s].inbox)
<1>1. sockets[s] \in SocketStates /\ sockets[s].inbox # <<>>
    BY DEF FeedInv, ServerTypes, Receives
<1>2. v \in Versions /\ [sockets[s] EXCEPT !.inbox = Tail(@)] \in SocketStates
    BY <1>1 DEF SocketStates
<1>3. sockets' = [sockets EXCEPT ![s].inbox = Tail(@)]
    BY DEF Receives
<1>4. sockets' \in [Sockets -> SocketStates]
    BY <1>2, <1>3 DEF FeedInv, ServerTypes
<1>5. /\ client' = [client EXCEPT !.cached = FALSE, !.shown = IF IsNews(v) THEN v ELSE @]
      /\ writes' = IF IsNews(v) THEN Persisted(v) ELSE writes
    BY DEF Receives
<1> HIDE DEF v
<1> QED
    BY <1>2, <1>4, <1>5 DEF FeedInv, ClientTypes, ClientStates, Snapshots

\* The end of the read either leaves what is shown or restores the stored copy.
LEMMA LoadsShows ==
    ASSUME FeedInv, Loads
    PROVE  /\ client' \in ClientStates /\ client'.mounted = client.mounted
           /\ \/ /\ client'.shown = client.shown
                 /\ StoredSnapshot = None \/ ~Restores(StoredSnapshot)
              \/ /\ client'.shown = StoredSnapshot /\ StoredSnapshot \in Full
                 /\ Restores(StoredSnapshot)
<1>1. StoredSnapshot \in Full \cup {None}
    BY DEF StoredSnapshot, FeedInv, ClientTypes
<1>2. client' = IF StoredSnapshot # None /\ Restores(StoredSnapshot)
                THEN [client EXCEPT !.shown = StoredSnapshot, !.cached = ~client.connected]
                ELSE client
    BY DEF Loads
<1> QED
    BY <1>1, <1>2, FullAreShown DEF FeedInv, ClientTypes, ClientStates

\* The rest of what the client does to itself.
LEMMA QuietClient ==
    ASSUME FeedInv,
           \/ \E s \in Sockets : Opens(s) \/ Closes(s)
           \/ IdleCloses \/ Reconnects \/ Mounts \/ Unmounts
    PROVE  /\ client' \in ClientStates /\ sockets' \in [Sockets -> SocketStates]
           /\ client'.shown = client.shown
           /\ loading' \in BOOLEAN
           /\ client'.mounted /\ ~loading' => client.mounted /\ ~loading
           /\ UNCHANGED <<Server, Storage>>
<1> USE DEF FeedInv, ClientTypes, ServerTypes
<1>1. CASE \E s \in Sockets : Opens(s)
    <2>1. PICK s \in Sockets : Opens(s)
        BY <1>1
    <2>2. [sockets[s] EXCEPT !.at = "open"] \in SocketStates
        BY DEF SocketStates
    <2>3. sockets' \in [Sockets -> SocketStates]
        BY <2>1, <2>2 DEF Opens
    <2> QED
        BY <2>1, <2>3 DEF Opens, ClientStates
<1>2. CASE \E s \in Sockets : Closes(s)
    <2>1. PICK s \in Sockets : Closes(s)
        BY <1>2
    <2>2. client' \in ClientStates /\ client'.shown = client.shown
          /\ client'.mounted = client.mounted
        BY <2>1 DEF Closes, ClientStates
    <2>3. sockets' \in [Sockets -> SocketStates]
        BY <2>1, NoSocketType DEF Closes
    <2> QED
        BY <2>1, <2>2, <2>3 DEF Closes
<1>3. CASE IdleCloses
    BY <1>3, NoSocketType DEF IdleCloses, ClientStates
<1>4. CASE Reconnects
    BY <1>4, ConnectTypes DEF Reconnects
<1>5. CASE Mounts
    <2>1. [client EXCEPT !.mounted = TRUE, !.idleClose = FALSE] \in ClientStates
        BY DEF ClientStates
    <2>2. [client EXCEPT !.mounted = TRUE, !.idleClose = FALSE].shown = client.shown
        BY DEF ClientStates
    <2>3. client' \in ClientStates /\ sockets' \in [Sockets -> SocketStates]
          /\ client'.shown = client.shown
        BY <1>5, <2>1, <2>2, ConnectTypes DEF Mounts
    <2> QED
        BY <1>5, <2>3 DEF Mounts
<1>6. CASE Unmounts
    BY <1>6 DEF Unmounts, ClientStates
<1> QED
    BY <1>1, <1>2, <1>3, <1>4, <1>5, <1>6

\* What a server, the network or the cache does: the client hears of it later.
ServerActs ==
    \/ CacheExpires \/ StorePublishes \/ SeedWrites \/ SeedPublishes
    \/ \E s \in Sockets : StoreAccepts(s) \/ SeedAccepts(s) \/ Drops(s)

\* What the bucket gave is a version.
LEMMA PutTypes ==
    ASSUME ServerTypes, NEW r \in Readers, Put(r)
    PROVE  r.payload \in Versions /\ cache' \in Snapshots
BY VersionsAreNumbers DEF Put, Readers, Snapshots

\* They touch neither the client nor its stores.
LEMMA ServerActsTypes ==
    ASSUME ServerTypes, ServerActs
    PROVE  ServerTypes' /\ UNCHANGED <<client, loading, Storage>>
<1> USE DEF ServerTypes
<1>1. CASE CacheExpires
    BY <1>1 DEF CacheExpires, Snapshots
<1>2. CASE StorePublishes
    <2>1. latest' \in Versions
        BY <1>2, FeedAssumption DEF StorePublishes, Versions
    <2>2. sockets' \in [Sockets -> SocketStates]
        BY <1>2, <2>1, SentTypes DEF StorePublishes
    <2> QED
        BY <1>2, <2>1, <2>2 DEF StorePublishes
<1>3. CASE SeedWrites
    <2>1. latest' \in Versions
        BY <1>3, FeedAssumption DEF SeedWrites, Versions
    <2>2. publisher' \in Readers /\ cache' \in Snapshots
        BY <1>3 DEF SeedWrites, Reader, Readers, Snapshots
    <2> QED
        BY <1>3, <2>1, <2>2 DEF SeedWrites
<1>4. CASE SeedPublishes
    <2>1. CASE publisher' = Read /\ UNCHANGED <<cache, sockets>>
        BY <1>4, <2>1, ReadGivesVersion DEF SeedPublishes
    <2>2. CASE /\ Put(publisher)
               /\ publisher' = Reader("done", publisher.payload)
               /\ UNCHANGED sockets
        <3>1. publisher.payload \in Versions /\ cache' \in Snapshots
            BY <2>2, PutTypes
        <3> QED
            BY <1>4, <2>2, <3>1 DEF SeedPublishes, Reader, Readers
    <2>3. CASE /\ publisher.pc = "done"
               /\ sockets' = Sent(publisher.payload)
               /\ publisher' = NoReader
               /\ UNCHANGED cache
        <3>1. publisher.payload \in Versions
            BY <2>3 DEF Readers
        <3>2. sockets' \in [Sockets -> SocketStates]
            BY <2>3, <3>1, SentTypes
        <3>3. publisher' \in Readers
            BY <2>3 DEF NoReader, Reader, Readers, Snapshots
        <3> QED
            BY <1>4, <2>3, <3>2, <3>3 DEF SeedPublishes
    <2> QED
        BY <1>4, <2>1, <2>2, <2>3 DEF SeedPublishes
<1>5. ASSUME NEW s \in Sockets, StoreAccepts(s) \/ SeedAccepts(s) \/ Drops(s)
      PROVE  ServerTypes' /\ UNCHANGED <<client, loading, Storage>>
    <2>1. sockets[s] \in SocketStates /\ sockets[s].server \in Readers
        BY DEF SocketStates
    <2>2. CASE StoreAccepts(s)
        <3>1. <<latest>> \in Seq(Versions) /\ Reader("accepted", None) \in Readers
            BY DEF Reader, Readers, Snapshots
        <3>2. [sockets[s] EXCEPT !.server = Reader("accepted", None), !.inbox = <<latest>>]
                \in SocketStates
            BY <2>1, <3>1 DEF SocketStates
        <3>3. sockets' = [sockets EXCEPT ![s] =
                [sockets[s] EXCEPT !.server = Reader("accepted", None), !.inbox = <<latest>>]]
            BY <2>1, <2>2 DEF StoreAccepts, SocketStates
        <3> QED
            BY <2>2, <3>2, <3>3 DEF StoreAccepts, Server
    <2>3. CASE SeedAccepts(s)
        <3>1. CASE sockets' = [sockets EXCEPT ![s].server = Read] /\ UNCHANGED cache
            <4>1. [sockets[s] EXCEPT !.server = Read] \in SocketStates
                BY <2>1, ReadGivesVersion DEF SocketStates
            <4> QED
                BY <2>3, <3>1, <4>1 DEF SeedAccepts
        <3>2. CASE Put(sockets[s].server) /\ sockets' = [sockets EXCEPT ![s].server.pc = "done"]
            <4>1. sockets[s].server.payload \in Versions /\ cache' \in Snapshots
                BY <2>1, <3>2, PutTypes
            <4>2. [sockets[s].server EXCEPT !.pc = "done"] \in Readers
                BY <2>1, <4>1 DEF Readers
            <4>3. [sockets[s] EXCEPT !.server.pc = "done"] \in SocketStates
                BY <2>1, <4>2 DEF SocketStates
            <4> QED
                BY <2>3, <3>2, <4>1, <4>3 DEF SeedAccepts
        <3>3. CASE /\ sockets[s].server.pc = "done"
                   /\ sockets' = [sockets EXCEPT ![s].server = Reader("accepted", None),
                                                 ![s].inbox = <<sockets[s].server.payload>>]
                   /\ UNCHANGED cache
            <4>1. sockets[s].server.payload \in Versions
                BY <2>1, <3>3 DEF Readers
            <4>2. <<sockets[s].server.payload>> \in Seq(Versions)
                  /\ Reader("accepted", None) \in Readers
                BY <4>1 DEF Reader, Readers, Snapshots
            <4>3. [sockets[s] EXCEPT !.server = Reader("accepted", None),
                                     !.inbox = <<sockets[s].server.payload>>] \in SocketStates
                BY <2>1, <4>2 DEF SocketStates
            <4>4. sockets' = [sockets EXCEPT ![s] =
                    [sockets[s] EXCEPT !.server = Reader("accepted", None),
                                       !.inbox = <<sockets[s].server.payload>>]]
                BY <2>1, <3>3 DEF SocketStates
            <4> QED
                BY <2>3, <3>3, <4>3, <4>4 DEF SeedAccepts
        <3> QED
            BY <2>3, <3>1, <3>2, <3>3 DEF SeedAccepts
    <2>4. CASE Drops(s)
        BY <2>4, NoSocketType DEF Drops, Server
    <2> QED
        BY <1>5, <2>2, <2>3, <2>4
<1> QED
    BY <1>1, <1>2, <1>3, <1>4, <1>5 DEF ServerActs

-----------------------------------------------------------------------------
(* FeedInv is inductive                                                    *)

\* Times are comparable, so what is older than something shown stays older.
LEMMA StillNewest ==
    ASSUME FeedInv, ClientTypes', UNCHANGED Storage,
           Time(client'.shown) >= Time(client.shown),
           client'.mounted /\ ~loading' => client.mounted /\ ~loading
    PROVE  ShownIsNewest'
<1>1. /\ Time(client.shown) \in Nat /\ Time(client'.shown) \in Nat
      /\ Time(localStorage) \in Nat /\ Time(indexedDb) \in Nat
    BY TimeIsNat, FullAreShown DEF FeedInv, ClientTypes, ClientStates, Snapshots
<1>2. \A i \in DOMAIN writes : Time(writes[i].version) \in Nat
    BY TimeIsNat, FullAreShown, WritesAreFull DEF FeedInv
<1>3. writes' = writes /\ localStorage' = localStorage /\ indexedDb' = indexedDb
    BY DEF Storage
<1>4. /\ \A v : Time(v)' = Time(v')
      /\ Time(localStorage)' = Time(localStorage) /\ Time(indexedDb)' = Time(indexedDb)
    BY <1>3 DEF Time
<1> QED
    BY <1>1, <1>2, <1>3 DEF FeedInv, ShownIsNewest, Time

\* What is received or restored is at least as new as what was shown, and what is
\* begun to be written is what is shown then.
LEMMA ReceivesInv == ASSUME FeedInv, NEW s \in Sockets, Receives(s) PROVE FeedInv'
<1>1. /\ client' \in ClientStates /\ sockets' \in [Sockets -> SocketStates]
      /\ client'.mounted = client.mounted
      /\ UNCHANGED <<Server, loading, indexedDb, localStorage>>
    BY ReceivesShows DEF Receives
<1>2. ServerTypes'
    BY <1>1 DEF FeedInv, ServerTypes, Server
<1>3. CASE client'.shown = client.shown /\ writes' = writes
    <2>1. ClientTypes'
        BY <1>1, <1>3 DEF FeedInv, ClientTypes
    <2>2. Time(client'.shown) >= Time(client.shown)
        BY <1>3, TimeIsNat DEF FeedInv, ClientTypes, ClientStates
    <2>3. ShownIsNewest'
        BY <1>1, <1>3, <2>1, <2>2, StillNewest DEF Storage
    <2> QED
        BY <1>2, <2>1, <2>3 DEF FeedInv
<1>4. CASE /\ client'.shown \in Versions /\ IsNews(client'.shown)
           /\ writes' = Persisted(client'.shown)
    <2>1. ClientTypes'
        <3>1. IsFull(client'.shown) => client'.shown \in Full
            BY <1>4 DEF IsFull, Full
        <3>2. \A p \in Pending : Append(writes, p) \in Seq(Pending)
            BY DEF FeedInv, ClientTypes
        <3>3. writes' \in Seq(Pending)
            BY <1>4, <3>1, <3>2, PendingWrites DEF Persisted, FeedInv, ClientTypes
        <3> QED
            BY <1>1, <3>3 DEF FeedInv, ClientTypes
    <2>2. /\ Time(client.shown) \in Nat /\ Time(client'.shown) \in Nat
          /\ Time(localStorage) \in Nat /\ Time(indexedDb) \in Nat
        BY <1>4, TimeIsNat, FullAreShown DEF FeedInv, ClientTypes, ClientStates, Snapshots
    <2>3. \A i \in DOMAIN writes :
             Time(writes[i].version) \in Nat /\ Time(writes[i].version) <= Time(client.shown)
        BY TimeIsNat, FullAreShown, WritesAreFull DEF FeedInv, ShownIsNewest
    <2>4. Time(client'.shown) >= Time(client.shown)
        BY <1>4 DEF IsNews
    <2>5. \A i \in DOMAIN writes' : Time(writes'[i].version) <= Time(client'.shown)
        BY <1>4, <2>2, <2>3, <2>4 DEF Persisted, FeedInv, ClientTypes
    <2>6. Time(localStorage') <= Time(client'.shown)
          /\ (client'.mounted /\ ~loading' => Time(indexedDb') <= Time(client'.shown))
        BY <1>1, <2>2, <2>4 DEF FeedInv, ShownIsNewest
    <2>7. ShownIsNewest'
        BY <2>5, <2>6 DEF ShownIsNewest, Time
    <2> QED
        BY <1>2, <2>1, <2>7 DEF FeedInv
<1> QED
    BY <1>3, <1>4, ReceivesShows

\* A copy that is restored is as new as either store; one that is not is no newer.
LEMMA LoadsInv == ASSUME FeedInv, Loads PROVE FeedInv'
<1>1. ServerTypes' /\ loading' = FALSE /\ UNCHANGED <<indexedDb, localStorage>>
    BY DEF Loads, FeedInv, ServerTypes, Server
<1>2. client' \in ClientStates /\ client'.mounted = client.mounted
    BY LoadsShows
<1>3. /\ Time(client.shown) \in Nat /\ Time(client'.shown) \in Nat
      /\ Time(localStorage) \in Nat /\ Time(indexedDb) \in Nat
    BY <1>2, TimeIsNat, FullAreShown DEF FeedInv, ClientTypes, ClientStates, Snapshots
<1>4. Time(client'.shown) >= Time(client.shown)
    BY <1>3, LoadsShows DEF Restores
<1>5. /\ Time(indexedDb) <= Time(client'.shown)
      /\ Time(localStorage) <= Time(client'.shown)
    <2>1. StoredSnapshot = None => indexedDb = None
        BY DEF StoredSnapshot
    <2>2. Time(None) = 0
        BY DEF Time
    <2>3. indexedDb # None => StoredSnapshot = indexedDb
        BY DEF StoredSnapshot
    <2>4. Time(localStorage) <= Time(client.shown)
        BY DEF FeedInv, ShownIsNewest
    <2>5. CASE indexedDb = None
        BY <1>3, <1>4, <2>2, <2>4, <2>5
    <2>6. CASE indexedDb # None
        BY <1>3, <1>4, <2>1, <2>3, <2>4, <2>6, LoadsShows DEF Restores
    <2> QED
        BY <2>5, <2>6
<1>6. writes' = IF indexedDb = None /\ localStorage # None
                THEN Append(writes, [version |-> localStorage, migrates |-> TRUE])
                ELSE writes
    BY DEF Loads
<1>7. ClientTypes'
    <2>1. localStorage # None => localStorage \in Full
        BY DEF FeedInv, ClientTypes
    <2>2. \A p \in Pending : Append(writes, p) \in Seq(Pending)
        BY DEF FeedInv, ClientTypes
    <2>3. writes' \in Seq(Pending)
        BY <1>6, <2>1, <2>2, PendingWrites DEF FeedInv, ClientTypes
    <2> QED
        BY <1>1, <1>2, <2>3 DEF FeedInv, ClientTypes
<1>8. \A i \in DOMAIN writes' : Time(writes'[i].version) <= Time(client'.shown)
    <2>1. \A i \in DOMAIN writes :
             Time(writes[i].version) \in Nat /\ Time(writes[i].version) <= Time(client.shown)
        BY TimeIsNat, FullAreShown, WritesAreFull DEF FeedInv, ShownIsNewest
    <2> QED
        BY <1>3, <1>4, <1>5, <1>6, <2>1 DEF FeedInv, ClientTypes
<1>9. ShownIsNewest'
    BY <1>1, <1>5, <1>8 DEF ShownIsNewest, Time
<1> QED
    BY <1>1, <1>7, <1>9 DEF FeedInv

\* The end of a write takes the oldest one off, into IndexedDB or localStorage.
LEMMA WriteInv == ASSUME FeedInv, Stores \/ StoreFails PROVE FeedInv'
<1> DEFINE w == Head(writes)
<1>1. writes # <<>> /\ writes' = Tail(writes)
      /\ UNCHANGED <<Server, sockets, client, loading>>
    BY DEF Stores, StoreFails
<1>2. w \in Pending /\ w.version \in Full
      /\ writes' \in Seq(Pending)
      /\ w = writes[1] /\ 1 \in DOMAIN writes
    BY <1>1, PendingWrites DEF FeedInv, ClientTypes
<1>3. indexedDb' \in {indexedDb, w.version} /\ localStorage' \in {localStorage, w.version, None}
    BY DEF Stores, StoreFails
<1>4. ServerTypes' /\ ClientTypes'
    BY <1>1, <1>2, <1>3 DEF FeedInv, ServerTypes, ClientTypes, Server
<1>5. Time(w.version) <= Time(client.shown)
    BY <1>2 DEF FeedInv, ShownIsNewest
<1>6. Time(None) = 0 /\ Time(client.shown) \in Nat
    BY TimeIsNat DEF FeedInv, ClientTypes, ClientStates, Time
<1> HIDE DEF w
<1>7. Time(localStorage') <= Time(client.shown)
    BY <1>3, <1>5, <1>6 DEF FeedInv, ShownIsNewest
<1>8. client.mounted /\ ~loading => Time(indexedDb') <= Time(client.shown)
    BY <1>3, <1>5 DEF FeedInv, ShownIsNewest
<1>9. \A i \in DOMAIN writes' : Time(writes'[i].version) <= Time(client.shown)
    <2>1. \A i \in DOMAIN writes' : i + 1 \in DOMAIN writes /\ writes'[i] = writes[i + 1]
        BY <1>1 DEF FeedInv, ClientTypes
    <2> QED
        BY <2>1 DEF FeedInv, ShownIsNewest
<1>10. ShownIsNewest'
    BY <1>1, <1>7, <1>8, <1>9 DEF ShownIsNewest, Time
<1> QED
    BY <1>4, <1>10 DEF FeedInv

\* A page that is loaded again shows what localStorage holds.
LEMMA ReloadsInv == ASSUME FeedInv, Reloads PROVE FeedInv'
<1>1. /\ client' = Fresh(localStorage, localStorage # None) /\ loading' = FALSE
      /\ writes' = <<>> /\ sockets' = [s \in Sockets |-> NoSocket]
      /\ UNCHANGED <<Server, indexedDb, localStorage>>
    BY DEF Reloads, Boot
<1>2. ServerTypes'
    BY <1>1, NoSocketType DEF FeedInv, ServerTypes, Server
<1>3. client' \in ClientStates /\ client'.shown = localStorage /\ client'.mounted = FALSE
    BY <1>1, FullAreShown DEF FeedInv, ClientTypes, ClientStates, Fresh, Snapshots
<1>4. ClientTypes'
    <2>1. writes' \in Seq(Pending)
        BY <1>1
    <2> QED
        BY <1>1, <1>3, <2>1 DEF FeedInv, ClientTypes
<1>5. Time(localStorage) \in Nat
    BY TimeIsNat, FullAreShown DEF FeedInv, ClientTypes, Snapshots
<1>6. ShownIsNewest'
    BY <1>1, <1>3, <1>5 DEF ShownIsNewest, Time
<1> QED
    BY <1>2, <1>4, <1>6 DEF FeedInv

\* Every action preserves FeedInv.
LEMMA FeedStep == FeedInv /\ [Next]_vars => FeedInv'
<1> SUFFICES ASSUME FeedInv, [Next]_vars PROVE FeedInv'
    OBVIOUS
<1>1. CASE ServerActs
    <2>1. ServerTypes' /\ UNCHANGED <<client, loading, Storage>>
        BY <1>1, ServerActsTypes DEF FeedInv
    <2> QED
        BY <2>1 DEF FeedInv, ClientTypes, ShownIsNewest, Time, Storage
<1>2. CASE \/ \E s \in Sockets : Opens(s) \/ Closes(s)
           \/ IdleCloses \/ Reconnects \/ Mounts \/ Unmounts
    <2>1. /\ client' \in ClientStates /\ sockets' \in [Sockets -> SocketStates]
          /\ client'.shown = client.shown /\ loading' \in BOOLEAN
          /\ client'.mounted /\ ~loading' => client.mounted /\ ~loading
          /\ UNCHANGED <<Server, Storage>>
        BY <1>2, QuietClient
    <2>2. ServerTypes' /\ ClientTypes'
        BY <2>1 DEF FeedInv, ServerTypes, ClientTypes, Server, Storage
    <2>3. Time(client'.shown) >= Time(client.shown)
        BY <2>1, TimeIsNat DEF FeedInv, ClientTypes, ClientStates
    <2> QED
        BY <2>1, <2>2, <2>3, StillNewest DEF FeedInv
<1>3. CASE UNCHANGED vars
    BY <1>3 DEF vars, FeedInv, ServerTypes, ClientTypes, ShownIsNewest, Time
<1> QED
    BY <1>1, <1>2, <1>3, ReceivesInv, LoadsInv, WriteInv, ReloadsInv
    DEF Next, Progress, ServerActs

-----------------------------------------------------------------------------
\* Every message is a snapshot, every stored copy has rows, and none that was read
\* is newer than what is shown, however the publisher, the cache, the sockets and the
\* two stores interleave.
THEOREM FeedInvariant == Spec => []FeedInv
<1>1. Init => FeedInv
    BY FeedInit
<1>2. FeedInv /\ [Next]_vars => FeedInv'
    BY FeedStep
<1> QED
    BY <1>1, <1>2, PTL DEF Spec

\* A dashboard that has read the stored snapshot shows nothing older than either of
\* its stores holds (readPersistedDashboardSnapshot and restoreDashboardFromCache).
THEOREM StartsNewest == Spec => []StartsFromNewest
<1>1. FeedInv => StartsFromNewest
    BY TimeIsNat, FullAreShown
    DEF FeedInv, ClientTypes, ClientStates, ShownIsNewest, StartsFromNewest, Snapshots
<1> QED
    BY <1>1, FeedInvariant, PTL

\* What the dashboard shows never gets older, nor loses its rows, while the page is
\* open: applyDashboardSnapshot refuses it from whichever source it comes.
THEOREM NeverRegresses == Spec => NoRegression
<1> DEFINE Kept == /\ Time(client'.shown) >= Time(client.shown)
                   /\ IsFull(client.shown) => IsFull(client'.shown)
<1>1. FeedInv /\ [Next]_vars => [Reloads \/ Kept]_vars
    <2> SUFFICES ASSUME FeedInv, [Next]_vars
                 PROVE  Reloads \/ Kept \/ UNCHANGED vars
        OBVIOUS
    <2>1. Time(client.shown) \in Nat /\ client.shown \in Snapshots
        BY TimeIsNat DEF FeedInv, ClientTypes, ClientStates
    <2>2. client'.shown = client.shown => Kept
        BY <2>1
    <2>3. CASE ServerActs
        BY <2>2, <2>3, ServerActsTypes DEF FeedInv
    <2>4. CASE \/ \E s \in Sockets : Opens(s) \/ Closes(s)
               \/ IdleCloses \/ Reconnects \/ Mounts \/ Unmounts
        BY <2>2, <2>4, QuietClient
    <2>5. ASSUME NEW s \in Sockets, Receives(s) PROVE Kept
        <3>1. CASE client'.shown = client.shown
            BY <2>2, <3>1
        <3>2. CASE client'.shown \in Versions /\ IsNews(client'.shown)
            BY <3>2, VersionsAreNumbers DEF IsNews, IsFull
        <3> QED
            BY <2>5, <3>1, <3>2, ReceivesShows
    <2>6. CASE Loads
        <3>1. CASE client'.shown = client.shown
            BY <2>2, <3>1
        <3>2. CASE client'.shown \in Full /\ Restores(client'.shown)
            BY <3>2, FullAreShown DEF Restores
        <3> QED
            BY <2>6, <3>1, <3>2, LoadsShows
    <2>7. CASE Stores \/ StoreFails
        BY <2>2, <2>7 DEF Stores, StoreFails
    <2> QED
        BY <2>3, <2>4, <2>5, <2>6, <2>7 DEF Next, Progress, ServerActs
<1> QED
    BY <1>1, FeedInvariant, PTL DEF Spec, NoRegression

=============================================================================
