# TLA+ models of p2p-server

`p2p-server` is a session server: nodes with long-lived identities join a
*session* with a token, keep one *control* and one *relay* WebSocket open, find
each other over the first and exchange end-to-end encrypted frames over the
second. The Go SDK (`pkg/sessionclient`) is the other half of the protocol. This
directory holds TLA+ models of both halves, the TLC runs that check them, and
TLAPS proofs of their safety for every number of nodes, handlers, processes and
streams: the membership record, the hub, the server that composes the two, the
key exchange and the streams.

## 1. Inventory

| Component (source) | State | Operations | Hard because | Correct when |
|---|---|---|---|---|
| storage (`internal/storage`) | per session: flags, owner, join counter; members with id, node, index, role, status, connection, departure time | Create, Join, UpdateMember, RemoveMember, MarkOffline, Revoke, RotateToken, Close, Delete, List | indices are reused; a returning node takes another path than a new one; limits | ids, nodes and indices are unique, one owner, limits hold |
| session service (`internal/session`) | none of its own | Join, Touch, UpdateCandidates, Approve, Reject, Leave, Prune, ... | reads a snapshot, decides, then writes: every handler is a race with all others, and Prune with everybody | the record stays coherent under stale write-backs; nobody gets in who should not |
| member hub (`internal/member`) | rooms, per room online members with up to two connections and `byIndex` | Attach, Detach, SetApproved, MakeApproved, CloseMember, CloseSession, Deliver, Broadcast | two locks taken several times per operation; old and new connection of a member overlap; rooms appear and vanish | the newest connection serves, no ghost stays, no room leaks, indices lead to the right member |
| handlers (`internal/server`) | tickets; per connection a read loop and a write pump | join, leave, approve, reject, delete; control and relay WebSockets; member list; offline hook; maintenance | store first, hub second, room last, with others in between | the room agrees with the store, everybody hears of everybody |
| relay (`internal/relay`) | none | Forward: unicast, multicast, broadcast | membership and hub are asked separately | only active members' frames, to the addressed member |
| SDK, signalling (`client.go`, `loops.go`, `crypto.go`) | peers, greetings sent and answered, keys | Join, read loops, hello and reply, removePeer, Close, Abort | messages to absent peers vanish, peers come back as new processes | connected pairs agree on keys; no storm; no stale keys |
| SDK, streams (`stream.go`, `loops.go`, `group.go`) | table of streams by id, counters, per stream numbers, reorder buffer, queue | OpenStream, Write, Read, Close, Reset, and what arrives | two paths without mutual order, concurrent writers, losses | in order, once, nothing swallowed, no ghosts, no mixing |
| auth, protocol, config, metrics, version, `cmd/*`, `cloudflare/`, `deploy/` | none that the above decide on | | | not modelled, see section 7 |

Interaction: an HTTP handler calls the service, which calls the store; then it
tells the hub and, through the hub, the other members' control connections. A
WebSocket handler reads the store once, attaches to the hub, and detaches at its
end; the hub calls back into the service (offline hook) when a member has lost
its last connection. A maintenance goroutine prunes. The SDK sees only answers,
control messages and relay frames.

`PROJECT.json` lists under "hazards" what is hard to test in this code, each at
its line, with the properties that cover it.

## 2. Modules

| Module | Models | Built on |
|---|---|---|
| `SessionStore` | one session record and the store's operations, each atomic | |
| `SessionService` | `internal/session`: concurrent workers, pruner, clock, restart | extends `SessionStore` |
| `Membership` | what a session promises about identities (abstract) | implemented by `SessionService` |
| `Hub` | rooms and connections, lock section by lock section | |
| `HubCalls` | the hub alone, called in every order | extends `Hub` |
| `Connection` | one connection of the hub: queue, write pump, read loop, the client at its end | |
| `Server` | handlers over store and hub together, and what control clients are told | extends `SessionStore`, `Hub` |
| `KeyExchange` | the SDK's pairwise key exchange over the signalling path | |
| `Pipes` | what streams promise their readers (abstract) | implemented by `Streams` |
| `Streams` | the SDK's streams over the control and the relay path, and the departure of members | |
| `StreamLocks` | the goroutines of one client around its table of streams: `streamsMu`, each stream's `Once`, `closeOnce` | |
| `MCSessionService`, `MCHub`, `MCServer` | symmetry and constants for TLC | |

And the modules of the proofs (section 6); each extends `TLAPS` as well:

| Module | Proves | Built on |
|---|---|---|
| `SessionStoreProofs` | lemmas: what each operation of the store makes of the record | extends `SessionStore` |
| `SessionServiceProofs` | types, identities, joins, seats, connections and departure times of the records, the refinement of `Membership` | extends `SessionService`, `SessionStoreProofs` |
| `HubProofs` | lemmas: the hub's invariant and that every operation keeps it, whoever calls | extends `Hub` |
| `HubCallsProofs` | the hub's properties, called in every order | extends `HubCalls`, `HubProofs` |
| `ConnectionProofs` | types, who misses frames is kicked | extends `Connection` |
| `ServerProofs` | the server's properties, and the hub's in the server | extends `Server`, `SessionStoreProofs`, `HubProofs` |
| `KeyExchangeProofs` | types, keys forgotten | extends `KeyExchange` |
| `StreamsProofs` | types, gaps, ids of pairs, how streams end, the refinement of `Pipes` | extends `Streams` |

How state and actions correspond to the code:

* **SessionStore.** `session` and `members` are `SessionRecord` and its `MemberRecord`s
  without the fields nobody decides on. `session.policy` is what its creator chose
  (approval, seats, joins), any of the constant `Policies`. `Rejoin` and `JoinNew` are
  the two halves of `Join`; `Refused` and `Gone` its early returns. An id is the number
  of its draw (random ids do not repeat).
* **SessionService.** `req[w]` is what a goroutine holds between two store calls:
  the join it has judged, or the *copy* of a member it will write back. `pruner`
  holds the ids `Prune` took from its snapshot. `Restart` is a crash of the
  process over a SQLite file: requests are lost, the record stays.
* **Hub.** One handler is one `Conn`; `conns[h].pc` says before which lock section
  it is: `fetch`, `attach`, `replace` (the kick after the lock) and `serve` for
  `Attach`; `detach`, `vacate`, `recheck` (is the room still empty?), `delete` and
  `hook` for `Detach`. A handler in `delete` holds `h.mu`, so whatever needs it
  waits (`HubFree`); it has let `r.mu` go, so an `Attach` that fetched the room
  before may enter it. `rooms` keeps the rooms the index has dropped, since handlers
  may still hold them. `kicked` is what write pumps see, whenever they run.
* **Connection.** `out`, `dropped` and `closed` are the `Conn`'s; a sender whose
  frame was refused counts it (`counting`) and, if it was one too many, kicks
  (`kicking`) in steps of its own, so senders overtake each other; `pump` is the write
  pump (in its select, in a write, over), `reader` the read loop and what it
  defers, `wire` what the network holds for the client, `client` whether that one
  reads, stalls (its read loop is blocked while its heartbeat goes on), is cut off
  or gone.
* **Server.** `todo` holds what HTTP handlers have still to do after their store
  call, `client[h].due` what a control connection's goroutine has, and
  `client[h].peers` what the client at the other end was told. `copies` are records
  that were read and are still to be written back whole: by a heartbeat (`Touch`), an
  offer of candidates (`Offer`, `UpdateCandidates`), an approval or a rejection, all
  through `WriteBack`. Two variables are history: `reported`, the connection ids the
  offline hook was called with, and `overwritten`, the members over whose record a
  copy was written although the record had changed since it was read.
* **KeyExchange.** A process is a run of the SDK, and its number is its public key. `up`
  and `down` are the two directions of its control connection; `link[p]` is the handler
  of that connection in the server, which attaches it, reads the list and queues it in
  three steps (`AttachControl`, `ReadList`, `SendList`), so that the others' broadcasts
  and greetings can be in the queue first. `link[p].missed` is history: who left between
  the attach and the list. `relay` says whether it has a data plane: opened by Join for
  an active member, by the `joined` message for one that was approved, unless that
  fails. `Heartbeat` of a client without one ends the program, as the nil pointer does
  in the code.
* **Streams.** `ends` are the `Stream` objects. `relay` and `control` are the two
  paths, each in order for one sender and one receiver. `writing` holds chunks
  between `sendSeq++` and the send, so concurrent Writes overtake each other. A
  reader takes what is queued also when the stream is over (`ReadMessage`) and is told
  of the end only when nothing is left to drain (`ReadEnd`); `told` are the streams
  whose reader was. `Shut` sends the close frame, ends the stream and remembers its id
  in one step: a Write that starts in between could as well have drawn its number
  before the frame, what arrives in between could as well have arrived before it. Some
  fields are history: which object wrote a frame, which frames were lost. A member
  leaves for good (`CloseClient`); each peer hears of it behind the opens it sent,
  but not behind its data (`OnMemberLeft`).
* **StreamLocks.** `at[t]` is where a goroutine is between two lock sections;
  `streams[i].once` names the goroutine inside the stream's `Once`.

A definition named `X_Y` is `X` with the mistake `Y`; the checks put it in the
place of `X` to see that a property notices.

## 3. Runs

| Run | Expect | Instance | Question |
|---|---|---|---|
| `service` | pass | 2 nodes, 2 workers, 3 ticks, 3 connections; approval and 2 seats, or 1 seat and 2 joins without approval | does the record stay coherent under stale write-backs, pruning and restarts, and does it implement `Membership`? |
| `hub` | pass | 3 handlers, 2 ids sharing an index | attach, replace, kick, detach, reclaim in every order |
| `server` | pass | 2 nodes, 2 handlers, approval, 2 joins, 1 HTTP handler under way | does the list plus the announcements leave a gap, who takes a member offline, stale write-backs included? |
| `conn` | pass | queue 2, kick at 2 drops, 1 frame on the wire, 6 frames, 2 stalls | do both goroutines end, is a kick heard, is what was queued delivered, is who misses frames kicked? |
| `keys` | pass | 2 nodes, 3 processes (2 with approval), 1 ends by itself | do first-time clients agree, does it die down, are keys forgotten? |
| `streams` | pass | 2 members, 5 calls, 1 loss, queue and buffer of 1 | order, completeness, drained ends, gaps, ghosts; does it implement `Pipes`? |
| `seats` | violation | 3 nodes, 1 worker | `MaxMembers` after a rejection |
| `orphan` | violation | 1 member, 2 connections | a connection outside its session's room |
| `discovery` | violation | 3 nodes, approval | discovery after approval |
| `reconnect` | violation | 2 nodes, 3 processes | keys after a reconnect |
| `streamids` | violation | 3 members, 3 calls | stream ids of three members |
| `lockup` | violation | 1 peer, 2 streams, 1 application goroutine | can the removal of a peer come to its end? |

Why the bounds are enough to be interesting:

* *service*: two nodes and two seats allow an index and a node to be given up and
  taken again while a worker holds a copy of the old record; three ticks pass the
  grace period, the idle timeout and the end of the session. The bounds `MaxTime`
  and `MaxConns` stop clock and joins; workers go on with everything else. One
  seat for two nodes is what a race for it needs, two joins what its limit needs.
* *conn*: a queue of two lets a frame wait behind another and is full soon; two
  drops kick; one frame on the wire blocks the pump as any number would; two stalls
  let a client come back and stall again.
* *hub*: three connections are the fewest with which a replaced connection, its
  replacement and another member's meet in one room, and two ids with one index
  are a member and its successor. Handlers are interchangeable.
* *server*: one HTTP handler between its store call and its end, two connections
  and the other member's join are what the list and the announcements can race on.
  With a second handler a rejected member that joined again can still be in the
  hub's room with the kick on its way, which is why `Discovery` excepts members
  about to be kicked (`Leaving`); `ServerProofs` proves it for any number. An HTTP
  handler is under way while it holds a copy, too; copies of read loops come on top.
  Requests that only later joins look at (revoke, rotate, delete session) are made
  while a join is left, and the session is deleted once: further ones change nothing
  the properties speak of.
* *keys*: three processes of two nodes allow a second life of one of them, either
  under its old id or, after leaving, a new one. `MaxEnds` bounds how many processes
  end by themselves; those that are replaced or kicked come on top. A session with
  approval has two processes (`MaxWithApproval`), the owner and the one that waits,
  and no second life: with three its states are several times as many.
* *streams*: five calls allow an open, three chunks and a close, or two opens with two
  chunks and a close; a call that says the stream is over counts as well; a queue and a
  reorder buffer of one overflow at once; one loss makes one gap; a departure is a call
  too. Nothing is asserted about the 16-bit wrap.

Deadlock is not checked (`CHECK_DEADLOCK FALSE`): every model is of a system that
may stop when its bounded calls are used up, as the real one may when all leave.

## 4. What the runs show

Passing: identities never collide and keep their owner; joins stay within the limit; no
new node is admitted to a closed, revoked or full session, though the service judges on
snapshots; presence and departure times agree even after stale write-backs; in the hub
the newest connection of a kind is the one served and nothing refers to a connection
whose handler is past its detach; the last handler leaves no room behind; no goroutine
of a connection outlives its client, and a client that reads hears of its kick, and one
that misses many frames is kicked however the drops are spread over its life and however
the senders that count them overtake each other; a member is taken offline only by the
report of its latest connection or its rejection, or after a stale copy was written over
its record (`OfflineIsExplained`); a control client that was approved when it attached,
and is not about to be kicked, knows every active peer or is about to be told of it, but
for peers over whose record a stale copy was written, which may have made a rejected
member active again without a word to anybody (`Discovery`); the key of a first-time
member that left is forgotten, unless it left between the client's attach and its list
(`KeysForgotten`); clients that meet for the first time agree on keys though greetings
are dropped; streams between two members keep order and completeness, a chunk left out
leaves an error behind, and the departure of either side changes nothing about that.

Violated (each quoted against the repository's own words under "findings" in
`PROJECT.json`):

1. `SeatsRespected`: a denied member that joins again is re-activated without a
   look at the seats (`memory.go:178`).
2. `ServedInSession`: `Attach` can enter a room the index has just dropped
   (`hub.go:202`), or drops a moment later: `Detach` releases `r.mu` between its
   second look at the room (`hub.go:281`) and the deletion (`hub.go:283`), so even an
   occupied room can go.
3. `DiscoveryAfterApproval`: a member that waited for approval while connected
   does not learn of those that joined meanwhile (`handlers.go:414`).
4. `ConvergesAfterReconnect`: a process back under its old id never gets the key
   of a peer that had answered its predecessor (`loops.go:648`).
5. `Untangled` with three members: stream ids are unique per pair, the table is
   keyed by the id alone (`loops.go:370`). With two members it holds. For the same
   reason `NothingSwallowed` and `NoGhosts` are false with three members: data and
   close frames of one peer reach the stream with another of the same id. They hold,
   with any number of members, for a stream whose id no third member uses with the peer
   (`PrivateStreamsEndWell`, section 6).
6. `CleanupCanEnd`: `removePeer` waits for a stream's `Once` with `streamsMu` held,
   while the relay loop or the application is inside that `Once` and waits for
   `streamsMu` (`loops.go:498`, `stream.go:178`, `stream.go:271`).

In the models as they are in the code, but not the subject of a run:

* `allIdle` takes the earliest departure instead of the latest (`service.go:585`),
  though `service.go:549` speaks of everybody (`AllIdle`).
* A heartbeat reads a record, the node joins again, and the heartbeat writes the old
  connection back (`service.go:423`, the same in 406, 459 and 484); the report of that
  connection then takes the returned member offline, which the comparison of connection
  ids is there to prevent (`memory.go:329-330`). The same write-back makes a rejected
  member active again, announced to nobody. This is why `OfflineIsExplained` and
  `Discovery` except overwritten members.
* A member's greeting and its departure can both be queued for a client before the
  list is read; it never was a peer, so `removePeer` does not forget its key
  (`loops.go:491`), though `loops.go:481` says that it goes with the member. This is
  why `KeysForgotten` excepts members that left between a client's attach and its list.
* A member of the answer to a join that leaves before the client is attached stays a
  peer, since the list only adds (`loops.go:511`), though `loops.go:505` says that it
  overwrites what was known.
* A client that waits for approval has no data plane and its first heartbeat ends
  the program (`loops.go:239`; `KeyExchange!Heartbeat`), though `client.go:305-307`
  wants it to wait. One approved between the answer to its join and its control
  connection never hears `joined` and never opens a data plane.
* A client that stalls can miss the close frame of its kick, and its read loop in
  the server goes on while its heartbeats come; when it reads again nobody sends it
  anything. This is why `KickHeard` speaks of clients that never stall.
* A client that waits for approval already greets the active members; when it gives
  up they keep its key, as it never was a peer of theirs. This is why `KeysForgotten`
  speaks of sessions without approval.
* When the last connection to detach is an older ticket's, the store refuses its
  report and the member stays online for ever (`hub.go:294`).
* A `Stream` that one side has reset or closed is made anew there by data that were
  on their way, under the same id; a reader that is still open at the other side
  then hears two writers of its peer, one after the other (`loops.go:188`). It takes
  six calls, one more than the run `streams` has. `Pipes` promises the order of each
  writer's chunks, not that there is one writer.

## 5. Fairness

`KeyExchange` and `Connection` state fairness, for their liveness properties.

In `KeyExchange` it is weak fairness of the steps a goroutine takes without being asked
by anybody (answering a join, dialling, attaching, reading and sending the list,
greeting, both read loops, detaching a lost connection). The Go scheduler runs every
runnable goroutine, and a read loop with a message to read is runnable. Joining,
closing, failing and approving are up to users and the network, and are not fair. In
`Converges` the premise is evaluated again and again, so a client that leaves in the end
owes nothing.

In `Connection` the pump and the read loop are weakly fair for the same reason, a
silent client is noticed by the read deadline, and a client that is not stalled
reads. The pump's `select` picks among its ready cases at random, so a case that is
ready again and again is taken: strong fairness of `PumpKicked` and `PumpDone`.
Stalls need not end, and a sender may take its time to count a drop or to kick.

## 6. Proofs

Everything in this section holds for every value of the constants. The assumptions are
the named ones of the modules and nothing else: limits, bounds and capacities are
natural numbers (`StoreConstants`, `ServiceConstants`, `KeyExchangeConstants`,
`StreamConstants`, `ConnectionConstants`), queues, the reorder buffer, the network and
the limit of drops hold or allow at least one, `None` is no handler (`NoneIsNil`), the
hub's ids and indices include those the store draws (`ServerConstants`), and the hub
alone is called with one index for each id (`IndexOfConstant`; in the server that is
proved). TLC found no violation of the inductive invariants on the instances of section
3 either.

**The record** (`SessionServiceProofs`; any number of nodes
and workers).

* `TypeCorrect`: `Spec => []TypeOK`. One lemma types the store's operations, one
  the requests, one step per action puts them together.
* `IdentitiesAreUnique` and `OwnerIsUnique`: `UniqueIdentities` and `OneOwner`.
  Neither is inductive: a worker may hold a stale copy of a member, and writing it
  back could collide with a record made since. The inductive invariant
  `IdentityInv` adds that ids are drawn in order and none is above `issued`, that
  the owner is unset only before the first admission, and `CopiesAgree`: a copy
  held by a worker has the same id, node, index and role as the record of that id,
  if there still is one. The argument splits the steps in two. A *tame* step keeps,
  loses or replaces records without changing an identity (`StepIsTame`,
  `TameKeeps`): all but one. The other is the admission of a new node
  (`AdmissionKeeps`), where the free index, the fresh id and the node's absence are
  used.
* `ServiceKeepsPromise`: the service implements `Membership`. With the same split,
  a tame step dismisses those whose record has gone and an admission is `Admit`.
* `JoinsAreCounted` and the action property `AdmissionFollowsPolicy`. A tame step
  never makes the members more, because identities tell records apart, and only an
  admission counts a join (`JoinsInv`).
* `ConnectionsAreExclusive` and `PresenceIsCoherent`. Both are stated of the
  records *and* of the copies workers hold (`RecordInv`): every record after a step
  is derived from one before it by a denial, a departure or an approval, or was made
  by the join, whose connection nobody else has or waits for.

**The hub** (`HubProofs`, `HubCallsProofs`; any number of handlers and members):
`HubTypeCorrect`, `NobodyHaunts`, `NewestIsServed`, `RoomsAreReclaimed` and
`IndexFindsItsMember`. The inductive invariant is `HubInv`: a room is empty until the
`fetch` of the handler it is named for (`RoomsAreMade`); who is about to kick has
replaced a connection (`ReplacesOne`); what stands in the session's room for a
connection belongs to a handler of *this* room that has not detached yet (`Attended`; a
room the index drops with somebody in it never becomes the session's again, so nothing
is said of it); an empty room has somebody before its `attach`, its second look or its
deletion (`Reclaimable`). `IndexFindsMember` needs in addition that whoever speaks of a
member gives it one index (`Indexed`). One lemma per operation says that it keeps the
invariant, whoever calls, so that the server's proof can use them.

**A connection** (`ConnectionProofs`; any capacities, limit of drops, frames and
stalls): `ConnectionTypeCorrect` and `WhoIsBehindIsKicked`. What a client misses is
not counted anywhere in the state it is stated of, so the invariant `ConnInv`
follows the frames: what the client has, what is on the wire, what the pump holds
and what is queued stand in the order of sending (`InLine`); a frame overtaken by
one the client has or will read was dropped, and while the pump works for a client
every frame in none of these places was, so there are no more of them than were
counted or are about to be (`dropped`, `counting`), and when the limit and one for each
sender still about to kick have been counted the connection is closed
(`DropsCounted`). A pump
has a frame in its hands exactly while it writes (`Handling`), and a client that is
gone has nothing left to read (`GoneReadsNothing`).

**The server** (`ServerProofs`; any number of handlers and of HTTP requests under way):
`ServerTypeCorrect`, `IndicesAgree`, `OfflineIsReported`, `PeersAreDiscovered`, and that
the hub's properties hold here too, where it is called with what was read from the store
some time before (`HubHoldsInServer`, `RelayFindsItsMember`). The invariant `ServerInv`
joins `HubInv` and the store's identities (`StoreOK`) with what relates the two: ids in
use were drawn (`BooksOK`); a copy still to be written back has the id, node, index and
role of its record, and a read loop holds one at most (`CopiesOK`); the store, the
rooms, the handlers and the requests claim one index for an id (`ClaimsOK`); a member
has a latest ticket, and if it is offline without being denied that ticket's connection
was reported, unless it was overwritten (`PresenceOK`); who is announced as gone is gone
(`GoneOK`); and `Informed`, the core of discovery: what a watching client was told,
*and* the list it has read but not sent yet, together with the announcements under way
hold every active peer that no late copy made so (`Sure`). The list is read after
`Attach`, so a join is either in it or its announcement finds the client in the room.

**The key exchange** (`KeyExchangeProofs`; any number of nodes and processes):
`KeysTypeCorrect` and `KeysAreForgotten`. `KeysForgotten` speaks of quiet states
only, so the invariant `KeyInv` must say what the queues hold. Its core is
`NewsArrives`, for a reading client and the first process of a member id, by stage:
while that process is *new* there is no end of it on the way; while it is a
*member* the client knows it or will; once it has *gone* either the client knows it
before it hears exactly one end, behind which no key comes (`WillForget`), or it
has no key and none is coming (`HasForgotten`). A member that p's list is still to
bring counts as new for p (`StageFor`), and of one that left between p's attach and
its list (`missed`) nothing is said. The rest says why the order holds:
nothing is written after a leave (`LeaveIsLast`), a process without a member has
nothing on its way up (`GoneIsOver`), who reads is attached or will be
(`ReadersAreAttached`), a handler works for a client that has dialled
(`HandlersFit`), who is not attached has heard nothing (`KeysAreFresh`), ids and
nodes go together (`IdsAreNodes`). Steps of a client
are one lemma (`ClientStepKeeps`), those of the server one each.

**The streams** (`StreamsProofs`; any number of members, streams, writers and
losses, queues and buffers of any size): `StreamsTypeCorrect`, `GapsAreReported`,
`PairsAreUntangled` and `StreamsKeepPromise`, the refinement of `Pipes`. The
invariant `StreamInv`: without an error the reader has every chunk up to the next
(`Gapless`); a chunk in a queue, a buffer or a reader's hands was written
(`ChunksAreWritten`) and is in one place only (`ChunksAreOnce`); what was taken has
numbers below the next (`TakenInOrder`); the counters keep their parity
(`Counters`); and a frame travels from its writer to the peer of that stream and is
read under its own id (`Names`). Every step is of one of three kinds, *quiet* (no
chunk is written or read), *draws* a number, or is *given* a chunk, and the invariant
and the refinement are proved per kind. That a type holds is not trivial here:
`allocStreamIDLocked` finds a free id because there are more candidates than
`Stream` objects (`SomeIdIsFree`). `PairsAreUntangled` assumes at most two members:
with three `Untangled` is false (finding 5).

**How streams end** (`StreamsProofs`, second half): `PairsSwallowNothing` and
`PairsHaveNoGhosts`, of two members, and `PrivateStreamsEndWell`, the same of any
number of members for a stream whose id no third member uses with the peer
(`Private`). That hypothesis is the one the code does not meet with three members
(finding 5); it holds of every stream of a pair (`PairsArePrivate`). The invariant
`EndInv` follows a stream to its end. Its core is three statements about the way
from a closed end to its peer: no chunk of the stream is behind its close frame
(`CloseIsLast`); when the peer has heard the close frame no chunk is left on the way
(`EndedHasAll`); and when nothing that ends the stream is on the way any more, and
nothing of it was lost, no chunk is either, the peer has no open stream of that id
and remembers that it had one (`ArrivedIsOver`). They need:

* that a closed end has nothing left to write (`ClosedIsWritten`), that a chunk which
  is not on the way, written or lost is with a reader (`NothingVanishes`), and that
  every number below the next was taken or lost (`HandedOn`): so a reader that ended
  has all chunks, since none that it awaits can be anywhere (`EndedIsRead`), and one
  that was told of the end has read them (`ToldHasRead`);
* why a stream is not open: it was closed and its id is remembered
  (`OverIsRemembered`), or one side has left (`AbandonedByDeparture`,
  `WhoLeftIsDeaf`, `WhoIsRemovedIsSilent`); a close frame, or a stream that ended,
  means that somebody closed one (`ClosesAreMade`, `EndedWasClosed`);
* why an ended stream is not opened again: ids are drawn upwards (`IdsAreDrawn`), a
  `stream_open` comes from who made the stream (`OpensAreMine`), and a late one
  finds its id in `closedStreams`.

`NextMoves` says once what a step can do to the ends, the paths, the opens, the
departures and the chunks being written (`StepMoves`); each part of the invariant is
then a lemma about `StepMoves`, not about the dozen actions. The opens on the control
path are a premise of `NoGhosts` that the proof does not use: an open that is late
is refused.

Only model-checked is all liveness (`NoLeak`, `KickHeard`, `Delivery` of `Connection`;
`Converges`, `DiesDown` of `KeyExchange`), which TLAPS cannot prove, nor anything
that rests on `ENABLED`. Every invariant
and action property of a passing run is proved; `Untangled`, `NothingSwallowed` and
`NoGhosts` with at most two members, as they are false with three.

## 7. Not modelled, and why

* Cryptography (Ed25519 proofs, X25519, AEAD, tickets, tokens): a key pair is its
  owner, a ticket carries member and connection id.
* The bounded queue of a connection in the composed models: `Connection` has it,
  `Server` and `KeyExchange` take a message to a connection for delivered, `Streams`
  has its effect, a dropped frame.
* Multicast and broadcast data frames (the SDK sends neither), candidates and
  direct connections, rate limits, alias routes, JSON.
* Several sessions: they share nothing but the hub's index, of which a session
  sees one entry.
* SQLite's Get and List read the session and its members in two statements; the
  model's snapshots are atomic.
* `cloudflare/worker.js`, the command-line programs, installation and CI.

* In `Streams`: reads with a buffer smaller than the chunk, an index that passes from
  a member that left to a new one, the 30 seconds after which `closedStreams` forgets
  an id, the wrap of 16-bit numbers, data that arrive before the key (keys and
  streams in one model are the product of the two largest state spaces here).

## 8. Plan

1. Index reuse and small reads in `Streams`.
2. Multicast and broadcast of the relay with the authorisation it asks the service
   for.
