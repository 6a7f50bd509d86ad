# Verification of EuhatOfp

EuhatOfp connects a set of servers with each other over a user-space TCP stack
(OFP over DPDK). Every server owns an `HsMod` (`src/hs/HsMod.c`): it dials each
of its peers, accepts their connections, sends them messages and expects an
answer (an *echo*) to each. Beside it the repository keeps the DPDK scripts that
prepare a host for it (`src/setup/usertools/`): one binds network cards to the
user-space drivers, one talks to a DPDK process' telemetry thread, one prints what
hardware a program's drivers support. This directory holds TLA+ modules translated from
the code, TLC configurations that check them on small instances, and TLAPS
proofs for all values of the constants.

Line numbers without a path are those of `src/hs/` or, in the parts about the
scripts, of the script in question. The active build is the one
`HsConfig.h:7` selects, `HS_OFP_EPOLL`.

## 1. Inventory

| Part | State | Operations | Hard because |
|---|---|---|---|
| Connection table (`HsMod.c`, `HsPeer.c`, `HsEpoll.c`) | `channelRing` (pool of 2 * serverCount channels), `sock2ChannelHash`, `channel->sock/peer`, `peer->server/client`, the descriptors the stack has open and watches | dial (monitor thread), accept, look up, REGISTER, disconnect (epoll thread) | two threads; some pointers are written or used without `connectionMutex`; descriptors are reused; the pool runs empty; a batch of events outlives the connections in it |
| Receive path (`onRead`, `getPacket`) | `recvBuf`, `recvStream.p/leftLen` | recv, cut packets, compact, reset | where a recv ends is up to the network; one field means two things (room, data) |
| Send path (`sendOnePeer`, `onWrite`, `onGetPacket`) | `sendRing`, `sendStream`, `echoRing`, `idCur`, the items on the heap | make and queue an item, write, answer, time out | several producers for a single-producer ring; an id made of two atomic operations; channels are reused; partial writes; who frees what |
| Size rounding (`getUpperPower2`) | loop variables | - | boundary values |
| Rings, hashes (`HsRing.c`, `HsHash.c`) | DPDK rings and hashes | add, delete, find, scan | capacities nobody checks; `hsHashAdd` frees what it replaces |
| Lifecycle (`hsModCreate/Start/Delete`, `HsThread.c`) | `isRunning`, the threads, what `hsModCreate` allocated | create, add peer, start, send, delete | the module is taken apart while two threads work on it; what must be freed after they end; the OFP build never clears `isRunning` |
| Mutexes (`HsMutex.c`, `HsSpinMutex.c`) | DPDK spin locks | lock, unlock, recursion | `onWrite` locks twice |
| Streams (`HsStream.c`) | a cursor in a buffer | REGISTER's encoding | round trip, short buffers |
| Binding (`dpdk-devbind.py`) | the kernel's: each device's driver and `driver_override`, `new_id` tables, loaded modules, routes; the script's: the dictionary `devices` | read lspci and routes, bind, unbind, roll back, display | it decides by a snapshot while others change the kernel; several writes per device, each of which may fail; two kernels' ways of binding; two Pythons |
| Telemetry client (`dpdk-telemetry-client.py`) | a socket file, the connection the server made to it, the menu's `choice`, `unregistered` | register, request, unregister, destructor | the server connects to the client; clients share a default path; a bare `except` around everything |
| Driver information (`dpdk-pmdinfo.py`) | a stack of libraries, the dictionaries of `pci.ids` | walk `DT_NEEDED` or a directory, find strings, find names | missing files, cycles, positions in binary data, text for numbers |
| Lists (`HsList.h`), demo (`test/main.c`), start of the stack (`hsEnvCreate`), `cpu_layout.py`, `dpdk-setup.sh` and the kernel modules (`setup/`) | - | - | no state that lives, or calls into what is not here |

How they interact: the **monitor thread** (`hsMonitorThread`) makes a pass over
the peers, holding `connectionMutex`, dials those without a server channel and
queues a REGISTER message for each. The **epoll thread** (`hsEpollThread`)
handles the events of one `epoll_wait` (accept, read) and then calls `onWrite`
for every mapped channel. The **application's threads** call `hsModSend`, which
reads `peer->server` and puts an item into that channel's `sendRing` without any
lock. A dialled channel is its peer's *server* channel (requests go out on it),
an accepted one becomes a peer's *client* channel when its REGISTER arrives.

The scripts meet the program only through the host: `dpdk-devbind.py` gives the
cards to the drivers that DPDK, and so the stack under `hsEnvCreate`, takes them
from. They run by themselves, against the kernel and whoever else changes it, and
against the telemetry thread.

What makes each part correct: no channel lost, doubled or freed; hash, channels,
peers and descriptors agree; a live server channel is never replaced (table).
Packets are handed on whole, once and in order, and recv stays in the buffer
(receive). An item is sent at most once, to the peer it is for, its answer
removes its own echo, and nothing that is still used is freed (send). A ring
gets the room asked for (rounding). A bind that reports success is one, touches
nothing else and leaves the devices that carry routes alone (binding). A client
ends its registration, takes no other answer for its own and says goodbye
(telemetry). All that is linked or plugged in is displayed, exactly (driver
information).

## 2. Modules

| Module | Models | Stands on |
|---|---|---|
| `HsConn` | connection table, one action per step of each thread | - |
| `ChannelPool` | abstract pool: a channel serves at most one socket and changes hands only through the free state | implemented by `HsConn` (`PoolSpec`) |
| `HsRecv` | `onRead`/`getPacket` and the reset of the receive stream | - |
| `HsSend` | send path on dialled channels, echoes, other end's `onGetPacket` | `HsConn`: taking a channel, publishing it and putting it back are single actions here |
| `HsLifecycle` | the owner's calls from `hsModCreate` to `hsModDelete`, the loops of both threads, the recursive mutex, both builds | `HsConn`, `HsSend`: what their threads do to the table and the queues is here only which lock and which allocation each operation uses |
| `UpperPower2` | `getUpperPower2` | its result is `HsConn`'s `RingCap`/`HashCap` |
| `DevBind` | `dpdk-devbind.py` against the kernel and others | - |
| `TelemetryClient` | any number of telemetry clients; the server and the sockets are external | - |
| `PciIds` | the database of `pci.ids`: parsing and lookups, as operators | used by `PmdInfo` |
| `PmdInfo` | the walks of `dpdk-pmdinfo.py` and its search for strings | `PciIds` |
| `MCConn`, `MCRecv`, `MCSend`, `MCLifecycle`, `MCUpper`, `MCDevBind`, `MCTelemetry`, `MCPmdInfo` | values for TLC | |
| `HsConnProofs`, `HsRecvProofs`, `HsSendProofs`, `HsLifecycleProofs`, `UpperPower2Proofs`, `DevBindProofs`, `TelemetryClientProofs`, `PmdInfoProofs` | theorems about the module of that name | |

Operators prefixed with the name of a definition and an underscore
(`Unlock_Forgotten`) are broken variants of it that stand before it; no
specification uses them. They document which bug each property is able to see.

### HsConn

`monPc`/`epPc` say which statement a thread is at. `MonLock`..`MonUnlock` is
`hsMonitorCheckConnection` with `hsEpollConnect` inlined; the steps within the
mutex are kept apart because `EpRegister` and the reads of `onGetPacket` and
`sendOnePeer` do not take it. `EpWait` picks a batch, `EpEvent`/`EpLookup` are
`hsEpollOp` and `getChannelBySockId`, `EpAccept*` is `hsEpollOnAccept` and
`hsSock2ChannelOnAccept`, `EpRegister` is the REGISTER branch of `onGetPacket`,
`EpDisconnectLock`..`EpClose` is `onDisconnect` in its order, where the
descriptor is closed after the mutex is released. Descriptors are reused at once
(`OpenSock` takes any that is not open), as stacks do. `hsHashAdd`'s free of a
replaced value, a full ring's drop and a full hash's refusal are part of
`HashAdd` and `RingIn`.

### HsRecv

A byte is its position in the stream, so `buf` shows whether bytes were
overwritten. `Recv(n)` returns any `n`, `GetPacket`, `Compact`, `ParseEnd` are
the loop of `onRead`. `split` remembers that some recv ended inside the packet at
the buffer's start; the data properties are stated until then, because after it
the code does overwrite data (section 5). From then on a length may be read from
any bytes, and `getPacket` goes on with it: `GetGarbage(n)` takes out a "packet" of
any length that is not above `leftLen`. A negative one (`backward`) moves `p` back,
out of the buffer even, where `Byte` reads bytes of no packet, and makes the room for
the next recv negative. What recv destroys outside `recvBuf` is not modelled.

### HsSend

`ReadServer`, `Increase`, `MakeItem` and the steps of `hsRingIn` are those of
`sendOnePeer` between which other threads run. `sendRing` is an `rte_ring` made for one
producer and one consumer: a producer reads `prod.head` (`Look`), is refused by a full
ring (`Refuse`) or moves `prod.head` (`Claim`), writes the slot (`Fill`) and moves
`prod.tail` (`Show`), each by what it read and without a look at another producer. With
two of them in one ring the later one may write both positions back: items are lost,
slots are written over, and the consumer, which compares positions for equality only
(`Take`), gets slots again that it has had, or a NULL. `WriteNext`/`WriteRest` are
`onWrite`, where `EchoAdd` frees the item that has the same id and a full echo hash
refuses the new one; `Answer` is the echo branch of `onGetPacket`, which holds no
mutex, `Expire` `hsEchoRingIterate`, `Disconnect` `onDisconnect` with
`hsChannelReset`, which leaves `sendRing` alone. `memory` is the heap's view of each
item. Time is not modelled: an echo may expire whenever it is pending.

Four history variables name what the code relies on and does not ensure: `overlap` (two
threads were in lines 47-53 of `sendOnePeer` at once), `collided` (the rings that had
two producers at once, which implies `overlap`), `leftover` (a channel went back to the
pool with items in its ring or on the way) and `noRegister` (the connections whose
REGISTER a full ring refused). `NoDangling`, `AnswerMatches` and `CleanAddressed` carry
the premise `Clean`, which is neither `overlap` nor `leftover`; `LeaksAccounted` and
`AtMostOnce` only the premise that no ring has collided; `RegisterHeard` excepts a
connection whose own REGISTER was refused or whose own ring has collided.

### HsLifecycle

A function of the code is the sequence of operations it makes, a call is
concatenation (`onWrite` contains `getChannelBySockId`, as in `HsMod.c:408`), and
`Turns` are the sequences one turn of a thread's loop may be. `Loop` is the loop's
test of `isRunning`, `Step` the next operation, between any two of which the other
thread and the owner run. `Own` takes the next operation of `hsModStart` or
`hsModDelete`, whose order is `DeleteOrder`; `run` and `create` are the two halves
of `hsThreadStart`, `stop` and `join` those of `hsThreadStop`. `build` is
`HS_EPOLL_TYPE`: both are checked at once. An operation that uses something that
was freed is recorded in `bad`. Locking a mutex that was freed either hangs for
ever or gets it, whoever holds it. `odph_odpthreads_join` of a thread that was
never created is taken to return.

### UpperPower2

A number is its set of one bits, which makes 32 bits cheap and exact.

### DevBind

The kernel's state (`drv`, `override`, `newIds`, `modules`, `routed`) is external:
what a write to `/sys` does, as the script relies on it. `Others` are the moves of
whoever else binds, unbinds, adds a route or unloads a driver. `Main` starts the
script with one of `CmdLines`; `ReadLspci` and `ReadDetails` are the two reads of
`get_device_details`, once per group in `main`'s order, which is why a device that
two groups list is read twice and the second time without a look at the routes.
`unbind_all`, `bind_all`, `NextName`, `EndOfNames`, `PostCheck` are the loops, where
`map` is at once in Python 2 and lazy in Python 3. `Unbind*` is `unbind_one`;
`Bind*`, `Override*`, `NewIdWrite`, `Verify` and `ClearOverride` are `bind_one`, with
`ret` for the caller `unbind_one` returns to; the recursive call that restores a
driver is a tail call, and `Restore` jumps. `Kill` ends the script anywhere. `told`
are the devices about which something was printed, `touched` those others changed:
the properties speak of the rest.

### TelemetryClient

One action per system call: `Exists`..`Accept` are `register`, in the order of lines
60-72 with `listen` after the path was sent; `Choose`, `Leave`, `Request`, `Receive`,
`UnregSend`, `UnregClose` are the menu, `Interrupt` and whatever cannot be sent lead
back to its loop as the bare `except` does. `Exit` is `__del__`. An exception outside
the menu ends the process (`Crash`). A connection is named by the client for whose
registration the server made it, so one that reaches the wrong client, because both
use the default path, can be told.

### PmdInfo and PciIds

A behaviour is one call of the script in one *world*: the options, the files and what
each is (found, ELF, dynamic), the graph of needed libraries, sections, directories,
`pci.ids`. `Needed*` is `process_dt_needed_entries` with its recursion as a stack,
`Walk` `scan_autoload_path` and `FindLibrary`, `FindPath` what leads to it.
`StringsWith` is the walk of `find_string` and `data_to_string` through a section;
`PciIds` has the dictionaries as functions whose keys are a number and how many digits
show it. `ListedNames`, `ListedStrings`, `Linked` and `Plugins` are the references
they are compared with: by positions in the file, without any dictionary, stack or
walk. Thus the strings of a section are the first text of each string up to the next 0,
the `n`th of them the one that has `n` up to itself; the name of a device is on the
line that is not separated from the vendor's by another vendor.

## 3. Runs

| Run | Bounds | Shows |
|---|---|---|
| `conn_safety` | 2 servers (4 channels), 2 peers, 4 descriptors, batches of 2; descriptors are symmetric | types, `ChannelConservation`, `SocketsAgree`, `PeersAgree`, `OneDialPerPeer`, `StableLookup`, `NeverOverflow` with ring and hash of exactly 4, `ServerKeptWhileAlive`, refinement of `ChannelPool` |
| `conn_live` | 1 server (2 channels), 1 peer, 3 descriptors, batches of 2, no symmetry | with one descriptor more than channels the pool runs empty: `FdAccounted`; `DeadIsReclaimed`, `LostPeerIsDialed` |
| `recv_whole` | 4 packets of 3, 5, 4, 3 bytes, header 2, buffer 8, 2 connections, `p` at most 1 byte below the buffer | `RecvInBounds` for every cutting, until a negative length is read; `WholeIntact`, `PendingKept`, `AllDelivered` until a recv splits the first packet |
| `recv_split` | same | violation: `DeliveredIntact` |
| `send_items` | 2 peers that share 1 dialled channel, 1 application thread and the monitor, rings of 2 slots, echo hashes of 2, 3 items | `NoDangling`, `AnswerMatches`, `LeaksAccounted`, `CleanAddressed`, `AtMostOnce`, `RegisterHeard` |
| `send_leftover` | same | violation: `Addressed` |
| `lifecycle` | 1 server (2 channels, 1 peer), both builds, one event per `epoll_wait` | `LockMatches`, `FreedUnused`, `EndsWhenDeleted`, `ChannelsFreed`, `DeleteReturns` |
| `upper_odd` | 32 bits, 3 * s for s up to 100, and the two fixed sizes | violation: `GetsPowerOfTwo` |
| `devbind` | 3 devices: two ports of one card, and a device two groups list; 15 command lines, 3 first states, both Pythons, both kernels, 2 runs, 1 move of others | `SilentMeansDone`, `OthersLeftAlone`, `UnknownStopsAll`, `ActiveKept`, `StatusIsFresh` |
| `devbind_rollback` | same | violation: `RolledBack` |
| `telemetry` | 2 clients with one path, 2 requests each | `AnswerMatches`, `SaysGoodbye`, `RegisterEnds` |
| `pmdinfo` | all graphs over three files with up to two entries each, some not found, not ELF or not dynamic; all sections of up to 5 bytes; all `pci.ids` of up to 4 lines; the options; directories | `AllDisplayed`, `OutputExact` |

Why the bounds are enough for what is asked: with two peers and two threads every
pair of steps on one peer, and on two different ones, occurs; a fourth descriptor
lets one be accepted, one dialled, one dying and one reused at the same time; a
batch of two lets the second event be of a connection the first one's handling, or
the monitor, has closed meanwhile. `RingCap = HashCap = 4` is the tightest `CapAssumption`
allows (the code's are larger, see `EvenNumbersGetRoom`), so `NeverOverflow` is not an
effect of slack. In `HsRecv` the packets do not divide the buffer, so a recv ends
at every offset of a header and a payload and exactly at the buffer's end. In
`HsSend` three items are REGISTER, data and a second REGISTER: enough for a reuse
of the channel, a full ring (of two slots an `rte_ring` uses one), two producers in one
ring, two items with one id and a third echo that its hash refuses. In the code a
`sendRing` has `HS_RING_SIZE_CROSS_THREAD` (1024) slots and an echo hash
`HS_RING_SIZE_CROSS_PACKET` (10240) entries. `Beyond` bounds how many positions the
consumer goes past a `prod.tail` that was moved back; in the code it goes on until the
32 bits of a position wrap. `MaxItems`, `MaxConns` and `MaxBack` are bounds of the model only; `MaxEvents` is 20 in the
code. In `HsLifecycle` one peer that is added before the start, after it or never, and two
channels, one per thread, give every order of dialling, accepting and deleting.
In `DevBind` a second run meets what the first one, killed anywhere, left in the
kernel; one move of others falls between any two steps of either; two ports of one
card are what `new_id` cannot tell apart. `MaxRuns` and `MaxMoves` are bounds of the
model. Two telemetry clients with one path give every race for the file; two requests
let an answer that was left behind meet the next request. In `PmdInfo` five bytes hold
two strings with what may stand before, between and in them, four lines of `pci.ids`
a vendor or device listed twice with a subdevice, and three files every shape of a
cycle; `MaxDepth` is Python's recursion limit.
Deadlock is checked everywhere but in `HsRecv`, `UpperPower2`, `HsLifecycle` and the
scripts' modules, where the stream, the loop, the module or the script ends.

Fairness. `conn_live`: both threads loop for ever (`WF`); `connectionMutex` is a
DPDK spin lock with no queue, so a thread gets it if it finds it free again and
again (`SF` on the locking actions); `ofp_bind`'s retry and `connect` end. No
fairness on accepting or on a peer's death. `recv_whole`: epoll reports readable
sockets, recv returns, the parse loop runs. `send_items`: the monitor runs, `send`
does not fail for ever on a connection that lives (`SF` on `Flush`, since the mutex
is taken in between), the other end handles what it receives. Nothing is assumed
of the application. `lifecycle`: both threads and a call of the owner that has begun
go on, and the mutex is got as above; the owner need never call anything.
`telemetry`: a client's `register` goes on, and `accept` ends after its two seconds if
nobody connects; nothing is asked of the server, the user or other clients. `devbind`
and `pmdinfo` have no liveness property.

## 4. Proofs

All proofs are checked by TLAPS without assumptions other than the named
`ASSUME`s of the modules.

`HsConnProofs`, for every number of servers, peers and descriptors. `IInv` is the
inductive invariant; the checked properties alone are not inductive, because
what holds between two statements depends on what each thread knows there.
`LockInv` ties the mutex to the program counters, `MonInv` and `EpInv` say what
each thread may rely on at each statement, `ChanInv` that a channel outside the
hash has a socket only while a thread moves it, `PeerInv` and `DialInv` link
peers, channels and dialled descriptors. Every action is one step of the proof,
with its disturbed conjuncts below it. From `IInv` follow `TypeCorrect`,
`Conservation`, `SocketsAgreeAlways`, `LookupIsStable`, `DescriptorsAccounted`,
`PeersAgreeAlways`, `OneDialPerPeerAlways`; `OverflowFree` and
`PoolShortageAlways` (which channels are in use when the pool is found empty; proved
only, no run states it) count channels with the library's facts on cardinality;
`ServerKept` is an action property; `Refinement` maps every step of `HsConn` to a
step of `ChannelPool` or a stutter.

`HsRecvProofs`, for every header size, buffer size and stream of packets that fit
the buffer. `RecvStaysInBounds` uses `BoundsInv` and holds for every cutting, and for
every length `getPacket` reads, from packets or from other bytes, but a negative one.
`PacketsIntact` and `PendingBytesKept` use `WholeInv`: until a recv ends inside
the first packet, the buffer holds exactly the pending bytes. The lemma that
carries them is `HeaderIsFirst`: a header found at `p` can only be that of the
next packet.

`UpperPower2Proofs`, for every width and all sizes that are not negative and have a
power of two above them (the hypothesis `SizesFit`): `EvenNumbersGetRoom`, from the invariant that
after `i` turns exactly the bits 1..i have left `pattern`. With it the assumption
`CapAssumption` of `HsConn` holds for an even `serverCount`: the ring asked for
with 3 * serverCount holds at least that many.

`HsSendProofs`, for every number of threads, peers, channels and items and every
size of the rings. The proof has three layers. `Base` (`TypeCorrect`) is what each
thread's locals say about where it is, which channels are in the pool, and that
numbers and ids run in step; its part `Rings` says that a ring with one producer at a
time keeps its positions in order, at most a ring's size apart, so that different
positions have different slots (`OwnSlots`). The lemmas `SlotsInOrder`, `RingHolds`,
`ShowIs` and `TakeIs` turn the steps of such a ring into those of a queue; the layers
above speak only of queues and, where a collision would break them, carry the premise
`collided = {}`. `Accounted` adds where a live item is pointed to (`LeaksAreAccounted`).
For the rest every item needs its history: `Whole` says that
*some* assignment gives each item made one place on its way (in a sender's hands,
in a ring, in a stream, on the wire, handled), whose hands those are and which item
it is, such that rings, streams, wires and `recvFunc`'s calls contain exactly what it
says (`Traced`). A step moves one item along (`MakeTraced`, `PutTraced`,
`WriteTraced`, `RemoteTraced`) or takes some away (`FewerTraced`). One place per item
is `DeliveredOnce`. While `Clean` holds the assignment also satisfies `Tidy`: one
sender at a time is in `sendOnePeer`, what a channel carries is for the peer it
serves, ids of one peer differ, and what is on its way is not freed; from it follow
`AddressedWhenClean`, `NothingDangles` and `AnswersMatch`. None of these three is
inductive by itself: that an answer meets its own echo rests on ids, those on the two
steps that take one not being interleaved, and that on `overlap`.

`HsLifecycleProofs`, for every number of peers and channels and turns of any length
(the monitor dials any number of peers in one). What a thread has still to do is a
*program*: a sequence of operations that ends at mutex depth 0, never goes below 0
or above 2, and in which a channel taken from the pool is put into the hash by the
next operation. Every turn is one (`TurnPrograms`; since the monitor's turn is a
concatenation of as many parts as there are peers, the lemmas go by induction over
the naturals, which `SetInduction` derives from the library's minimal elements of a
well-founded relation). `Programs` and `Mutual` give `LocksMatch`; `Carried` says
whose hands a channel outside pool and hash is in, and `Course` how far each
operation of `hsModStart` and `hsModDelete` has brought threads and resources, from
which `NothingFreedIsUsed`, `ThreadsEndWhenDeleted` and `AllChannelsFreed` follow.

`DevBindProofs`, for any devices, drivers and command lines and any number of runs
and of moves of others. `IInv` follows the snapshot: until the script acts, and after
it has read again, the dictionary has each device's driver but for those others
touched (`Fresh`, which gives `StatusIsTrue`); a device with a route keeps its mark
and its driver (`Kept`, `RoutesAreKept`); a free device that `new_id` gave the driver
is still in the first loop's dictionary or the second loop's list (`Left`, `Taken`,
`Again`: `OthersAreLeft`); the names that remain are the last of the command line,
and of those before them each is bound, was spoken of or was touched (`Turn`, `Silent`:
`SilenceMeansBound`, where the override of a device is cleared but for a free one named
twice); nothing is changed before the list of names is complete
(`Untouched`: `UnknownNameStops`). The assumptions are what the host guarantees: a
driver that has a device is loaded and a route goes through an interface
(`SystemsAssumption`), the words `none` and `None` name no driver
(`DriversAssumption`).

`TelemetryClientProofs`, for any number of clients, paths and requests. `Apart` says
that a connection is in one place (on its way, in one client's backlog, in one
client's hand), `Exchanges` that an uninterrupted client's connection carries the
request it waits for or its answer and nothing else, `Stages` what a client has said
to the server at each statement. From them `AnswersMatch` and
`EveryClientSaysGoodbye`.

`PmdInfoProofs`, for every graph of libraries, every section, every tree of plugins and
every recursion limit. The two ways through the script have an invariant each.
`Linking`: the stack is a chain in which each file needs the next (`Chain`); what a file
has gone past was displayed, but for the one it is in (`Past`); what was displayed stands
after what it needs (`Ordered`) and is needed by something later or under way
(`Needed`). `Walked(V)`, where the directories entered so far are the `V` that exists:
what is listed in them waits, was entered or was displayed, once (`Scanning`). Both lead to `EverythingDisplayed`. The strings of a section need
the recursive function of `StringsWith`: it exists (`WalkExists`), since each turn
needs only later ones, and `SetInduction` carries a claim from the end of the section
to its beginning. The claim is that the walk from any byte on lists what a reader by
positions lists from there (`StringsListed`): a turn finds the first text, and goes on
behind its 0, or goes on behind the next 0 without it (`TurnIs`); `NthIs` counts what
is listed. That a section with a text has a string (`StringsFound`) follows. For
`pci.ids`, `ParseSteps` turns the fold of `parse` into one step per line, and `Good`
compares, after `k` lines and as long as no `KeyError` ended the script, the
dictionaries with what these lines say of one entry: their keys (`Shape`), which vendor
and device the next line falls to (`Points`), the names kept (`Holds`). After a new
vendor's line the last device's id is still that of the old vendor; a subdevice's line
then belongs to no device (`SubdeviceOf`) and raises the `KeyError`. The lookups then give what `ListedNames` gives
(`NamesListed`); with the invariants of both ways, that what is printed comes from that
database (`PInv`), this is `OutputIsExact`. `WorldsAssumption` says what a file system is: names
lead to files, a directory is listed once, and all hang below the first (`IsTree`: a
symbolic link to a directory above it, which the script would follow for ever, is not
among the inputs), and a directory is not an ELF file; and that a line of `pci.ids` is
a comment, a vendor, a device or a subdevice.

TLC checked the inductive invariants on the runs' instances before they were proved,
with quantifiers over all sets cut to those that occur. It cannot do so where one
quantifies over functions (`Whole` of `HsSendProofs`, `Programs` of
`HsLifecycleProofs`); of these modules it checked the layers below and the properties
themselves.

Only model-checked: the liveness properties `DeadIsReclaimed`, `LostPeerIsDialed`,
`AllDelivered`, `RegisterHeard`, `DeleteReturns` and `RegisterEnds`, which are out of the
prover's reach. Every invariant and action property of a passing run is proved.

## 5. What the checks found in the code

* `recv_split`: a recv that ends inside the first packet of the buffer leaves
  `recvStream.p` at the buffer's start, and the next recv writes over what was
  received (`HsMod.c:385`).
* `send_leftover`: `hsChannelReset` (`HsPeer.c:25`) does not empty `sendRing`; a
  reused channel delivers old items to another peer.
* `upper_odd`: `getUpperPower2` is 0 for odd numbers, so an odd `serverCount`
  (`HsMod.c:500, 509`) asks for a ring and a hash of size 0.
* `devbind_rollback`: `bind_one` keeps `saved_driver` to roll back
  (`dpdk-devbind.py:384`) and returns without doing so when `driver_override` or
  `new_id` cannot be written (413-442); where it does (451, 466), the `Driver_str` it
  has set to "" (401) makes the inner call exit in `unbind_one` (374).

Other things the models show, which are premises or exceptions of the properties, since
no doc, comment or test of the repository speaks of them:

* Rings are created single-producer (`HsRing.c:11`), yet the application's threads and
  the monitor put into one ring. Without the premise `collided = {}`, TLC refutes
  `LeaksAccounted` at the run's own size (one of two items is written over), and
  `AtMostOnce` with two application threads and one peer (`MaxItems = 4`,
  `RingSize = 2`): the later producer moves `prod.tail` back behind the consumer, which
  then takes an old slot again. With `RingSize = 4` it also takes slots that are still
  NULL.
* Without the premise `Clean`, TLC refutes `AnswerMatches` and `NoDangling`: the id is
  taken in two steps (`HsMod.c:47-48`), two items can share one, and the answer to the
  first frees the second while it is being sent.
* A full `sendRing` and a full echo hash drop what they are given, and neither
  `sendOnePeer` (`HsMod.c:53`) nor `onWrite` looks: the item is never freed
  (`LeaksAccounted`), a REGISTER is never sent (`RegisterHeard`).
* A length in the stream is not checked for its sign (`HsMod.c:345-357`): after a recv
  has written over pending bytes, or if the other end sends one, a negative `packetLen`
  moves `recvStream.p` back, `leftLen` grows, and the next recv gets a negative room, a
  huge `size_t`, and writes outside `recvBuf`. With -4 `p` stays where it is and the
  loop of `onRead` does not end. TLC refutes `RecvInBounds` without its premise.
* A free device that is named twice on one command line of `dpdk-devbind.py` is bound by
  the first name; its dictionary still says it is free, so at the second `driver_override`
  is written again (419), the bind fails, and 462-463 return before the lines that
  clear it (473-485), against the comment at 470-472. The script ends with status 0 and
  no word, and the override stays (`FreeTwice` in `SilentMeansDone`).

`FreedUnused` and `DeleteReturns` name what `hsModDelete` gets wrong: it frees `selfIp`
and the mutex (`HsMod.c:538-539`) before it joins the threads, so a thread may dial
with a freed address or wait for ever for a freed lock; and in the OFP build nobody
clears `isRunning` (`HsEpoll.c:203`), so that the join of a running thread does not
return. The demo program never reaches `hsModDelete` (`test/main.c:112-120`).
`FdAccounted` names the leak of a descriptor accepted without a channel
(`HsMod.c:310`); `LeaksAccounted` names the ways an item is lost track of. That
an item queued between `HsMod.c:92` and `:94` precedes REGISTER and is thrown away
by the other end is part of `HsSend` (`Remote`).

In the scripts the properties name, as premises or exceptions, what else the code does
not keep: a device that two groups list loses the mark of its route (`ActiveKept`); an
unknown name in Python 3 is met after the devices before it were rebound
(`UnknownStopsAll`); the check after `new_id` is an error in Python 3
(`dict.items() + dict.items()`, `PostCheck`), which ends the script before it takes
the drivers off again; a Ctrl-C between a request and its response shifts all
later ones (`AnswerMatches`), and one between `send` and `close` says goodbye twice
(`SaysGoodbye`). A telemetry server that connects before `listen` is refused, and the
client ends with a timeout. `dpdk-pmdinfo.py` writes ids with `hex`, which drops
leading zeros, and `pci.ids` has four digits: `vendors["0e11"]` (the docstring's
example, 142) is never found (`OutputExact` speaks of ids of four digits);
Python 3 has no `string.split` (in `search_file`), and no Python an `ElfError`.

## 6. Not modelled, and the plan

1. `Cluster`: two nodes whose accepted channels answer each other, a second
   connection of one peer before the first is seen dead, the items of answers,
   bounded windows and `onWrite`'s blocking send under the mutex (`HsMod.c:436`);
   it composes the roles of `HsConn` with the queues of `HsSend`.
2. Time: the monitor's 5 s and 60 s spans and the echo check's 60 s.
3. `HsStream` as a round trip of REGISTER's two fields in a buffer of 64 bytes.
4. `HsList.h`'s pointers as an implementation of a sequence.

Left out for good: `hsEnvCreate` and argument parsing (calls into ODP and OFP, not
in the repository), the demo program (sequential, configuration only),
`cpu_layout.py` (one pass over `/sys` that prints a table), `dpdk-setup.sh` and the
kernel modules under `setup/`. Of the modelled scripts: texts, sorting and columns, the
JSON inside a `PMD_INFO_STRING`, the lists of directories `search_file` tries, what
pyelftools does with a file, a line of `pci.ids` that cannot be split, and a menu whose
input has ended (the bare `except` at `dpdk-telemetry-client.py:120` then loops for
ever, printing the menu).
