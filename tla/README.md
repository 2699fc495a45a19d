# Verification of tlsn-utils

TLA+ models of the parts of this repository that are hard to test, the TLC
configurations that check them on small instances, and TLAPS proofs of what
matters most for every instance. Paths below are relative to the repository
root; `active.rs`, `stream.rs`, `closing.rs`, `rtt.rs` and `flow_control.rs` are those of
`mux/mux/src/connection`, `set.rs` and `iter.rs` those of `rangeset/src`.

## 1. Inventory

| Component | State | Operations | Hard behaviour | Correct means |
|---|---|---|---|---|
| mux: flow control (`flow_control.rs`, `rtt.rs`) | two windows and a maximum per stream side, one counter per connection | spend, grant, grow, release | grants cross data on the wire; growth shares one budget between streams; updates are batched | credit is conserved, honest peers are never accused, the connection window holds, nobody starves |
| mux: registry and driver (`active.rs`) | streams, inactive streams, owed closes, slot wakers; frames waiting for the socket | open, adopt, claim a slot, deliver, reset, reap, tear down | application tasks, the driver and the peer race for one registry; limited slots; both sockets full | at most `max_num_streams` buffers, one Shared per id, no slot and no wake lost, frames go out |
| mux: handles (`stream.rs`) | half-close state, buffer, wakers, a command channel | read, write, close, drop | shared by siblings and by split halves; drop order; parking for slot, room, credit, data | the end of a stream means the whole stream; nobody parks for ever |
| mux: connection (`connection.rs`, `closing.rs`, `cleanup.rs`) | which phase the connection is in | poll, close, drop | closing handshake, simultaneous close, errors at any point | every stream is released and woken, pending frames leave before the GoAway |
| mux: pings (`rtt.rs`) | the nonce awaited, the pong owed | ping, answer, measure | answers coalesce, and race the close | no honest peer is accused |
| mux: frame codec (`frame/`) | position in a header or body | encode, decode | partial reads and writes, the end within a frame | a frame arrives whole or not at all |
| futures-plex | ring buffer, closed flag, four wakers | read, write, advance, close, drop | close without a lock against registration | FIFO, bounded, no lost wake |
| rangeset | sorted disjoint ranges; lazy iterators over them | union, difference, intersection, split, cover; next, seek | touching and enclosing ranges, in-place merges, seeks that meet what an operator has fetched ahead | same as sets of integers, result normalised, every call returns |
| futures-limit | token bucket, delay line | write, refill, read | time, rounding | never faster than the rate, never early |
| serio | one buffered item per adapter, bounded channels | send, feed, flush, next | cancellation, back-pressure | items arrive once and in order |
| spansy | the position in a transcript | parse, select, redact | text with gaps, framing by length or in chunks, texts cut off | every span is where the sender put the element, redaction hides all of it and no more |
| websocket-relay | table of waiting clients | accept, pair, forward | half-close, dead waiting client | two clients of an id are paired once |
| web-spawn, rand06-compat, test support | glue | | | |

Applications hold `Stream` handles and poll them in their own tasks; a
connection is polled by one task, its driver. They meet in the registry (a
mutex), in each stream's `Shared` (a mutex) and in a bounded command channel
per handle. The two peers meet only on the wire. The other crates are
independent of mux and of each other, but for spansy, which uses rangeset.

## 2. Modules

| Module | Models | State and actions |
|---|---|---|
| `FlowController` | the arithmetic of `flow_control.rs` | operators on a record `[receive_window, max_receive_window, send_window]`; integer widths are `U32_MAX` and `USIZE_MAX` |
| `BoundedPipe` | abstract: pipes with limits that draw on one budget | open, accept, consume, close |
| `WindowFlow` | the streams of a connection seen from the receiver | bytes in flight, buffered and granted per stream; one action per handler |
| `WindowFlowProofs` | the proofs about `WindowFlow` and its shared counter `accumulated` | |
| `Mux` | two peers, each with registry, driver and handles, and the wires between them | see below |
| `MuxProofs` | the proofs about `Mux`: types, slots, registry | |
| `MuxSlotProofs`, `MuxWakeProofs`, `MuxStreamProofs` | more of them: what becomes of an entry; who waits, and why; what a stream carries | |
| `ClosablePipe` | abstract: a bounded queue that can be closed and ends | accept, deliver, close, end |
| `Plex` | `futures-plex`: a duplex, its four halves and the drops of its ends | ring, flags, wakers and locks; one action per access the lock does not guard |
| `PlexProofs` | the proofs about `Plex`: wakes; the queue | |
| `MuxClosing` | two connections from the first frame to the last: pings, the frames staged beside the socket, `close`, the `Closing` handshake, `Cleanup`, the codec piece by piece | one action per state of the loops of `Active::poll` and `Closing::poll` |
| `MuxClosingProofs` | the proofs about `MuxClosing` | |
| `Ranges` | ranges, cursors over them, and the operations that make, change and measure the vector of a `RangeSet`, given what an operand yields | operators; an iterator is a record that names its type |
| `RangeVector` | the vector under the operations in place, whatever the operands yield | the vector, the integers it should hold; one action per method |
| `RangeIter` | the lazy iterators: the four operators, `next` and `seek_end_ge` | operators on iterators |
| `RangeSetOps` | predicates, comparisons, `cover` | operators |
| `RangeSet` | `RangeVector` with operands that are iterators, and an iterator over the set | one action per method and call |
| `RangeProofs` | the proofs about `Ranges` and `RangeVector` | |
| `View`, `Json` | `View` of spansy; the grammar, the spans and the redactions of JSON | operators on RangeSets |
| `Http` | a sender, a transcript with a gap, the iterators `Requests` and `Responses` | text, store, position; `NextMessage` is `Iterator::next` |
| `MC...` | instances for TLC | |

`Mux` composes: its Shared objects carry a `FlowController` record and use its
operators. It keeps windows at their default size; growth is `WindowFlow`'s
subject. Variables keep the names of the code: `streams`, `inactive`,
`owed_close`, `slot_wakers`, `shared`, `pending_write_frame`. A `Shared` is
named by the handle that created it, or `Implicit(p, i)` when the peer's SYN did;
`object[h]` is the `Arc` in a handle, and `HasLiveHandle` is the
`strong_count > 1` of `on_drop_stream`.

How code becomes steps. Code under the registry lock, or under one lock of a
Shared, is one action. `poll_write` is two: activation under the registry lock
(`PollActivate`), then the rest (`PollWrite`), with the driver free to act in
between (`wr = "mid"`). Closing an active stream is two (`SendClose`,
`FinishClose`); `poll_flush`, and `poll_close` that finds the channel full, are
`PollFlush`, which does nothing but ask for room. Dropping a handle is two (`DropShared`, `DropSender`), the
teardown is two (`CloseReceivers` inside `OnGoAway`, `SocketClosed` or `Fail`,
then `DropAllStreams`). Each pass through the loop of `Active::poll` is one
action. The choice between handles in `stream_receivers` and between owed closes
is free, since `SelectAll` and the hash map promise no order. A task that returned Pending is
`parked`, waits for `slot`, `room` or `credit`, and polls again only when the
waker it left behind is fired. Spurious polls are not modelled: they would hide a
lost wake. The one atomic step made of several locks is `SendData`, whose read
and reset of `syn_pending` only a sibling could observe.

Abstractions. A data frame carries one unit. A released Shared is reset to its initial value, which
keeps the state space small and hides nothing: nothing refers to it. The end of
a channel is seen when the channel is empty and the handle dropped. A handle is
used once and closes once. `Mux` leaves the closing handshake and pings to
`MuxClosing`, and has no `read_after_close = false`. The history field `claimed` and the
counters `written` and `taken` exist for the properties.

`WindowFlow` counts bytes in flight instead of queueing frames. Bytes are alike,
so any split into frames is allowed, the sender's included: the model does more
than the code, never less. Whether two round-trips have passed since the last
update is a free choice once a round-trip time is known.

`Plex` takes a poll apart at each access to `CloseState`. Taking the `BiLock` is a
step. Under the lock, parking is three: the waker under the lock, the waker a
close can reach (`Register`), the second look at the flag (`Recheck`). Closing is
the flag, then the waker, both in `poll_close` (with the lock) and in `drop`
(without). Copying bytes and advancing are one step, since a close in between
changes neither indices nor bytes. `BiLock` and `AtomicWaker` are external:
the first keeps the waker of the half that found it taken and fires it on
unlock, the second is read and replaced in one step. A waker fired while the lock
is still held is fired at the unlock, where its owner can first get any further;
had it polled earlier it would wait for the lock and be woken by it. A half is
polled by one task, and a task that has seen its direction end polls no more.
`Idle` names the halves that take the lock to move nothing.

`MuxClosing` reduces the streams of a peer to one writer, whose frames are
numbered in the order the channel accepts them; `Mux` models the rest. It
adds what `Mux` abstracts: a send is two steps of the channel (counted, then
linked), and the driver may close the channel in between; a data frame is two
pieces, header and body, and the socket takes and gives one at a time. A stream
may report a violation (`Violators`), the user may close (`Closers`) or drop
(`Droppers`) at any time. Writing fails exactly when the peer has let go of the
socket; `shut` is the end its reader will see. `at_close` and `seen` are history.

`Ranges` and `RangeIter` write an iterator as a record and a call as a function from it to
what it yields and what it leaves (`Advance`, the dispatch of `Next` and
`SeekEndGe` to the iterator's type). The loops of the code are deterministic, so one
whose body leaves its state unchanged never ends; such a call yields `Hang`. The
binary searches are counts of the ranges that satisfy their predicate, which is
what `partition_point` finds in a sorted vector; `Sorted` puts each range at the
place its rank names. In `RangeVector`, `model` is the
set of integers and, in `RangeSet`, `owed` what an iterator has still to pass, both kept by the
operations of set theory: what the code does is compared with them after each step.

A byte of `Http` is a token: what the parsers never split (a method, a header's
name, a number, CRLF) is one. A view is its RangeSet of indices, in the store's
coordinates, and `Subview`, `Selected` and the redactions use `RangeSetOps` and
`RangeIter`, as spansy uses rangeset. The sender notes in `sent` where it writes each
element; the properties compare that with what the parser says. `httparse` and
the parser `pest` generates are external: the first is modelled by the spans it
hands back, the second by the matching rules of a PEG with implicit whitespace.

## 3. Runs

Every property is stated in natural language above its definition. Every
property of a passing run has a mutant in `PROJECT.json`: a plausible bug
(definitions named `Faulty...` and `UnaccountedWindowUpdate`) under which TLC
finds it violated.

| Run | Question | Instance |
|---|---|---|
| `window_flow` | Does credit-based flow control with auto-tuning hold together, and does it implement `BoundedPipe`? | 2 streams, default window 3, connection window 10, u32 up to 6 |
| `mux_stream` | Is one stream kept consistent and delivered whole, whoever opens it? | a handle at each peer, A writes 3 units on a window of 2, B writes 1 |
| `mux_slots` | Are slots bounded, never leaked, and never awaited in vain? | A has handles for x and y and one slot, B claims x; A's connection may fail |
| `mux_live` | Does a pending frame go out, does credit come back, and does a drop reach the peer? | a handle at each peer, A writes three times on a window of 2, B reads; weak fairness |
| `plex` | Does a close without the lock lose a wake, does the lock, and is each direction a `ClosablePipe`? | rings of 3 bytes, A writes 5, B 1; either end closes or drops at any time |
| `plex_live` | Is what was accepted read, and does a close reach both sides? | rings of 2 bytes, A writes 3; weak fairness |
| `mux_closing` | Does what was accepted leave before Term, is an honest ping never a violation, does a close end both sides without error and leave a clean socket? | A's socket takes one piece, B's eight; one frame and one owed close each, A pings; both close, with and without `close_sync` and `keep_alive`; one violation or one drop |
| `range_set` | Are the sets, the lazy iterators, the predicates and `cover` those of integer sets? | 5 values, so up to 3 ranges: all 32 sets as operands, ranges that touch, enclose, are empty or reversed, nested operators |
| `http` | Are all spans and redactions exact, and is nothing refused that should parse? | requests or responses, two messages, every place for a gap and every place to cut |
| `mux_room`, `mux_closing_deadlock`, `range_seek` | The findings of section 5 | |

Bounds. Two peers are all the protocol has. One slot with two streams makes every
second stream wait, which is where slots, owed closes and implicit streams
compete. A window of 2 with 3 writes uses up the credit, parks the writer and
needs a grant of half a window. `ChannelCap` 2 and `WireCap` 1 fill both queues,
so that both peers stand in front of full sockets. In `mux_live` B writes nothing,
and its channel has room for its updates and one close, as the channel of ten of
the code has (`active.rs:214`); a reader whose writing half competes with it for a
full channel is the subject of `mux_room`. With a window of 4, where an update waits for two
units, and five writes, `CreditReturns` holds as well (a separate run). `DEFAULT_CREDIT` 3 with
`U32_MAX` 6 and a connection window of 10 lets one stream saturate its integer
and two streams exhaust the budget of 4. Five bytes through a ring of three wrap it
in the middle of a write and of a read. In `mux_closing` one side has a full
socket in front of every frame, while what the other has to flush fits (`WireCap`): with both full the
handshake stops, which is finding 2. At most one violation or drop happens
(`Disturbed`). Five values admit sets whose ranges touch none, one or both
neighbours, and three ranges to splice between. Operands by value are read in
order (`Owned`) in the passing run, and sought in (`OwnedSought`) in `range_seek`
alone; and no empty range is the subtrahend of `RangeDiffIter` (section 5).
The transcripts of `http` have one message of any shape or two that fit `MaxTokens`;
shapes cover both framings, an unsupported one, a response without a body, two
chunks, extensions, trailers, an empty line before, empty values, and JSON nested
twice. The transcript ends anywhere and its gap is anywhere. The runs stop when the
handles are used up, so deadlock is not checked: a finished system has no next step.

Fairness (`FairSpec`). Both connections are polled for ever, and a poll serves
the write side and the read side of the socket; each side is weakly fair as a
whole, not per stream. A connection that has failed is torn down. Code without
an await runs to its end, and a reader that is not parked polls again; one that
is parked polls only after its waker is fired. Nothing makes an
application open, write, close, flush or drop. `WindowFlow` has no fairness: who
polls a reader is decided by wakers, which only `Mux` has, so that credit comes
back (`CreditReturns`) is a property of `Mux`.
In `Plex` a poll that has begun and a drop run to their end, readers keep polling
and woken tasks poll again. `plex_live` has no idle calls: `BiLock` keeps no
queue, and a half that takes it over and over for nothing may shut the other out.
In `MuxClosing` both connections are polled, which is what `connection.rs:115` asks
of the user; no user has to send, to finish a send, to close or to drop.

## 4. Proofs

`WindowFlowProofs` proves, for every set of streams, window size and limit that
`ConfigBuilder::build` accepts (`FlowAssumption`: the connection window is at least
the default credits of all streams, in a multiplication that saturates; None is
the largest usize). Where it saturates there is no budget and no window grows
(`BudgetOf`); that the windows fit the connection window is claimed where it does
not, since otherwise so many streams cannot exist.

- `SpecCreditConserved` and `SpecNeverAccused`. Conservation alone is not
  inductive: that a grant fits into the window needs `receive_window + buffer
  <= max_receive_window`, and that the window stays a u32 needs the bounds of
  auto-tuning (`TunedMaxBounds`). The invariant `IInv` is the conjunction over
  the open streams (`StreamInv`) with `accumulated <= Budget`. A body larger
  than the window is then impossible, since what is in flight is part of
  `receive_window`.
- `SpecImplementsBoundedPipe`: initial states map to initial states (`PipeInit`)
  and steps to steps or stutters (`PipeStep`), by the same invariant.

The second part of `WindowFlowProofs` proves what rests on `accumulated` being what the open
windows have grown by: `SpecTypeOK` (a drop never takes the counter below zero),
`SpecControllerInvariants` and `SpecNoOverflow`. A sum over a set is defined by
recursion, which no step can use directly; the invariant `Accounted` says
instead that *some* function over sets of streams adds them up one at a time and
gives `accumulated` for the open ones. Each step then provides the next
function: a window that grows adds to the sets that hold it (`GrowSum`), a drop
takes its stream out (`DropSum`). `BInv` is `IInv`, `Accounted`, and that no window
grows before a rtt is known. `SpecConnectionWindowBound` is about the folded sum itself:
a fold is a function chosen by its recursive equation, the function of `Accounted`
(with the default credits) satisfies it, and nothing else does, since among the finite
sets of streams on which two solutions differ there would be a smallest
(`SumOfWindows`, by `WFMin`, which takes no operator). Streams are counted by
`CountedInvariance`; their names may be infinitely many.

`MuxProofs` assumes only `MuxAssumption`: finitely many ids, handles that name a
peer and an id, a positive limit per peer. Neither the bounds `ChannelCap`,
`WireCap` and `MaxWrites` nor the number of peers or handles matter.

- `SpecTypeOK`: the invariant `Typing` refines `TypeOK` in two ways the steps
  need. Only GoAway lacks an id, so a frame that is handled names one; and a handle
  that is live, closing or half closed has a Shared. There is a lemma for each
  action. That `send_window` stays a natural rests on `OutOfCredit`, that
  `receive_window` does on the overrun test of `OnData`.
- `SpecSlotBound`: `HeldSteps` shows that a step adds at most one id to one
  peer's `streams`, after a count below the limit (`ClaimSlot`, `OnData`);
  `OwedSteps` that a close is owed only when none is (`ReapStream`).
- `SpecRegistryConsistent`: by the invariant `Filed`, which adds two facts.
  `Owners`: a Shared is filed under its own peer and id. `Fresh`: a handle that
  opened nothing names no Shared that is filed. Without them, setting
  `activated` in one Shared, or creating one, could falsify what is said of
  another entry. The case the proof turns on is `ReapStream`: it may forget an
  entry because no handle holds it, which `HasLiveHandle` of both maps tells
  only together with this very invariant. All other steps are `Undisturbed`.

`MuxSlotProofs` and `MuxWakeProofs` go on from `Typing` and `Filed`.

- `SpecNoSlotLeak`: `Slots` says of both maps what the property says of
  `streams`: an entry that is claimed has a handle that holds it or one that is
  leaving (`Claimants`). Both maps are needed, since `ClaimSlot` and `OnData` move
  an entry from one to the other. The step that matters is `ReapStream`, after
  which nobody is leaving, and which keeps an entry only for a handle it has seen.
- `SpecUnclaimedStreamsKept` assumes `NoSiblings`: an id has one handle per peer.
  Then the one handle that could be reported dropped is the one that has not
  claimed the entry, so the driver has no reason to reap the id. With siblings it
  fails, which is a finding below.
- `SpecNoLostSlotWake` needs no such assumption. Its invariant (`AllWait`) adds the
  one case in which a writer sleeps although its stream is on the wire: the peer
  opened it meanwhile. `OnData` then found room, so a writer that waits does so
  because a close is owed, and flushing that close wakes it (`Waiting`).
- `SpecNoLostWake` and `SpecNobodyLeftParked` assume `NoSiblings`, since a `Shared`
  holds one waker of each kind and a second handle would replace the first one's.
  `AllParked` says where the waker lies and why its owner waits. It also covers
  what comes after the teardown: every `Shared` a handle holds is closed, so that
  whoever polls later does not park again.

`MuxStreamProofs` is about what an id carries from one application to the other. It
assumes `NoSiblings`, and `WireAssumption`: two peers, `None` is not the kind of a frame, and
a full window is more than one unit (256 KiB in the code), so that a read that finds
the window full owes no update.

- `SpecEofMeansComplete` and `SpecLeftoversOnlyAfterReap`. Both follow from one
  invariant, `Queues /\ Streaming`, because neither is inductive, nor are the two
  together. `Queues` says which frames lie where: those of a handle in its channel
  bear its id, and a frame that ends a stream carries no data. `Streaming` is, for
  each peer and id, what one end looks like (`Side`) and what is on the way to it
  (`Flows`):
  - `Balance` counts: what the writer was told it had sent is what the reader was
    handed, plus the buffer, the wire, the pending frame and the channel. So at the
    end of a stream it is enough that the last four are empty.
  - `LastOfAll` and `NoneBehind` say they are: no data lies behind a frame that ends
    its stream, in any queue or the one before it, and once the end has been seen
    none is left anywhere. This is what order in all four places comes to.
    It needs that nothing is written after a FIN or by a handle that has been
    reaped (`Closing`, `Idle`), and that an owed close leaves only when its
    handle's channel is empty.
  - `LedIn` and `Reached`: the first frame with a body that travels to a peer
    without the stream opens it, and somebody still carries that frame as long
    as the peer has not seen it. It needs that a writer whose SYN is owed has sent
    nothing (`OwingSyn`), also through a handle that activates late (`BeforeSyn`,
    `Quiet`), and that a stream that is opened has credit for the frame that
    opens it (`Unopened`).
  - `Sent` and `HalfClosed`: who has sent something has opened the stream or has
    reaped it, so that its reset or its FIN is never taken for a new stream.

  There is a lemma for each action. Most actions touch one stream at one peer
  (`Solo`) and either leave a flow as it is (`RecvKept`, `SendKept`) or append a
  frame to a channel (`SendAppends`); the driver moves a frame from one place to the next.
  With siblings both fail: their frames share the id but not the order.

`PlexProofs` holds for every `Cap`, `MaxSent` and `Idle`, and
assumes only `PlexAssumption` and `HalfAssumption`: two ends, a ring of at least one
byte, and that no half is named `None`.

- `SpecTypeOK`: one lemma per step of a poll and of a drop.
- `SpecNoLostUnlock` and `SpecNoLostWake`. The flags are set and read outside the
  lock, so `NoLostWake` is not inductive. A half that sleeps without a waker may
  still be woken: a drop has taken the waker and has not yet called it. A half
  whose waker is not yet stored may not have seen the flag: the drop that
  set it must still come to take the waker. `IInv` says both (`OnTheWay`,
  `Resting`), that a drop takes wakers only after it closed the direction
  (`Published`), and that a half is inside a poll just when it holds the lock and
  that the one who waits is the one the lock knows (`Locking`).
- `SpecImplementsClosablePipe`: a step maps to a step of `ClosablePipe` or a stutter.
  The mapping reads the ring from the cursor, modulo `Cap`; `RingFacts`,
  `TakeFacts` and `PutFacts` are the arithmetic of that reading, and the invariant
  is that bytes lie in it in the order of their numbers (`Numbered`), behind those
  already read (`Behind`).

`MuxClosingProofs` assumes `MuxClosingAssumption` (two peers; nonces are numbers, none
of them `None`; a channel and a socket have room for one item) and `NoneAssumption`.
No bound of the run matters. What p has begun to send is `Line(p)`: what has been
read, what is on the wire and what is in the codec; reading does not change it. What p
has yet to send is `Queue(p)`: the frames `Closing` holds, those staged, the channel.

- `SpecTypeOK`: `Typing` adds what is absent in each phase (`Phases`) and that the room
  promised to a send is kept between counting its command and linking it.
- `SpecFlushedBeforeTerm`. For some c (`Ledger`) the line holds the numbers 1 to c in
  order and without a gap (`LineRun`), the queue those after c up to the last
  accepted (`Run`), and Term is nowhere until the queue ends with it (`OneTerm`). A
  step moves a frame from the head of the queue to the end of the line. A send still
  under way when the channel closes gets a number after `at_close`.
- `SpecPingTracked`. A ping that is out has one token, in one of four places: the ping
  under way, the nonce the other owes, the pong it has staged to take along
  into a close, the pong under way (`Tokens`). So a pong that is read answers the ping
  that is out, and only a violator terminates (`Honest`). `Tokens` is claimed only
  while p is active and not terminating: afterwards p ignores what it is sent.
- `SpecGracefulClose`. What is under way ends with the last piece of a frame (`Framing`).
  While nobody has violated the protocol or dropped a connection, and both have the
  same `close_sync` (`Calm`), no frame carries an error
  (`Polite`), and (`Orderly`): who has heard Term listens no more; who shuts or lets go
  of the socket has said Term and written all of it or, without `close_sync`, has
  heard Term; with `close_sync` finishing takes both. So nobody finds the socket
  closed before it has heard Term, and a frame after Term would contradict `Flushing`.

`RangeProofs` assumes nothing: vectors and operands have any length, ranges any bounds
in `Int`, and an operand yields them in any order, overlapping, empty or reversed. The
provers cannot take a predicate for a parameter, so no induction theorem of the
library can be cited. What can be cited is that every non-empty set of numbers has a
least element; an induction is stated as membership in a set (`NatSet`). The folds of
the community modules choose a function by its recursive equation: `FoldExists` shows
that there is one, and `DifferenceFold`, `PushFold` and `JoinFold` reach its value
through the steps of the loop.

- `DifferenceExact`. In a vector in order the two searches of `remove_range` find
  prefixes (`EndsUpTo`, `StartsBefore`); between them lie the ranges it meets, and
  the splice keeps the order and takes just the range out (`RemoveRangeFacts`).
- `UnionExact`. A push keeps the integers, and the order unless it asks for a sort
  (`PushFacts`). `SortMergeExact` does not need more than non-empty ranges: ranks are
  a permutation (`SortedFacts`), and joining in order of starts never has to look
  behind the last range (`JoinFacts`).
- `SplitOffExact`, `RangeInSetExact`: the one range that a search finds is enough.
- `NewFromIterExact`: where every vector begins, from `SortMergeExact` and the steps of
  the filter (`KeepFold`). `BoundsExact`: `len` adds up (`LenFold`) to the number of
  integers, since the ranges are apart.
- `VectorSetInvariant`: `SetInvariant` for `VectorSpec`, from these. The vector that
  `intersection_mut` and `symmetric_difference_mut` collect has to be in order, which
  is what `YieldsInOrder` says of iterators, and the run `range_set` checks. `RangeSet`
  takes the same actions with what its operands yield; that this is what
  they stand for is `YieldsExactly`.

- `RangeIterExact`, `IntoRangeIterExact`, `RangeIntersectionExact`, `RangeUnionExact`,
  `RangeDiffExact`: the iterators that hold ranges keep what the trait `RangeIterator`
  demands (`iter.rs`). The contract is stated in the integers S that an
  iterator has still to yield and T that it has after a call: `NextContract` (the first of
  the ranges S consists of, and T is the rest) and `SeekContract` (the first that
  ends at n or later, and what it passes over ends before n). Each theorem says that any
  call, in any state of the iterator, keeps it and leaves such a state, so it
  holds of every sequence of calls. A seek is a `next`, or a `next` and then a seek in
  what is left (`SeekIsNext`, `SeekPastNext`); the binary searches of
  the two slice iterators are `SeekAt`. They ask that None, the value for
  `Option::None`, is not a range. Two theorems show where the code falls short: the
  seek of `IntoRangeIter` is exact for the whole vector, not for what is left of it
  (finding 3), and `RangeDiffExact` has to leave out an empty subtrahend inside
  the range.

The combinators over these iterators (`UnionIter` and the like) and the parsers of
spansy call each other through RECURSIVE operators and are model-checked only.

Left to TLC because the prover cannot express them: everything under fairness
(`CreditReturns`, `PendingIsSent`, `DropReachesPeer`, `AcceptedIsRead`, `CloseIsSeen`,
`CloseCompletes`).

## 5. Findings

Shown by a run:

1. `mux_room` (`stream.rs:165`). The reader's window update waits for room with
   the writer's mpsc sender and replaces its waker. With split halves in two
   tasks the writer stays parked, though the stress test of `poll_api.rs` is
   there to rule out "a lost waker". The reader can lose as well: a write, flush
   or close of the other half replaces the reader's waker, the reader, its update
   withheld, parks on an empty buffer, and the peer's writer is out of credit for
   ever. `CreditReturns`, asked of the instance of `mux_room`, fails that way.
2. `mux_closing_deadlock` (`closing.rs:98`). `Closing` flushes without reading. Two
   peers that close at once, each with more to flush than its socket takes,
   wait for each other for ever. `Active` drains its reads for this very reason.
3. `range_seek` (`set.rs:534`). A set passed by value seeks from its beginning
   again, so it yields what it has yielded before. A union that seeks the end of the range it
   is building absorbs the same range over and over: the call never returns
   (`0..2` with the owned set `{1..3}`).

Seen in the models while they were written, each by changing the instance or the
property as said:

- Two violators (`active.rs:730`). After reporting a violation a peer ignores every
  frame, the other's GoAway included, and closes nothing itself. If both report
  one (in `Mux`: a handle of A on x, one of B on y, one slot each) neither
  connection ends. `mux/SPEC.md`, 8.1, demands that both be closed. In
  `MuxClosing`, a violator whose peer closes with `keep_alive` stays too
  (`KeptUp` in `CloseCompletes`): the socket does not end and Term is ignored.
- Siblings (`active.rs:681`). The end of a handle is reported by id. With two
  never-active handles of one id at A and one handle at B, the second report can meet the
  entry the peer created after the first, and removes unclaimed data
  (`UnclaimedStreamsKept`), against `active.rs:50`. And the driver may take a
  sibling's data before the SYN (`LeftoversOnlyAfterReap`).
- Close before open (`stream.rs:367`). A stream closed before it is active
  becomes SendClosed without a FIN; if the peer opens it later, its reader never
  sees the end. `mux/SPEC.md`, 5.3: "SendClosed: local side sent FIN".
- A send under way when draining ends (`closing.rs:85`) is lost, though
  `poll_write` returned Ok.
- If only one peer has `close_sync`, the other lets go of the socket on Term in the
  middle of a frame, and the one that waits reports an error: `GracefulClose`
  asks for peers of one mind.
- `mux/mux/src/lib.rs`, documentation of `keep_alive`: the setting is described
  as a placeholder, but `closing.rs` reads it to decide whether the socket is closed.
- `mux/SPEC.md:159` asks for GoAway with Internal Error at the stream limit, the
  code sends Protocol Error and says why (`active.rs:800`).
- `RangeSet::is_subset(&Range)` (`set.rs:916`) compares the first range only:
  `{0..1, 5..6}` passes for a subset of `0..2`. `QueriesAgree` leaves it out.
- `RangeDiffIter` with an empty subtrahend inside the range splits the range in
  two that touch. `RangeWithRange` leaves it out.
- `cover` is greedy: it may choose more sets than needed. `CoverExact`
  asks for what it covers, not for how few it takes.
- An empty line before a message (`http/span.rs:48`): the parser skips it but takes
  the first CRLF for the end of the first line. `SpansExact` leaves that span out.
- A transcript cut within the data of a chunk makes the iterator panic
  (`http/span.rs:455`); everywhere else it returns Err. After an Err
  it does not move on, and returns the same Err for ever.
- A trailer's value keeps whitespace at its end, a header's does not; the view of
  a JSON string leaves out the whitespace the string begins with, since the
  grammar skips whitespace inside `quoted_string`. `Shown` and `TrailerAt` say so.
- `futures-limit/src/delay.rs:136`: if the io fails in the poll in which it has
  handed over bytes, no packet is pushed for them; the reader finds
  a buffer that is not empty and no packet, and parks without a waker. (From
  reading; not modelled.)

## 6. Not modelled

- Frame headers byte by byte, payload counters, error types, formatting and
  serialisation: data without control.
- In futures-plex: `reunite`, `remaining`, the blocking traits, and a
  `SimplexStream` that is not split (the case without contention).
- In spansy: UTF-8 inside a token (a character split by a gap or by two chunks is
  an error of its own), escapes, booleans and null, lookup by path, visitors.
- futures-limit and websocket-relay: what they promise is about elapsed time, or
  about a websocket library. serio: adapters with at most one buffered item.
- web-spawn, rand06-compat, test support: glue.
- What `prepare_close` does to the streams when a close starts (`active.rs:458-470`:
  receive-closed, readers, writers and slot waiters woken) and the receivers it
  folds in (`active.rs:452`). `Mux` has the teardown of `drop_all_streams`, which also
  closes the channels before it wakes anyone; `MuxClosing` has the close, with the
  streams reduced to the frames they queue.
- An io that buffers what it is given. A piece the socket takes is on its way. `Closing`
  never flushes (`closing.rs:98-113`, `138-151`; `Active` does, `active.rs:561`), so over an
  io that buffers, Term may stay where it is: `CloseCompletes` rests on one that does not.
- Overflow of indices in rangeset: a shift beyond the index type panics where overflow
  checks are on and wraps in a release build; `VectorShift` stays within it. Overflow
  of `Content-Length`.
- In `Plex` a write that was let in before a close is one step with its lock: that race
  is checked at the granularity of the lock.
- `NobodyLeftParked` covers readers and the writers that wait for credit or a slot. One
  that waits for room is woken by its sender, which knows one task only (finding 1).
- `Http` tells tokens apart, not bytes: the method and the code, which the code finds by a
  search for their content (`http/span.rs:59-63`, `181-185`), stand where the line has them.

What is left to TLC: liveness, the combinators of lazy iterators, the predicates that
use them and `cover` of rangeset, and spansy.
