------------------------- MODULE CollectionIndexing -------------------------
(***************************************************************************)
(* One external ERC-721 collection and the two Lambdas that index it.      *)
(*                                                                         *)
(* The snapshotting Lambda starts every minute, several invocations may    *)
(* run beside each other.  One that locks the collection notes a block     *)
(* deep enough not to be reorganized any more, asks the chain who owns     *)
(* which token there, writes the owners, then the baseline of the history, *)
(* and makes the collection live; each is a statement of its own.  Lambda  *)
(* kills an invocation after Timeout; a lock of age Staleness is taken     *)
(* over.                                                                   *)
(*                                                                         *)
(* The live tailing Lambda, of which one invocation runs at a time, takes  *)
(* the transfers of the next blocks from the chain and writes them to the  *)
(* transfers, the history and the owners, then moves the heads.            *)
(*                                                                         *)
(* The chain has at most one transfer in a block.  Blocks number from 1.   *)
(***************************************************************************)
EXTENDS Integers, Sequences, FiniteSetsExt

CONSTANTS
  Tokens, Wallets,
  Zero,          \* the zero address
  Invocations,   \* of the snapshotting Lambda
  Depth,         \* NFT_INDEXER_REORG_DEPTH_BLOCKS
  TailRange,     \* NFT_INDEXER_LIVE_TAIL_RANGE
  Timeout,       \* of the snapshotting Lambda
  Staleness,     \* age at which a snapshot lock is taken over
  MaxBlock,      \* bound: blocks of the chain
  MaxReorgs,     \* bound: reorganizations
  MaxFaults,     \* bound: failed calls, failed statements, killed Lambdas
  None

ASSUME ConstantsAssumption ==
  /\ Zero \notin Wallets /\ None \notin Wallets \cup {Zero} \cup Invocations
  /\ None \notin [owner : Wallets \cup {Zero}, since : Nat]
  /\ Depth \in Nat /\ TailRange \in Nat \ {0}
  /\ Timeout \in Nat /\ Staleness \in Nat /\ Timeout < Staleness
  /\ MaxBlock \in Nat /\ MaxReorgs \in Nat /\ MaxFaults \in Nat

VARIABLES
  chain,       \* chain[b]: the transfer in block b, or None
  collection,  \* the row of external_indexed_contracts
  owners,      \* owners[t]: its row of external_indexed_ownership_721
  history,     \* rows of external_indexed_ownership_721_history
  transfers,   \* rows of external_indexed_transfers
  snapshot,    \* snapshot[i]: what an invocation of the snapshotter holds
  tail,        \* what the invocation of the live tail holds
  reorgs, faults,
  unread       \* tokens the committed snapshot could not read (history)

world  == <<chain, reorgs>>
tables == <<collection, owners, history, transfers>>
vars   == <<world, tables, snapshot, tail, faults, unread>>

NoSnapshot == [phase |-> "idle", at |-> 0, read |-> <<>>, unread |-> {},
               age |-> 0]
NoRange    == [phase |-> "idle", from |-> 0, to |-> 0, events |-> {}]

-----------------------------------------------------------------------------
(* The chain.                                                              *)

Transfer == [token : Tokens, to : Wallets \cup {Zero}]

EventsIn(from, to) ==
  {[token |-> chain[b].token, to |-> chain[b].to, block |-> b] :
     b \in {c \in from .. to : chain[c] # None}}

Latest(events) == CHOOSE e \in events : \A f \in events : f.block <= e.block

OwnerAt(t, b) ==
  LET events == {e \in EventsIn(1, b) : e.token = t}
  IN  IF events = {} THEN Zero ELSE Latest(events).to

\* Mutant: the newest block is as good as any.
NewestBlock == Len(chain)

SafeTarget == Len(chain) - Depth

\* A transfer moves a token, a mint makes it and a burn ends it.
Possible(e, b) == e # None => OwnerAt(e.token, b) # e.to

Mine(e) ==
  /\ Len(chain) < MaxBlock /\ Possible(e, Len(chain))
  /\ chain' = Append(chain, e)
  /\ UNCHANGED <<reorgs, tables, snapshot, tail, faults, unread>>

\* From block b on, the chain is another one of the same length.
Reorganize(b, e) ==
  /\ reorgs < MaxReorgs /\ reorgs' = reorgs + 1
  /\ b > Len(chain) - Depth /\ e # chain[b] /\ Possible(e, b - 1)
  /\ chain' = [c \in 1 .. Len(chain) |->
                 IF c < b THEN chain[c] ELSE IF c = b THEN e ELSE None]
  /\ UNCHANGED <<tables, snapshot, tail, faults, unread>>

-----------------------------------------------------------------------------
(* The snapshot.                                                           *)

\* A grant is created for a collection that is not indexed yet.
Request ==
  /\ collection.status = "absent"
  /\ collection' = [collection EXCEPT !.status = "WAITING_FOR_SNAPSHOTTING"]
  /\ UNCHANGED <<world, owners, history, transfers, snapshot, tail, faults,
                 unread>>

\* Mutant: a snapshot that was begun is never begun again.
WaitingOnly(target) ==
  /\ collection.status = "WAITING_FOR_SNAPSHOTTING" /\ collection.lock = None
  /\ collection.indexed <= target

\* Mutant: a lock is taken over while its holder may be running.
WaitingOrLocked(target) ==
  /\ collection.status \in {"WAITING_FOR_SNAPSHOTTING", "SNAPSHOTTING"}
  /\ collection.indexed <= target

IsWaiting(target) ==
  /\ IF collection.status = "SNAPSHOTTING"
     THEN collection.lock # None /\ collection.age >= Staleness
     ELSE collection.status = "WAITING_FOR_SNAPSHOTTING"
            /\ collection.lock = None
  /\ collection.indexed <= target

LockSnapshot(i) ==
  /\ snapshot[i].phase = "idle" /\ SafeTarget > 0 /\ IsWaiting(SafeTarget)
  /\ collection' = [collection EXCEPT !.status = "SNAPSHOTTING", !.lock = i,
                                      !.target = SafeTarget, !.age = 0]
  /\ snapshot' = [snapshot EXCEPT ![i] = [NoSnapshot EXCEPT !.phase = "validate",
                                                            !.at = SafeTarget]]
  /\ UNCHANGED <<world, owners, history, transfers, tail, faults, unread>>

Unlocked(c, status) == [c EXCEPT !.status = status, !.lock = None, !.target = 0]

\* No ERC-721 contract, or its code could not be fetched.
MarkUnindexable(i) ==
  /\ snapshot[i].phase = "validate"
  /\ collection' = Unlocked(collection, "UNINDEXABLE")
  /\ snapshot' = [snapshot EXCEPT ![i] = NoSnapshot]
  /\ UNCHANGED <<world, owners, history, transfers, tail, faults, unread>>

(* The owners at the noted block; a token whose owner cannot be read is    *)
(* taken for one that does not exist.                                      *)
ReadOwners(i, failed) ==
  /\ snapshot[i].phase = "validate"
  /\ failed # {} => faults < MaxFaults
  /\ faults' = IF failed = {} THEN faults ELSE faults + 1
  /\ LET at == snapshot[i].at IN
     snapshot' = [snapshot EXCEPT ![i] =
       [@ EXCEPT !.phase = "owners", !.unread = failed,
                 !.read = [t \in {u \in Tokens \ failed :
                                    OwnerAt(u, at) # Zero} |-> OwnerAt(t, at)]]]
  /\ UNCHANGED <<world, tables, tail, unread>>

WriteOwners(i) ==
  LET s == snapshot[i] IN
  /\ s.phase = "owners"
  /\ owners' = [t \in Tokens |-> IF t \in DOMAIN s.read
                                 THEN [owner |-> s.read[t], since |-> s.at]
                                 ELSE owners[t]]
  /\ snapshot' = [snapshot EXCEPT ![i] = [@ EXCEPT !.phase = "baseline"]]
  /\ UNCHANGED <<world, collection, history, transfers, tail, faults, unread>>

\* INSERT IGNORE: a row that is there already stays.
Inserted(rows) ==
  history \cup {r \in rows : \A h \in history :
                  ~(h.token = r.token /\ h.block = r.block /\ h.index = r.index)}

WriteBaseline(i) ==
  LET s == snapshot[i] IN
  /\ s.phase = "baseline"
  /\ history' = Inserted({[token |-> t, block |-> s.at, index |-> 0,
                           owner |-> s.read[t]] : t \in DOMAIN s.read})
  /\ snapshot' = [snapshot EXCEPT ![i] = [@ EXCEPT !.phase = "commit"]]
  /\ UNCHANGED <<world, collection, owners, transfers, tail, faults, unread>>

HoldsLock(i) == collection.status = "SNAPSHOTTING" /\ collection.lock = i

CommitSnapshot(i) ==
  LET s == snapshot[i] IN
  /\ s.phase = "commit"
  /\ IF HoldsLock(i) /\ collection.target = s.at
     THEN /\ collection' =
               [Unlocked(collection, "LIVE_TAILING") EXCEPT
                  !.indexed = s.at,
                  !.since = IF collection.since = 0 THEN s.at ELSE @]
          /\ unread' = s.unread
     ELSE UNCHANGED <<collection, unread>>
  /\ snapshot' = [snapshot EXCEPT ![i] = NoSnapshot]
  /\ UNCHANGED <<world, owners, history, transfers, tail, faults>>

\* An error after the validation.
FailSnapshot(i) ==
  /\ snapshot[i].phase \in {"validate", "owners", "baseline", "commit"}
  /\ faults < MaxFaults /\ faults' = faults + 1
  /\ collection' = IF HoldsLock(i)
                   THEN Unlocked(collection, "ERROR_SNAPSHOTTING")
                   ELSE collection
  /\ snapshot' = [snapshot EXCEPT ![i] = NoSnapshot]
  /\ UNCHANGED <<world, owners, history, transfers, tail, unread>>

\* Lambda kills the invocation, or an error before the validation.
KillSnapshot(i) ==
  /\ snapshot[i].phase # "idle"
  /\ faults < MaxFaults /\ faults' = faults + 1
  /\ snapshot' = [snapshot EXCEPT ![i] = NoSnapshot]
  /\ UNCHANGED <<world, tables, tail, unread>>

\* Time passes for the lock and for whoever runs, up to Timeout.
Tick ==
  /\ collection.status = "SNAPSHOTTING" /\ collection.age < Staleness
  /\ \A i \in Invocations : snapshot[i].phase # "idle" =>
       snapshot[i].age < Timeout
  /\ collection' = [collection EXCEPT !.age = @ + 1]
  /\ snapshot' = [i \in Invocations |->
       IF snapshot[i].phase = "idle" THEN snapshot[i]
       ELSE [snapshot[i] EXCEPT !.age = @ + 1]]
  /\ UNCHANGED <<world, owners, history, transfers, tail, faults, unread>>
-----------------------------------------------------------------------------
(* The live tail.                                                          *)

\* Mutant: only full ranges are processed.
FullRangeEnd(from) ==
  IF from + TailRange - 1 <= SafeTarget THEN from + TailRange - 1 ELSE 0

RangeEnd(from) == Min({from + TailRange - 1, SafeTarget})

StartRange ==
  LET from == collection.indexed + 1 IN
  /\ tail.phase = "idle" /\ collection.status = "LIVE_TAILING"
  /\ from <= SafeTarget /\ from <= RangeEnd(from)
  /\ tail' = [phase |-> "fetch", from |-> from, to |-> RangeEnd(from),
              events |-> {}]
  /\ UNCHANGED <<world, tables, snapshot, faults, unread>>

FetchLogs ==
  LET events == EventsIn(tail.from, tail.to) IN
  /\ tail.phase = "fetch"
  /\ tail' = [tail EXCEPT !.events = events,
                !.phase = IF events = {} THEN "advance" ELSE "transfers"]
  /\ UNCHANGED <<world, tables, snapshot, faults, unread>>

\* Mutant: the range counts as processed.
ProcessedAnyway == tail.to

\* The last block processed when the logs could not be fetched.
ProcessedOnFailure == tail.from - 1

FetchFails ==
  /\ tail.phase = "fetch"
  /\ faults < MaxFaults /\ faults' = faults + 1
  /\ tail' = [tail EXCEPT !.phase = "advance", !.to = ProcessedOnFailure]
  /\ UNCHANGED <<world, tables, snapshot, unread>>

WriteTransfers ==
  /\ tail.phase = "transfers"
  /\ transfers' = transfers \cup tail.events
  /\ tail' = [tail EXCEPT !.phase = "history"]
  /\ UNCHANGED <<world, collection, owners, history, snapshot, faults, unread>>

WriteHistory ==
  /\ tail.phase = "history"
  /\ history' = Inserted({[token |-> e.token, block |-> e.block, index |-> 1,
                           owner |-> e.to] : e \in tail.events})
  /\ tail' = [tail EXCEPT !.phase = "owners"]
  /\ UNCHANGED <<world, collection, owners, transfers, snapshot, faults, unread>>

WriteTailedOwners ==
  /\ tail.phase = "owners"
  /\ owners' = [t \in Tokens |->
       LET events == {e \in tail.events : e.token = t} IN
       IF events = {} THEN owners[t]
       ELSE [owner |-> Latest(events).to, since |-> Latest(events).block]]
  /\ tail' = [tail EXCEPT !.phase = "advance"]
  /\ UNCHANGED <<world, collection, history, transfers, snapshot, faults, unread>>

AdvanceHeads ==
  /\ tail.phase = "advance"
  /\ collection' = IF collection.status # "SNAPSHOTTING"
                   THEN [collection EXCEPT !.indexed = tail.to] ELSE collection
  /\ tail' = NoRange
  /\ UNCHANGED <<world, owners, history, transfers, snapshot, faults, unread>>

\* An error is logged and the range left to the next cycle; or a kill.
FailRange ==
  /\ tail.phase # "idle"
  /\ faults < MaxFaults /\ faults' = faults + 1
  /\ tail' = NoRange
  /\ UNCHANGED <<world, tables, snapshot, unread>>
-----------------------------------------------------------------------------
Init ==
  /\ chain = <<>> /\ reorgs = 0 /\ faults = 0
  /\ collection = [status |-> "absent", indexed |-> 0, since |-> 0,
                   lock |-> None, target |-> 0, age |-> 0]
  /\ owners = [t \in Tokens |-> None] /\ history = {} /\ transfers = {}
  /\ snapshot = [i \in Invocations |-> NoSnapshot] /\ tail = NoRange
  /\ unread = {}

SnapshotStep(i) ==
  \/ LockSnapshot(i) \/ MarkUnindexable(i)
  \/ \E failed \in SUBSET Tokens : ReadOwners(i, failed)
  \/ WriteOwners(i) \/ WriteBaseline(i) \/ CommitSnapshot(i)

TailStep ==
  \/ StartRange \/ FetchLogs \/ WriteTransfers \/ WriteHistory
  \/ WriteTailedOwners \/ AdvanceHeads

Next ==
  \/ \E e \in Transfer \cup {None} :
       Mine(e) \/ \E b \in 1 .. Len(chain) : Reorganize(b, e)
  \/ Request \/ Tick \/ TailStep \/ FetchFails \/ FailRange
  \/ \E i \in Invocations : SnapshotStep(i) \/ FailSnapshot(i) \/ KillSnapshot(i)

Spec == Init /\ [][Next]_vars

(* Both Lambdas are started by a schedule and a statement once sent ends;  *)
(* the chain goes on.                                                      *)
FairSpec ==
  /\ Spec /\ WF_vars(Tick) /\ WF_vars(TailStep)
  /\ WF_vars(\E e \in Transfer \cup {None} : Mine(e))
  /\ \A i \in Invocations : WF_vars(SnapshotStep(i))
-----------------------------------------------------------------------------
(* What history and owners say about a token can be trusted from the first *)
(* transfer that was tailed, and before it if the snapshot has read it.    *)
IsKnown(t, b) ==
  \/ t \notin unread /\ OwnerAt(t, collection.since) # Zero
  \/ \E e \in EventsIn(collection.since + 1, b) : e.token = t

RecordedOwner(t, b) ==
  LET rows  == {r \in history : r.token = t /\ r.block <= b}
      block == Max({r.block : r \in rows})
      index == Max({r.index : r \in {s \in rows : s.block = block}})
  IN  IF rows = {} THEN Zero
      ELSE (CHOOSE r \in rows : r.block = block /\ r.index = index).owner

IsLive == collection.status = "LIVE_TAILING"

(* The history, from which xTDH is computed, has the chain's owner of      *)
(* every token at every block that is indexed, whatever was interrupted,   *)
(* taken over or reorganized before.                                       *)
HistoryIsTheChains ==
  IsLive => \A t \in Tokens, b \in collection.since .. collection.indexed :
              IsKnown(t, b) => RecordedOwner(t, b) = OwnerAt(t, b)

(* The owners table, which groups read, is never behind the head, and ahead*)
(* of it only while a range is processed or to be processed again.         *)
OwnersAreTheChains ==
  IsLive => \A t \in Tokens : IsKnown(t, collection.indexed) =>
    /\ owners[t] # None
    /\ owners[t].owner =
         OwnerAt(t, Max({collection.indexed, owners[t].since}))

(* Up to the head the transfers are those of the chain since the snapshot, *)
(* and beyond it there is none that the chain does not have.               *)
TransfersAreTheChains ==
  IsLive =>
    /\ EventsIn(collection.since + 1, collection.indexed) \subseteq transfers
    /\ transfers \subseteq EventsIn(collection.since + 1, Len(chain))

Promise == INSTANCE CollectionLifecycle WITH
  Heads <- 0 .. MaxBlock,
  status <- collection.status, head <- collection.indexed

(* A collection asked for is decided upon, the decision stands and a live  *)
(* collection's head never goes back.                                      *)
KeepsPromise == Promise!FairSpec

(* A live collection's head always gets to every block that can no longer  *)
(* be reorganized.                                                         *)
CatchesUp == IsLive ~> IsLive /\ collection.indexed = SafeTarget
=============================================================================
