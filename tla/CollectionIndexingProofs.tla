---------------------- MODULE CollectionIndexingProofs ----------------------
(***************************************************************************)
(* Proofs about CollectionIndexing, for any tokens, wallets, number of     *)
(* invocations, depths, ranges and bounds.  Three arguments: because       *)
(* Lambda kills an invocation before its lock can be taken over, only the  *)
(* holder of the lock runs (HoldersRun), and so the collection keeps the   *)
(* safety part of its promise; because only blocks that can no longer be   *)
(* reorganized are read, what was read stays true of the chain (RangeOK,   *)
(* TransfersOK); and because every row that is written is true of such a   *)
(* block, it does no harm that INSERT IGNORE keeps the rows of interrupted *)
(* snapshots and repeated ranges (DataInv).                                *)
(***************************************************************************)
EXTENDS CollectionIndexing, SumTheorems, TLAPS

Statuses == {"absent"} \cup Promise!Undecided \cup Promise!Decided

(* Records with the fields of NoSnapshot and NoRange.                      *)
IsSnapshot(s) ==
  s = [phase |-> s.phase, at |-> s.at, read |-> s.read, unread |-> s.unread,
       age |-> s.age]
IsRange(r) ==
  r = [phase |-> r.phase, from |-> r.from, to |-> r.to, events |-> r.events]

ShapeOK ==
  /\ chain \in Seq(Transfer \cup {None}) /\ Len(chain) <= MaxBlock
  /\ collection \in [status : Statuses, indexed : Nat, since : Nat,
                     lock : Invocations \cup {None}, target : Nat, age : Nat]
  /\ snapshot = [i \in Invocations |-> snapshot[i]]
  /\ \A i \in Invocations : IsSnapshot(snapshot[i])
  /\ IsRange(tail)

(* An invocation that runs holds the lock, which is as old as its work.    *)
Holds(i) ==
  /\ collection.status = "SNAPSHOTTING" /\ collection.lock = i
  /\ collection.target = snapshot[i].at
  /\ snapshot[i].at \in Nat /\ 0 < snapshot[i].at /\ snapshot[i].at <= SafeTarget
  /\ snapshot[i].age = collection.age /\ snapshot[i].age <= Timeout

HoldersRun == \A i \in Invocations : snapshot[i].phase # "idle" => Holds(i)

(* Of a collection that was never live nothing is tailed.                  *)
NotLiveOK ==
  ~IsLive => /\ collection.indexed = 0 /\ collection.since = 0
             /\ transfers = {} /\ tail.phase = "idle"

LiveOK ==
  IsLive => /\ collection.since <= collection.indexed
            /\ collection.indexed <= SafeTarget

(* The range being processed is the next one and cannot be reorganized.    *)
RangeOK ==
  tail.phase # "idle" =>
    /\ tail.from \in Nat /\ tail.from = collection.indexed + 1
    /\ tail.to \in Nat /\ tail.to >= tail.from - 1 /\ tail.to <= SafeTarget
    /\ tail.phase \in {"fetch", "transfers", "history", "owners", "advance"}
    /\ tail.phase \in {"transfers", "history", "owners"} =>
         tail.events = EventsIn(tail.from, tail.to)
    /\ tail.phase \in {"history", "owners", "advance"} =>
         EventsIn(tail.from, tail.to) \subseteq transfers

TransfersOK ==
  IsLive =>
    /\ EventsIn(collection.since + 1, collection.indexed) \subseteq transfers
    /\ transfers \subseteq EventsIn(collection.since + 1, SafeTarget)

IndexingInv == ShapeOK /\ HoldersRun /\ NotLiveOK /\ LiveOK /\ RangeOK /\ TransfersOK
-----------------------------------------------------------------------------
(* The transfers of some blocks of a given chain.                          *)
EventsOf(c, x, y) ==
  {[token |-> c[b].token, to |-> c[b].to, block |-> b] :
     b \in {d \in x .. y : c[d] # None}}

(***************************************************************************)
(* Chains that agree on a range of blocks have the same transfers there,   *)
(* and ranges that meet join.                                              *)
(***************************************************************************)
LEMMA SameBlocksSameEvents ==
  ASSUME NEW c1, NEW c2, NEW x, NEW y, \A b \in x .. y : c1[b] = c2[b]
  PROVE  EventsOf(c1, x, y) = EventsOf(c2, x, y)
<1>1. {d \in x .. y : c1[d] # None} = {d \in x .. y : c2[d] # None}
  OBVIOUS
<1>2. \A b \in {d \in x .. y : c1[d] # None} : c1[b] = c2[b]
  OBVIOUS
<1> QED BY <1>1, <1>2 DEF EventsOf

(***************************************************************************)
(* The transfers of two ranges that meet are those of the range they make. *)
(***************************************************************************)
LEMMA RangesJoin ==
  ASSUME NEW c, NEW x \in Int, NEW y \in Int, NEW z \in Int,
         x <= y + 1, y <= z
  PROVE  EventsOf(c, x, z) = EventsOf(c, x, y) \cup EventsOf(c, y + 1, z)
<1>1. x .. z = (x .. y) \cup ((y + 1) .. z)
  OBVIOUS
<1> QED BY <1>1 DEF EventsOf

(***************************************************************************)
(* The chain only grows, and blocks up to the safe target stay.            *)
(***************************************************************************)
LEMMA SafeBlocksStay ==
  ASSUME ShapeOK, NEW e \in Transfer \cup {None},
         Mine(e) \/ \E b \in 1 .. Len(chain) : Reorganize(b, e)
  PROVE  /\ chain' \in Seq(Transfer \cup {None}) /\ Len(chain') <= MaxBlock
         /\ SafeTarget \in Int /\ SafeTarget' \in Int
         /\ SafeTarget <= SafeTarget'
         /\ \A c \in Nat : 0 < c /\ c <= SafeTarget => chain'[c] = chain[c]
<1>1. Depth \in Nat /\ MaxBlock \in Nat /\ Len(chain) \in Nat
  BY ConstantsAssumption DEF ShapeOK
<1>2. CASE Mine(e)
  <2>1. chain' = Append(chain, e) /\ Len(chain) < MaxBlock
    BY <1>2 DEF Mine
  <2>2. /\ chain' \in Seq(Transfer \cup {None}) /\ Len(chain') = Len(chain) + 1
        /\ \A c \in 1 .. Len(chain) : chain'[c] = chain[c]
    BY <2>1 DEF ShapeOK
  <2> QED BY <1>1, <2>1, <2>2 DEF SafeTarget
<1>3. CASE \E b \in 1 .. Len(chain) : Reorganize(b, e)
  <2>1. PICK b \in 1 .. Len(chain) : Reorganize(b, e)
    BY <1>3
  <2>2. /\ b > Len(chain) - Depth
        /\ chain' = [c \in 1 .. Len(chain) |->
                       IF c < b THEN chain[c] ELSE IF c = b THEN e ELSE None]
    BY <2>1 DEF Reorganize
  <2>3. \A c \in 1 .. Len(chain) : chain[c] \in Transfer \cup {None}
    BY DEF ShapeOK
  <2>4. chain' \in [1 .. Len(chain) -> Transfer \cup {None}]
    BY <2>2, <2>3
  <2>5. chain' \in Seq(Transfer \cup {None}) /\ Len(chain') = Len(chain)
    BY <1>1, <2>4
  <2> QED BY <1>1, <2>2, <2>5 DEF SafeTarget, ShapeOK
<1> QED BY <1>2, <1>3
-----------------------------------------------------------------------------
(***************************************************************************)
(* At first nobody runs and nothing is recorded.                           *)
(***************************************************************************)
LEMMA InitInv == Init => IndexingInv
<1> SUFFICES ASSUME Init PROVE IndexingInv
  OBVIOUS
<1>1. ShapeOK
  <2>1. chain \in Seq(Transfer \cup {None}) /\ Len(chain) <= MaxBlock
    BY ConstantsAssumption DEF Init
  <2>2. collection \in [status : Statuses, indexed : Nat, since : Nat,
                        lock : Invocations \cup {None}, target : Nat, age : Nat]
    BY DEF Init, Statuses
  <2>3. IsSnapshot(NoSnapshot) /\ IsRange(NoRange)
    BY DEF IsSnapshot, IsRange, NoSnapshot, NoRange
  <2> QED BY <2>1, <2>2, <2>3 DEF Init, ShapeOK
<1>2. HoldersRun /\ NotLiveOK /\ LiveOK /\ RangeOK /\ TransfersOK
  BY DEF Init, HoldersRun, NoSnapshot, NotLiveOK, LiveOK, RangeOK, NoRange,
         TransfersOK, IsLive
<1> QED BY <1>1, <1>2 DEF IndexingInv

(***************************************************************************)
(* What the chain does cannot touch the blocks that were read.             *)
(***************************************************************************)
LEMMA WorldStep ==
  ASSUME IndexingInv, NEW e \in Transfer \cup {None},
         Mine(e) \/ \E b \in 1 .. Len(chain) : Reorganize(b, e)
  PROVE  IndexingInv'
<1>1. UNCHANGED <<tables, snapshot, tail>>
  BY DEF Mine, Reorganize
<1>2. UNCHANGED <<collection, transfers, snapshot, tail>>
  BY <1>1 DEF tables
<1>3. /\ chain' \in Seq(Transfer \cup {None}) /\ Len(chain') <= MaxBlock
      /\ SafeTarget \in Int /\ SafeTarget' \in Int /\ SafeTarget <= SafeTarget'
      /\ \A c \in Nat : 0 < c /\ c <= SafeTarget => chain'[c] = chain[c]
  BY SafeBlocksStay DEF IndexingInv
<1>4. ShapeOK'
  BY <1>2, <1>3 DEF IndexingInv, ShapeOK
<1>5. HoldersRun'
  BY <1>2, <1>3 DEF IndexingInv, HoldersRun, Holds
<1>6. NotLiveOK' /\ LiveOK'
  <2>1. collection.indexed \in Nat
    BY DEF IndexingInv, ShapeOK
  <2> QED BY <1>2, <1>3, <2>1 DEF IndexingInv, NotLiveOK, LiveOK, IsLive
<1>7. ASSUME NEW x \in Nat, NEW y \in Int, 0 < x, y <= SafeTarget
      PROVE  EventsOf(chain', x, y) = EventsOf(chain, x, y)
  <2>1. \A c \in x .. y : chain'[c] = chain[c]
    BY <1>3, <1>7
  <2> QED BY <2>1, SameBlocksSameEvents
<1>8. RangeOK'
  <2>1. CASE tail.phase = "idle"
    BY <1>2, <2>1 DEF RangeOK
  <2>2. CASE tail.phase # "idle"
    <3>1. EventsOf(chain', tail.from, tail.to) = EventsOf(chain, tail.from, tail.to)
      BY <1>7, <2>2 DEF IndexingInv, RangeOK, ShapeOK
    <3>2. EventsIn(tail.from, tail.to)' = EventsIn(tail.from, tail.to)
      BY <1>2, <3>1 DEF EventsIn, EventsOf
    <3>3. /\ tail.from \in Nat /\ tail.from = collection.indexed + 1
          /\ tail.to \in Nat /\ tail.to >= tail.from - 1 /\ tail.to <= SafeTarget
          /\ tail.phase \in {"fetch", "transfers", "history", "owners", "advance"}
      BY <2>2 DEF IndexingInv, RangeOK
    <3>4. tail.to <= SafeTarget'
      BY <1>3, <3>3
    <3>5. /\ tail.phase \in {"transfers", "history", "owners"} =>
               tail.events = EventsIn(tail.from, tail.to)
          /\ tail.phase \in {"history", "owners", "advance"} =>
               EventsIn(tail.from, tail.to) \subseteq transfers
      BY <2>2 DEF IndexingInv, RangeOK
    <3>6. RangeOK' =
            (tail'.phase # "idle" =>
              /\ tail'.from \in Nat /\ tail'.from = collection'.indexed + 1
              /\ tail'.to \in Nat /\ tail'.to >= tail'.from - 1 /\ tail'.to <= SafeTarget'
              /\ tail'.phase \in {"fetch", "transfers", "history", "owners", "advance"}
              /\ tail'.phase \in {"transfers", "history", "owners"} =>
                   tail'.events = EventsIn(tail.from, tail.to)'
              /\ tail'.phase \in {"history", "owners", "advance"} =>
                   EventsIn(tail.from, tail.to)' \subseteq transfers')
      BY DEF RangeOK
    <3> QED BY <1>2, <3>2, <3>3, <3>4, <3>5, <3>6
  <2> QED BY <2>1, <2>2
<1>9. TransfersOK'
  <2>1. CASE ~IsLive
    BY <1>2, <2>1 DEF TransfersOK, IsLive
  <2>2. CASE IsLive
    <3>1. /\ collection.since \in Nat /\ collection.indexed \in Nat
          /\ collection.indexed <= SafeTarget
      BY <2>2 DEF IndexingInv, ShapeOK, LiveOK
    <3>2. EventsOf(chain', collection.since + 1, collection.indexed)
            = EventsOf(chain, collection.since + 1, collection.indexed)
      BY <1>7, <3>1
    <3>3. EventsOf(chain', collection.since + 1, SafeTarget)
            = EventsOf(chain, collection.since + 1, SafeTarget)
      BY <1>3, <1>7, <3>1
    <3>4. EventsOf(chain', collection.since + 1, SafeTarget)
            \subseteq EventsOf(chain', collection.since + 1, SafeTarget')
      BY <1>3, <3>1 DEF EventsOf
    <3>5. EventsIn(collection.since + 1, SafeTarget)'
            = EventsOf(chain', collection.since + 1, SafeTarget')
      BY <1>2 DEF EventsIn, EventsOf
    <3>6. EventsIn(collection.since + 1, collection.indexed)'
            = EventsOf(chain', collection.since + 1, collection.indexed)
      BY <1>2 DEF EventsIn, EventsOf
    <3>7. /\ EventsOf(chain, collection.since + 1, collection.indexed) \subseteq transfers
          /\ transfers \subseteq EventsOf(chain, collection.since + 1, SafeTarget)
      BY <2>2 DEF IndexingInv, TransfersOK, EventsIn, EventsOf
    <3>8. TransfersOK' =
            (IsLive' =>
              /\ EventsIn(collection.since + 1, collection.indexed)' \subseteq transfers'
              /\ transfers' \subseteq EventsIn(collection.since + 1, SafeTarget)')
      BY DEF TransfersOK
    <3> QED BY <1>2, <3>2, <3>3, <3>4, <3>5, <3>6, <3>7, <3>8
  <2> QED BY <2>1, <2>2
<1> QED BY <1>4, <1>5, <1>6, <1>8, <1>9 DEF IndexingInv
-----------------------------------------------------------------------------
(***************************************************************************)
(* Several fields of a snapshot assigned at once.                          *)
(***************************************************************************)
LEMMA LockedSnapshot ==
  ASSUME NEW t, IsSnapshot(t), NEW x
  PROVE  [t EXCEPT !.phase = "validate", !.at = x]
           = [phase |-> "validate", at |-> x, read |-> t.read,
              unread |-> t.unread, age |-> t.age]
<1> DEFINE s == [phase |-> "validate", at |-> t.at, read |-> t.read,
                 unread |-> t.unread, age |-> t.age]
<1>1. [t EXCEPT !.phase = "validate"] = s
  BY DEF IsSnapshot
<1>2. [s EXCEPT !.at = x]
        = [phase |-> "validate", at |-> x, read |-> t.read,
           unread |-> t.unread, age |-> t.age]
  OBVIOUS
<1>3. [t EXCEPT !.phase = "validate", !.at = x]
        = [[t EXCEPT !.phase = "validate"] EXCEPT !.at = x]
  OBVIOUS
<1> HIDE DEF s
<1> QED BY <1>1, <1>2, <1>3

(***************************************************************************)
(* The record a snapshot leaves when it has read the owners at its block.  *)
(***************************************************************************)
LEMMA ReadSnapshot ==
  ASSUME NEW t, IsSnapshot(t), NEW u, NEW r
  PROVE  [t EXCEPT !.phase = "owners", !.unread = u, !.read = r]
           = [phase |-> "owners", at |-> t.at, read |-> r, unread |-> u,
              age |-> t.age]
<1> DEFINE s1 == [phase |-> "owners", at |-> t.at, read |-> t.read,
                  unread |-> t.unread, age |-> t.age]
           s2 == [phase |-> "owners", at |-> t.at, read |-> t.read,
                  unread |-> u, age |-> t.age]
<1>1. [t EXCEPT !.phase = "owners"] = s1
  BY DEF IsSnapshot
<1>2. [s1 EXCEPT !.unread = u] = s2
  OBVIOUS
<1>3. [s2 EXCEPT !.read = r]
        = [phase |-> "owners", at |-> t.at, read |-> r, unread |-> u,
           age |-> t.age]
  OBVIOUS
<1>4. [t EXCEPT !.phase = "owners", !.unread = u, !.read = r]
        = [[[t EXCEPT !.phase = "owners"] EXCEPT !.unread = u] EXCEPT !.read = r]
  OBVIOUS
<1> HIDE DEF s1, s2
<1> QED BY <1>1, <1>2, <1>3, <1>4

(***************************************************************************)
(* Two invocations never run at once.                                      *)
(***************************************************************************)
LEMMA Exclusive ==
  ASSUME HoldersRun, NEW i \in Invocations, NEW j \in Invocations,
         snapshot[i].phase # "idle", snapshot[j].phase # "idle"
  PROVE  i = j
BY DEF HoldersRun, Holds

(***************************************************************************)
(* While a collection is not live and stays so, there is nothing more to   *)
(* keep than that nothing is recorded.                                     *)
(***************************************************************************)
LEMMA RestKept ==
  ASSUME IndexingInv, UNCHANGED <<chain, transfers, tail>>,
         collection'.indexed = collection.indexed,
         collection'.since = collection.since, IsLive' = IsLive
  PROVE  NotLiveOK' /\ LiveOK' /\ RangeOK' /\ TransfersOK'
<1>1. NotLiveOK' /\ LiveOK'
  BY DEF IndexingInv, NotLiveOK, LiveOK, SafeTarget
<1>2. RangeOK'
  BY DEF IndexingInv, RangeOK, SafeTarget, EventsIn
<1>3. TransfersOK'
  BY DEF IndexingInv, TransfersOK, SafeTarget, EventsIn
<1> QED BY <1>1, <1>2, <1>3

(***************************************************************************)
(* An invocation that was running moves on, or stops, and the collection   *)
(* keeps its lock, or is unlocked as that invocation stops.                *)
(***************************************************************************)
LEMMA HolderMoves ==
  ASSUME IndexingInv, NEW i \in Invocations, snapshot[i].phase # "idle",
         NEW s, IsSnapshot(s), snapshot' = [snapshot EXCEPT ![i] = s],
         UNCHANGED <<chain, tail>>,
         collection' \in [status : Statuses, indexed : Nat, since : Nat,
                          lock : Invocations \cup {None}, target : Nat, age : Nat],
         s.phase # "idle" => /\ collection' = collection
                             /\ s.at = snapshot[i].at /\ s.age = snapshot[i].age
  PROVE  ShapeOK' /\ HoldersRun'
<1>1. /\ snapshot' = [j \in Invocations |-> snapshot'[j]] /\ snapshot'[i] = s
      /\ \A j \in Invocations : j # i => snapshot'[j] = snapshot[j]
  BY DEF IndexingInv, ShapeOK
<1>2. ShapeOK'
  BY <1>1 DEF IndexingInv, ShapeOK, IsSnapshot, IsRange
<1>3. ASSUME NEW j \in Invocations, snapshot'[j].phase # "idle"
      PROVE  Holds(j)'
  <2>1. j = i
    BY <1>1, <1>3, Exclusive DEF IndexingInv
  <2>2. Holds(i)
    BY DEF IndexingInv, HoldersRun
  <2> QED BY <1>1, <1>3, <2>1, <2>2 DEF Holds, SafeTarget
<1> QED BY <1>2, <1>3 DEF HoldersRun

(***************************************************************************)
(* Asking for a collection only puts its row in the queue.                 *)
(***************************************************************************)
LEMMA RequestStep == ASSUME IndexingInv, Request PROVE IndexingInv'
<1>1. /\ collection.status = "absent" /\ UNCHANGED <<chain, transfers, tail, snapshot>>
      /\ collection' = [collection EXCEPT !.status = "WAITING_FOR_SNAPSHOTTING"]
  BY DEF Request, world
<1>2. /\ collection' \in [status : Statuses, indexed : Nat, since : Nat,
                          lock : Invocations \cup {None}, target : Nat, age : Nat]
      /\ collection'.status = "WAITING_FOR_SNAPSHOTTING"
      /\ collection'.indexed = collection.indexed
      /\ collection'.since = collection.since
  BY <1>1 DEF IndexingInv, ShapeOK, Statuses, Promise!Undecided
<1>3. ShapeOK' /\ HoldersRun'
  BY <1>1, <1>2 DEF IndexingInv, ShapeOK, HoldersRun, Holds
<1>4. IsLive' = IsLive
  BY <1>1, <1>2 DEF IsLive
<1> QED BY <1>1, <1>2, <1>3, <1>4, RestKept DEF IndexingInv

(***************************************************************************)
(* A lock is given out when nobody runs: a holder's lock is not old enough *)
(* to be taken over, since Timeout < Staleness.                            *)
(***************************************************************************)
LEMMA LockStep ==
  ASSUME IndexingInv, NEW i \in Invocations, LockSnapshot(i)
  PROVE  IndexingInv'
<1>1. ASSUME NEW j \in Invocations PROVE snapshot[j].phase = "idle"
  <2>1. collection.status = "SNAPSHOTTING" => collection.age >= Staleness
    BY DEF LockSnapshot, IsWaiting
  <2>2. snapshot[j].phase # "idle" =>
          collection.status = "SNAPSHOTTING" /\ collection.age <= Timeout
    BY DEF IndexingInv, HoldersRun, Holds
  <2>3. collection.age \in Nat
    BY DEF IndexingInv, ShapeOK
  <2> QED BY <2>1, <2>2, <2>3, ConstantsAssumption
<1> DEFINE new == [NoSnapshot EXCEPT !.phase = "validate", !.at = SafeTarget]
<1>2. /\ SafeTarget > 0 /\ UNCHANGED <<chain, transfers, tail>>
      /\ snapshot' = [snapshot EXCEPT ![i] = new]
      /\ collection' = [collection EXCEPT !.status = "SNAPSHOTTING", !.lock = i,
                                          !.target = SafeTarget, !.age = 0]
      /\ collection.status \in {"SNAPSHOTTING", "WAITING_FOR_SNAPSHOTTING"}
  <2>1. IsWaiting(SafeTarget) =>
          collection.status \in {"SNAPSHOTTING", "WAITING_FOR_SNAPSHOTTING"}
    BY DEF IsWaiting
  <2> HIDE DEF new
  <2>2. snapshot' = [snapshot EXCEPT ![i] = new]
    BY DEF LockSnapshot, new
  <2> QED BY <2>1, <2>2 DEF LockSnapshot, world
<1>3. SafeTarget \in Nat
  BY <1>2, ConstantsAssumption DEF IndexingInv, ShapeOK, SafeTarget
<1>4. /\ collection' \in [status : Statuses, indexed : Nat, since : Nat,
                          lock : Invocations \cup {None}, target : Nat, age : Nat]
      /\ collection'.status = "SNAPSHOTTING" /\ collection'.lock = i
      /\ collection'.target = SafeTarget /\ collection'.age = 0
      /\ collection'.indexed = collection.indexed
      /\ collection'.since = collection.since
  BY <1>2, <1>3 DEF IndexingInv, ShapeOK, Statuses, Promise!Undecided
<1>5. /\ IsSnapshot(new) /\ new.phase = "validate" /\ new.at = SafeTarget
      /\ new.age = 0
  <2>1. IsSnapshot(NoSnapshot) /\ NoSnapshot.age = 0
    BY DEF IsSnapshot, NoSnapshot
  <2>2. new = [phase |-> "validate", at |-> SafeTarget, read |-> NoSnapshot.read,
               unread |-> NoSnapshot.unread, age |-> 0]
    BY <2>1, LockedSnapshot
  <2> QED BY <2>2 DEF IsSnapshot
<1>6. /\ snapshot' = [j \in Invocations |-> snapshot'[j]] /\ snapshot'[i] = new
      /\ \A j \in Invocations : j # i => snapshot'[j] = snapshot[j]
  BY <1>2 DEF IndexingInv, ShapeOK
<1> HIDE DEF new
<1>7. ShapeOK'
  BY <1>2, <1>4, <1>5, <1>6 DEF IndexingInv, ShapeOK, IsSnapshot, IsRange
<1>8. HoldersRun'
  BY <1>1, <1>2, <1>3, <1>4, <1>5, <1>6, ConstantsAssumption
     DEF HoldersRun, Holds, SafeTarget
<1>9. IsLive' = IsLive
  BY <1>2, <1>4 DEF IsLive
<1> QED BY <1>2, <1>4, <1>7, <1>8, <1>9, RestKept DEF IndexingInv

(***************************************************************************)
(* An invocation that ends without making the collection live.             *)
(***************************************************************************)
LEMMA StopStep ==
  ASSUME IndexingInv, NEW i \in Invocations,
         MarkUnindexable(i) \/ FailSnapshot(i) \/ KillSnapshot(i)
  PROVE  IndexingInv'
<1>1. /\ snapshot[i].phase # "idle" /\ snapshot' = [snapshot EXCEPT ![i] = NoSnapshot]
      /\ UNCHANGED <<chain, transfers, tail>>
  BY DEF MarkUnindexable, FailSnapshot, KillSnapshot, world, tables
<1>2. collection.status = "SNAPSHOTTING"
  BY <1>1 DEF IndexingInv, HoldersRun, Holds
<1>3. \/ collection' = collection
      \/ \E status \in Promise!GivenUp :
           collection' = [collection EXCEPT !.status = status, !.lock = None,
                                            !.target = 0]
  <2>1. \A status : Unlocked(collection, status) =
          [collection EXCEPT !.status = status, !.lock = None, !.target = 0]
    BY DEF Unlocked
  <2>2. \/ collection' = collection
        \/ collection' = Unlocked(collection, "UNINDEXABLE")
        \/ collection' = Unlocked(collection, "ERROR_SNAPSHOTTING")
    BY DEF MarkUnindexable, FailSnapshot, KillSnapshot, tables
  <2>3. "UNINDEXABLE" \in Promise!GivenUp /\ "ERROR_SNAPSHOTTING" \in Promise!GivenUp
    BY DEF Promise!GivenUp
  <2> QED BY <2>1, <2>2, <2>3
<1>4. /\ collection' \in [status : Statuses, indexed : Nat, since : Nat,
                          lock : Invocations \cup {None}, target : Nat, age : Nat]
      /\ collection'.indexed = collection.indexed
      /\ collection'.since = collection.since
      /\ collection'.status # "LIVE_TAILING"
  <2>1. CASE collection' = collection
    BY <1>2, <2>1 DEF IndexingInv, ShapeOK
  <2>2. CASE collection' # collection
    <3>1. PICK status \in Promise!GivenUp :
            collection' = [collection EXCEPT !.status = status, !.lock = None,
                                             !.target = 0]
      BY <1>3, <2>2
    <3>2. status \in Statuses /\ status # "LIVE_TAILING"
      BY DEF Statuses, Promise!Decided, Promise!GivenUp
    <3> QED BY <3>1, <3>2 DEF IndexingInv, ShapeOK
  <2> QED BY <2>1, <2>2
<1>5. IsSnapshot(NoSnapshot) /\ NoSnapshot.phase = "idle"
  BY DEF IsSnapshot, NoSnapshot
<1>6. ShapeOK' /\ HoldersRun'
  BY <1>1, <1>4, <1>5, HolderMoves
<1>7. IsLive' = IsLive
  BY <1>2, <1>4 DEF IsLive
<1> QED BY <1>1, <1>4, <1>6, <1>7, RestKept DEF IndexingInv

(***************************************************************************)
(* An invocation that reads or writes the owners.                          *)
(***************************************************************************)
LEMMA WorkStep ==
  ASSUME IndexingInv, NEW i \in Invocations,
         \/ \E failed \in SUBSET Tokens : ReadOwners(i, failed)
         \/ WriteOwners(i) \/ WriteBaseline(i)
  PROVE  IndexingInv'
<1>1. UNCHANGED <<chain, transfers, tail, collection>> /\ snapshot[i].phase # "idle"
  BY DEF ReadOwners, WriteOwners, WriteBaseline, world, tables
<1>2. \E s : /\ IsSnapshot(s) /\ snapshot' = [snapshot EXCEPT ![i] = s]
             /\ s.at = snapshot[i].at /\ s.age = snapshot[i].age
  <2> DEFINE t == snapshot[i]
             new(p, r, u) == [phase |-> p, at |-> t.at, read |-> r,
                              unread |-> u, age |-> t.age]
  <2>1. t = [phase |-> t.phase, at |-> t.at, read |-> t.read,
             unread |-> t.unread, age |-> t.age]
    BY DEF IndexingInv, ShapeOK, IsSnapshot
  <2>2. \A p, r, u : /\ IsSnapshot(new(p, r, u))
                     /\ new(p, r, u).at = t.at /\ new(p, r, u).age = t.age
    BY DEF IsSnapshot
  <2>3. \E p, r, u : snapshot' = [snapshot EXCEPT ![i] = new(p, r, u)]
    <3>1. CASE WriteOwners(i)
      <4>1. [t EXCEPT !.phase = "baseline"] = new("baseline", t.read, t.unread)
        BY <2>1
      <4> QED BY <3>1, <4>1 DEF WriteOwners
    <3>2. CASE WriteBaseline(i)
      <4>1. [t EXCEPT !.phase = "commit"] = new("commit", t.read, t.unread)
        BY <2>1
      <4> QED BY <3>2, <4>1 DEF WriteBaseline
    <3>3. CASE \E failed \in SUBSET Tokens : ReadOwners(i, failed)
      <4>1. PICK failed \in SUBSET Tokens : ReadOwners(i, failed)
        BY <3>3
      <4> DEFINE r == [v \in {w \in Tokens \ failed : OwnerAt(w, t.at) # Zero}
                         |-> OwnerAt(v, t.at)]
      <4>2. snapshot' = [snapshot EXCEPT ![i] =
              [t EXCEPT !.phase = "owners", !.unread = failed, !.read = r]]
        BY <4>1 DEF ReadOwners
      <4> HIDE DEF r
      <4>3. [t EXCEPT !.phase = "owners", !.unread = failed, !.read = r]
              = new("owners", r, failed)
        BY ReadSnapshot DEF IndexingInv, ShapeOK
      <4> QED BY <4>2, <4>3
    <3> QED BY <3>1, <3>2, <3>3
  <2> QED BY <2>2, <2>3
<1>3. ShapeOK' /\ HoldersRun'
  <2>1. PICK s : /\ IsSnapshot(s) /\ snapshot' = [snapshot EXCEPT ![i] = s]
                 /\ s.at = snapshot[i].at /\ s.age = snapshot[i].age
    BY <1>2
  <2>2. collection' \in [status : Statuses, indexed : Nat, since : Nat,
                         lock : Invocations \cup {None}, target : Nat, age : Nat]
    BY <1>1 DEF IndexingInv, ShapeOK
  <2> QED BY <1>1, <2>1, <2>2, HolderMoves
<1>4. IsLive' = IsLive
  BY <1>1 DEF IsLive
<1> QED BY <1>1, <1>3, <1>4, RestKept DEF IndexingInv

(***************************************************************************)
(* The collection goes live at the block the snapshot was taken of: no     *)
(* transfer is due yet and none is recorded.                               *)
(***************************************************************************)
LEMMA CommitStep ==
  ASSUME IndexingInv, NEW i \in Invocations, CommitSnapshot(i)
  PROVE  IndexingInv'
<1> DEFINE at == snapshot[i].at
<1>1. /\ snapshot[i].phase = "commit" /\ UNCHANGED <<chain, transfers, tail>>
      /\ snapshot' = [snapshot EXCEPT ![i] = NoSnapshot]
  BY DEF CommitSnapshot, world
<1>2. Holds(i)
  BY <1>1 DEF IndexingInv, HoldersRun
<1>3. /\ ~IsLive /\ at \in Nat /\ 0 < at /\ at <= SafeTarget
      /\ HoldsLock(i) /\ collection.target = at
  BY <1>2 DEF Holds, IsLive, HoldsLock
<1>4. collection.since = 0 /\ transfers = {} /\ tail.phase = "idle"
  BY <1>3 DEF IndexingInv, NotLiveOK
<1>5. collection' = [Unlocked(collection, "LIVE_TAILING") EXCEPT
                       !.indexed = at, !.since = at]
  BY <1>3, <1>4 DEF CommitSnapshot, Unlocked, IndexingInv, ShapeOK
<1>6. /\ collection' \in [status : Statuses, indexed : Nat, since : Nat,
                          lock : Invocations \cup {None}, target : Nat, age : Nat]
      /\ collection'.status = "LIVE_TAILING"
      /\ collection'.indexed = at /\ collection'.since = at
  <2>1. /\ Unlocked(collection, "LIVE_TAILING")
             \in [status : Statuses, indexed : Nat, since : Nat,
                  lock : Invocations \cup {None}, target : Nat, age : Nat]
        /\ Unlocked(collection, "LIVE_TAILING").status = "LIVE_TAILING"
    BY DEF IndexingInv, ShapeOK, Statuses, Promise!Decided, Unlocked
  <2> QED BY <1>3, <1>5, <2>1
<1>7. IsSnapshot(NoSnapshot) /\ NoSnapshot.phase = "idle"
  BY DEF IsSnapshot, NoSnapshot
<1>8. ShapeOK' /\ HoldersRun'
  BY <1>1, <1>6, <1>7, HolderMoves
<1>9. NotLiveOK' /\ LiveOK' /\ RangeOK'
  BY <1>1, <1>3, <1>4, <1>6 DEF NotLiveOK, LiveOK, RangeOK, IsLive, SafeTarget
<1>10. TransfersOK'
  <2>1. EventsIn(collection.since + 1, collection.indexed)' = {}
    BY <1>3, <1>6 DEF EventsIn
  <2> QED BY <1>1, <1>4, <2>1 DEF TransfersOK
<1> QED BY <1>8, <1>9, <1>10 DEF IndexingInv

(***************************************************************************)
(* Time passes for the lock and its holder alike.                          *)
(***************************************************************************)
LEMMA TickStep == ASSUME IndexingInv, Tick PROVE IndexingInv'
<1>1. /\ UNCHANGED <<chain, transfers, tail>>
      /\ collection' = [collection EXCEPT !.age = @ + 1]
      /\ snapshot' = [i \in Invocations |->
            IF snapshot[i].phase = "idle" THEN snapshot[i]
            ELSE [snapshot[i] EXCEPT !.age = @ + 1]]
      /\ \A i \in Invocations :
            snapshot[i].phase # "idle" => snapshot[i].age < Timeout
  BY DEF Tick, world
<1>2. /\ collection' \in [status : Statuses, indexed : Nat, since : Nat,
                          lock : Invocations \cup {None}, target : Nat, age : Nat]
      /\ collection'.age = collection.age + 1
      /\ collection'.status = collection.status /\ collection'.lock = collection.lock
      /\ collection'.target = collection.target
      /\ collection'.indexed = collection.indexed
      /\ collection'.since = collection.since
  BY <1>1 DEF IndexingInv, ShapeOK
<1>3. \A i \in Invocations :
        /\ IsSnapshot(snapshot'[i])
        /\ snapshot'[i].phase = snapshot[i].phase /\ snapshot'[i].at = snapshot[i].at
        /\ snapshot[i].phase # "idle" => snapshot'[i].age = snapshot[i].age + 1
  BY <1>1 DEF IndexingInv, ShapeOK, IsSnapshot
<1>4. ShapeOK'
  BY <1>1, <1>2, <1>3 DEF IndexingInv, ShapeOK, IsSnapshot, IsRange
<1>5. HoldersRun'
  <2> SUFFICES ASSUME NEW i \in Invocations, snapshot'[i].phase # "idle"
               PROVE  Holds(i)'
    BY DEF HoldersRun
  <2>1. Holds(i) /\ snapshot'[i].age = snapshot[i].age + 1
    BY <1>3 DEF IndexingInv, HoldersRun
  <2>2. snapshot'[i].age <= Timeout
    BY <1>1, <1>3, <2>1, ConstantsAssumption DEF Holds, IndexingInv, ShapeOK
  <2> QED BY <1>1, <1>2, <1>3, <2>1, <2>2 DEF Holds, SafeTarget
<1>6. IsLive' = IsLive
  BY <1>2 DEF IsLive
<1> QED BY <1>1, <1>2, <1>4, <1>5, <1>6, RestKept DEF IndexingInv
-----------------------------------------------------------------------------
(***************************************************************************)
(* Several fields of a range assigned at once.                             *)
(***************************************************************************)
LEMMA RangeUpdates ==
  ASSUME NEW t, IsRange(t), NEW p, NEW v
  PROVE  /\ [t EXCEPT !.phase = p]
               = [phase |-> p, from |-> t.from, to |-> t.to, events |-> t.events]
         /\ [t EXCEPT !.phase = p, !.to = v]
               = [phase |-> p, from |-> t.from, to |-> v, events |-> t.events]
         /\ [t EXCEPT !.events = v, !.phase = p]
               = [phase |-> p, from |-> t.from, to |-> t.to, events |-> v]
<1> DEFINE s1 == [phase |-> p, from |-> t.from, to |-> t.to, events |-> t.events]
           s2 == [phase |-> t.phase, from |-> t.from, to |-> t.to, events |-> v]
<1>1. [t EXCEPT !.phase = p] = s1
  BY DEF IsRange
<1>2. [s1 EXCEPT !.to = v]
        = [phase |-> p, from |-> t.from, to |-> v, events |-> t.events]
  OBVIOUS
<1>3. [t EXCEPT !.events = v] = s2
  BY DEF IsRange
<1>4. [s2 EXCEPT !.phase = p]
        = [phase |-> p, from |-> t.from, to |-> t.to, events |-> v]
  OBVIOUS
<1>5. /\ [t EXCEPT !.phase = p, !.to = v] = [[t EXCEPT !.phase = p] EXCEPT !.to = v]
      /\ [t EXCEPT !.events = v, !.phase = p]
           = [[t EXCEPT !.events = v] EXCEPT !.phase = p]
  OBVIOUS
<1>6. s1 = [phase |-> p, from |-> t.from, to |-> t.to, events |-> t.events]
  OBVIOUS
<1> HIDE DEF s1, s2
<1> QED BY <1>1, <1>2, <1>3, <1>4, <1>5, <1>6

(***************************************************************************)
(* A range of the tail never ends beyond the safe block.                   *)
(***************************************************************************)
LEMMA RangeEndIsSafe ==
  ASSUME ShapeOK, NEW x \in Nat
  PROVE  RangeEnd(x) \in Int /\ SafeTarget \in Int /\ RangeEnd(x) <= SafeTarget
<1>1. SafeTarget \in Int /\ x + TailRange - 1 \in Int
  BY ConstantsAssumption DEF ShapeOK, SafeTarget
<1>2. ASSUME NEW a \in Int, NEW b \in Int
      PROVE  Min({a, b}) \in {a, b} /\ Min({a, b}) <= b
  <2>1. \E m \in {a, b} : \A y \in {a, b} : m <= y
    <3>1. CASE a <= b
      BY <3>1
    <3>2. CASE b <= a
      BY <3>2
    <3> QED BY <3>1, <3>2
  <2> QED BY <2>1 DEF Min
<1> QED BY <1>1, <1>2 DEF RangeEnd

(***************************************************************************)
(* Steps of the tail within a range, and its abandoning of one: nothing    *)
(* the collection's row says changes.                                      *)
(***************************************************************************)
LEMMA WithinRange ==
  ASSUME IndexingInv, IsLive, UNCHANGED <<chain, collection, snapshot>>,
         IsRange(tail'), RangeOK', TransfersOK'
  PROVE  IndexingInv'
<1>1. ShapeOK'
  BY DEF IndexingInv, ShapeOK
<1>2. HoldersRun'
  BY DEF IndexingInv, HoldersRun, Holds, SafeTarget
<1>3. NotLiveOK' /\ LiveOK'
  BY DEF IndexingInv, NotLiveOK, LiveOK, SafeTarget, IsLive
<1> QED BY <1>1, <1>2, <1>3 DEF IndexingInv

(***************************************************************************)
(* The written transfers stay complete when neither they, the chain nor    *)
(* the row change.                                                         *)
(***************************************************************************)
LEMMA SameTransfers ==
  ASSUME IndexingInv, UNCHANGED <<chain, collection, transfers>>
  PROVE  TransfersOK'
BY DEF IndexingInv, TransfersOK, IsLive, SafeTarget, EventsIn

(***************************************************************************)
(* A tail at work has a live collection and a range that starts after its  *)
(* head.                                                                   *)
(***************************************************************************)
LEMMA TailIsLive ==
  ASSUME IndexingInv, tail.phase # "idle"
  PROVE  IsLive /\ RangeOK /\ IsRange(tail)
BY DEF IndexingInv, NotLiveOK, ShapeOK

(***************************************************************************)
(* A range starts right after the head and ends at a safe block.           *)
(***************************************************************************)
LEMMA StartStep == ASSUME IndexingInv, StartRange PROVE IndexingInv'
<1> DEFINE from == collection.indexed + 1
<1>1. /\ IsLive /\ from \in Nat /\ from <= RangeEnd(from)
      /\ UNCHANGED <<chain, collection, snapshot, transfers>>
      /\ tail' = [phase |-> "fetch", from |-> from, to |-> RangeEnd(from),
                  events |-> {}]
  BY DEF StartRange, IsLive, world, tables, IndexingInv, ShapeOK
<1>2. /\ RangeEnd(from) \in Int /\ SafeTarget \in Int
      /\ RangeEnd(from) <= SafeTarget
  BY <1>1, RangeEndIsSafe DEF IndexingInv
<1>3. /\ tail'.phase = "fetch" /\ tail'.from = from /\ tail'.to = RangeEnd(from)
      /\ IsRange(tail')
  BY <1>1 DEF IsRange
<1>4. SafeTarget' = SafeTarget
  BY <1>1 DEF SafeTarget
<1>5. RangeOK'
  BY <1>1, <1>2, <1>3, <1>4 DEF RangeOK
<1> QED BY <1>1, <1>3, <1>5, WithinRange, SameTransfers

(***************************************************************************)
(* What a fetch brings back is what the chain holds in the range.          *)
(***************************************************************************)
LEMMA FetchStep == ASSUME IndexingInv, FetchLogs \/ FetchFails PROVE IndexingInv'
<1>1. /\ tail.phase = "fetch" /\ UNCHANGED <<chain, collection, snapshot, transfers>>
  BY DEF FetchLogs, FetchFails, world, tables
<1>2. IsLive /\ RangeOK /\ IsRange(tail)
  BY <1>1, TailIsLive
<1>3. SafeTarget' = SafeTarget /\ \A x, y : EventsIn(x, y) = EventsOf(chain, x, y)
  BY <1>1 DEF SafeTarget, EventsIn, EventsOf
<1>4. EventsIn(tail.from, tail.to)' = EventsOf(chain, tail'.from, tail'.to)
  BY <1>1 DEF EventsIn, EventsOf
<1>5. IsRange(tail') /\ RangeOK'
  <2>1. CASE FetchLogs
    <3> DEFINE events == EventsIn(tail.from, tail.to)
               p == IF events = {} THEN "advance" ELSE "transfers"
    <3>1. tail' = [tail EXCEPT !.events = events, !.phase = p]
      BY <2>1 DEF FetchLogs
    <3> HIDE DEF events, p
    <3>2. tail' = [phase |-> p, from |-> tail.from, to |-> tail.to, events |-> events]
      BY <1>2, <3>1, RangeUpdates
    <3>3. /\ tail'.phase = p /\ tail'.from = tail.from /\ tail'.to = tail.to
          /\ tail'.events = events /\ IsRange(tail')
      BY <3>2 DEF IsRange
    <3>4. p \in {"advance", "transfers"} /\ (p = "advance" => events = {})
      BY DEF p
    <3>5. events = EventsOf(chain, tail.from, tail.to)
      BY <1>3 DEF events
    <3> QED BY <1>1, <1>2, <1>3, <1>4, <3>3, <3>4, <3>5 DEF RangeOK
  <2>2. CASE FetchFails
    <3>1. tail' = [tail EXCEPT !.phase = "advance", !.to = tail.from - 1]
      BY <2>2 DEF FetchFails, ProcessedOnFailure
    <3>2. tail' = [phase |-> "advance", from |-> tail.from, to |-> tail.from - 1,
                   events |-> tail.events]
      <4> DEFINE p == "advance"
                 v == tail.from - 1
      <4>1. tail' = [tail EXCEPT !.phase = p, !.to = v]
        BY <3>1
      <4> HIDE DEF p, v
      <4>2. tail' = [phase |-> p, from |-> tail.from, to |-> v, events |-> tail.events]
        BY <1>2, <4>1, RangeUpdates
      <4> QED BY <4>2 DEF p, v
    <3>3. /\ tail'.phase = "advance" /\ tail'.from = tail.from
          /\ tail'.to = tail.from - 1 /\ IsRange(tail')
      BY <3>2 DEF IsRange
    <3>4. collection.indexed \in Nat /\ collection.indexed <= SafeTarget
      BY <1>2 DEF IndexingInv, ShapeOK, LiveOK
    <3>5. EventsOf(chain, tail.from, tail.from - 1) = {}
      BY <1>1, <1>2 DEF EventsOf, RangeOK
    <3> QED BY <1>1, <1>2, <1>3, <1>4, <3>3, <3>4, <3>5 DEF RangeOK
  <2> QED BY <2>1, <2>2
<1> QED BY <1>1, <1>2, <1>5, WithinRange, SameTransfers

(***************************************************************************)
(* Writing a range's transfers, history and owners leaves the head where   *)
(* it is.                                                                  *)
(***************************************************************************)
LEMMA WriteStep ==
  ASSUME IndexingInv, WriteTransfers \/ WriteHistory \/ WriteTailedOwners
  PROVE  IndexingInv'
<1>1. /\ tail.phase \in {"transfers", "history", "owners"}
      /\ UNCHANGED <<chain, collection, snapshot>>
  BY DEF WriteTransfers, WriteHistory, WriteTailedOwners, world
<1>2. IsLive /\ RangeOK /\ IsRange(tail)
  BY <1>1, TailIsLive
<1>3. \E p \in {"history", "owners", "advance"} :
        /\ tail' = [tail EXCEPT !.phase = p]
        /\ p # "history" => UNCHANGED transfers /\ tail.phase # "transfers"
        /\ p = "history" => transfers' = transfers \cup tail.events
  BY DEF WriteTransfers, WriteHistory, WriteTailedOwners
<1>4. PICK p \in {"history", "owners", "advance"} :
        /\ tail' = [tail EXCEPT !.phase = p]
        /\ p # "history" => UNCHANGED transfers /\ tail.phase # "transfers"
        /\ p = "history" => transfers' = transfers \cup tail.events
  BY <1>3
<1>5. /\ tail'.phase = p /\ tail'.from = tail.from /\ tail'.to = tail.to
      /\ tail'.events = tail.events /\ IsRange(tail')
  <2>1. tail' = [phase |-> p, from |-> tail.from, to |-> tail.to,
                 events |-> tail.events]
    BY <1>2, <1>4, RangeUpdates
  <2> QED BY <2>1 DEF IsRange
<1>6. SafeTarget' = SafeTarget /\ \A x, y : EventsIn(x, y) = EventsOf(chain, x, y)
  BY <1>1 DEF SafeTarget, EventsIn, EventsOf
<1>7. EventsIn(tail.from, tail.to)' = EventsOf(chain, tail.from, tail.to)
  BY <1>1, <1>5 DEF EventsIn, EventsOf
<1>8. tail.events = EventsOf(chain, tail.from, tail.to)
  BY <1>1, <1>2, <1>6 DEF RangeOK
<1>9. RangeOK'
  BY <1>1, <1>2, <1>4, <1>5, <1>6, <1>7, <1>8 DEF RangeOK
<1>10. TransfersOK'
  <2>1. CASE UNCHANGED transfers
    BY <1>1, <2>1, SameTransfers
  <2>2. CASE transfers' = transfers \cup tail.events
    <3>1. /\ collection.since \in Nat /\ collection.indexed \in Nat
          /\ collection.since <= collection.indexed
      BY <1>2 DEF IndexingInv, ShapeOK, LiveOK
    <3>2. tail.events \subseteq EventsOf(chain, collection.since + 1, SafeTarget)
      <4>1. SafeTarget \in Int
        BY ConstantsAssumption DEF SafeTarget, IndexingInv, ShapeOK
      <4> QED BY <1>1, <1>2, <1>8, <3>1, <4>1 DEF RangeOK, EventsOf
    <3>3. /\ EventsIn(collection.since + 1, collection.indexed)'
               = EventsOf(chain, collection.since + 1, collection.indexed)
          /\ EventsIn(collection.since + 1, SafeTarget)'
               = EventsOf(chain, collection.since + 1, SafeTarget)
      BY <1>1, <1>6 DEF EventsIn, EventsOf
    <3>4. /\ EventsOf(chain, collection.since + 1, collection.indexed) \subseteq transfers
          /\ transfers \subseteq EventsOf(chain, collection.since + 1, SafeTarget)
      BY <1>2, <1>6 DEF IndexingInv, TransfersOK
    <3> QED BY <2>2, <3>2, <3>3, <3>4 DEF TransfersOK
  <2> QED BY <1>4, <2>1, <2>2
<1> QED BY <1>1, <1>2, <1>5, <1>9, <1>10, WithinRange

(***************************************************************************)
(* A range that fails leaves the head where it was: it is read again.      *)
(***************************************************************************)
LEMMA FailRangeStep == ASSUME IndexingInv, FailRange PROVE IndexingInv'
<1>1. /\ tail.phase # "idle" /\ UNCHANGED <<chain, collection, snapshot, transfers>>
      /\ tail' = NoRange
  BY DEF FailRange, world, tables
<1>2. IsLive /\ IsRange(tail') /\ RangeOK'
  BY <1>1, TailIsLive DEF IsRange, NoRange, RangeOK
<1> QED BY <1>1, <1>2, WithinRange, SameTransfers

(***************************************************************************)
(* The head moves over a range whose transfers have been written.          *)
(***************************************************************************)
LEMMA AdvanceStep == ASSUME IndexingInv, AdvanceHeads PROVE IndexingInv'
<1>1. /\ tail.phase = "advance" /\ UNCHANGED <<chain, snapshot, transfers>>
      /\ tail' = NoRange
  BY DEF AdvanceHeads, world
<1>2. IsLive /\ RangeOK /\ LiveOK
  BY <1>1, TailIsLive DEF IndexingInv
<1>3. collection' = [collection EXCEPT !.indexed = tail.to]
  BY <1>2 DEF AdvanceHeads, IsLive
<1>4. /\ collection' \in [status : Statuses, indexed : Nat, since : Nat,
                          lock : Invocations \cup {None}, target : Nat, age : Nat]
      /\ collection'.status = "LIVE_TAILING" /\ collection'.indexed = tail.to
      /\ collection'.since = collection.since
  BY <1>1, <1>2, <1>3 DEF IndexingInv, ShapeOK, RangeOK, IsLive
<1>5. /\ collection.since \in Nat /\ collection.indexed \in Nat
      /\ collection.since <= collection.indexed
      /\ tail.to \in Nat /\ tail.to >= collection.indexed /\ tail.to <= SafeTarget
      /\ tail.from = collection.indexed + 1
  BY <1>1, <1>2 DEF IndexingInv, ShapeOK, LiveOK, RangeOK
<1>6. ShapeOK' /\ RangeOK'
  BY <1>1, <1>4 DEF IndexingInv, ShapeOK, RangeOK, IsRange, NoRange
<1>7. HoldersRun'
  BY <1>1, <1>2 DEF IndexingInv, HoldersRun, Holds, IsLive
<1>8. NotLiveOK' /\ LiveOK'
  BY <1>1, <1>4, <1>5 DEF NotLiveOK, LiveOK, IsLive, SafeTarget
<1>9. TransfersOK'
  <2>1. EventsOf(chain, collection.since + 1, tail.to)
          = EventsOf(chain, collection.since + 1, collection.indexed)
            \cup EventsOf(chain, tail.from, tail.to)
    <3> DEFINE x == collection.since + 1
               y == collection.indexed
               z == tail.to
    <3>1. /\ x \in Int /\ y \in Int /\ z \in Int /\ x <= y + 1 /\ y <= z
          /\ tail.from = y + 1
      BY <1>5
    <3> HIDE DEF x, y, z
    <3>2. EventsOf(chain, x, z) = EventsOf(chain, x, y) \cup EventsOf(chain, y + 1, z)
      BY <3>1, RangesJoin
    <3> QED BY <3>1, <3>2 DEF x, y, z
  <2>2. /\ EventsOf(chain, collection.since + 1, collection.indexed) \subseteq transfers
        /\ EventsOf(chain, tail.from, tail.to) \subseteq transfers
        /\ transfers \subseteq EventsOf(chain, collection.since + 1, SafeTarget)
    BY <1>1, <1>2 DEF IndexingInv, TransfersOK, RangeOK, EventsIn, EventsOf
  <2>3. /\ EventsIn(collection.since + 1, collection.indexed)'
             = EventsOf(chain, collection.since + 1, tail.to)
        /\ EventsIn(collection.since + 1, SafeTarget)'
             = EventsOf(chain, collection.since + 1, SafeTarget)
    <3>1. SafeTarget' = SafeTarget
      BY <1>1 DEF SafeTarget
    <3> QED BY <1>1, <1>4, <3>1 DEF EventsIn, EventsOf
  <2> QED BY <1>1, <2>1, <2>2, <2>3 DEF TransfersOK
<1> QED BY <1>6, <1>7, <1>8, <1>9 DEF IndexingInv
-----------------------------------------------------------------------------

(***************************************************************************)
(* Every step of the world, the snapshots and the tail keeps IndexingInv.  *)
(***************************************************************************)
LEMMA StepKeepsInv == IndexingInv /\ [Next]_vars => IndexingInv'
<1> SUFFICES ASSUME IndexingInv, [Next]_vars PROVE IndexingInv'
  OBVIOUS
<1>1. CASE UNCHANGED vars
  <2>1. UNCHANGED <<chain, collection, transfers, snapshot, tail>>
    BY <1>1 DEF vars, world, tables
  <2>2. ShapeOK' /\ HoldersRun'
    BY <2>1 DEF IndexingInv, ShapeOK, HoldersRun, Holds, SafeTarget
  <2>3. IsLive' = IsLive
    BY <2>1 DEF IsLive
  <2> QED BY <2>1, <2>2, <2>3, RestKept DEF IndexingInv
<1>2. CASE \E e \in Transfer \cup {None} :
             Mine(e) \/ \E b \in 1 .. Len(chain) : Reorganize(b, e)
  BY <1>2, WorldStep
<1>3. CASE Request \/ Tick
  BY <1>3, RequestStep, TickStep
<1>4. CASE TailStep \/ FetchFails \/ FailRange
  BY <1>4, StartStep, FetchStep, WriteStep, AdvanceStep, FailRangeStep DEF TailStep
<1>5. CASE \E i \in Invocations : SnapshotStep(i) \/ FailSnapshot(i) \/ KillSnapshot(i)
  BY <1>5, LockStep, StopStep, WorkStep, CommitStep DEF SnapshotStep
<1> QED BY <1>1, <1>2, <1>3, <1>4, <1>5 DEF Next

(***************************************************************************)
(* The shape of the row, the ranges and the locks, and the transfers       *)
(* written behind the head, in every reachable state                       *)
(* (lockNextWaitingSnapshotJob, commitSnapshotSuccess,                     *)
(* advanceHeadsIfNotSnapshotting).                                         *)
(***************************************************************************)
THEOREM InvariantHolds == Spec => []IndexingInv
BY InitInv, StepKeepsInv, PTL DEF Spec

(***************************************************************************)
(* However many invocations the schedule starts beside each other, only    *)
(* the holder of the lock ever works on the collection: the Lambda's       *)
(* timeout of 900 s is shorter than the 16 minutes after which             *)
(* lockNextWaitingSnapshotJob takes a lock over.                           *)
(***************************************************************************)
OneSnapshotAtATime ==
  \A i, j \in Invocations :
    snapshot[i].phase # "idle" /\ snapshot[j].phase # "idle" => i = j

(***************************************************************************)
(* At most one invocation works on the collection (the lock that           *)
(* lockNextWaitingSnapshotJob takes).                                      *)
(***************************************************************************)
THEOREM SnapshotsExclude == Spec => []OneSnapshotAtATime
<1>1. IndexingInv => OneSnapshotAtATime
  BY Exclusive DEF IndexingInv, OneSnapshotAtATime
<1> QED BY <1>1, InvariantHolds, PTL

(***************************************************************************)
(* The recorded transfers are those of the chain up to the head, and none  *)
(* is recorded that a reorganization could still take away, whatever       *)
(* processLiveRange was interrupted by and repeated.                       *)
(***************************************************************************)
THEOREM TransfersCorrect == Spec => []TransfersAreTheChains
<1>1. IndexingInv => TransfersAreTheChains
  <2> SUFFICES ASSUME IndexingInv, IsLive PROVE TransfersAreTheChains
    BY DEF TransfersAreTheChains
  <2>1. SafeTarget \in Int /\ Len(chain) \in Nat /\ SafeTarget <= Len(chain)
    BY ConstantsAssumption DEF IndexingInv, ShapeOK, SafeTarget
  <2>2. EventsIn(collection.since + 1, SafeTarget)
          \subseteq EventsIn(collection.since + 1, Len(chain))
    BY <2>1 DEF EventsIn, IndexingInv, ShapeOK
  <2> QED BY <2>2 DEF IndexingInv, TransfersOK, TransfersAreTheChains
<1> QED BY <1>1, InvariantHolds, PTL

(***************************************************************************)
(* Every step is one the collection promises, or changes nothing of it.    *)
(***************************************************************************)
LEMMA StepRefines ==
  IndexingInv /\ [Next]_vars
    => [Promise!Next]_<<collection.status, collection.indexed>>
<1> SUFFICES ASSUME IndexingInv, [Next]_vars
             PROVE  Promise!Next \/ UNCHANGED <<collection.status, collection.indexed>>
  OBVIOUS
<1>1. MaxBlock \in Nat /\ SafeTarget \in Int /\ SafeTarget <= MaxBlock
  BY ConstantsAssumption DEF IndexingInv, ShapeOK, SafeTarget
<1>2. CASE UNCHANGED collection
  BY <1>2
<1>3. CASE Request
  <2>1. /\ collection.status = "absent"
        /\ collection' = [collection EXCEPT !.status = "WAITING_FOR_SNAPSHOTTING"]
    BY <1>3 DEF Request
  <2>2. Promise!Request
    BY <2>1 DEF IndexingInv, ShapeOK, Promise!Request
  <2> QED BY <2>2 DEF Promise!Next
<1>4. CASE Tick
  BY <1>4 DEF Tick, IndexingInv, ShapeOK
<1>5. ASSUME NEW i \in Invocations, LockSnapshot(i)
      PROVE  Promise!Begin \/ UNCHANGED <<collection.status, collection.indexed>>
  <2>1. /\ collection.status \in {"SNAPSHOTTING", "WAITING_FOR_SNAPSHOTTING"}
        /\ collection' = [collection EXCEPT !.status = "SNAPSHOTTING", !.lock = i,
                                            !.target = SafeTarget, !.age = 0]
    BY <1>5 DEF LockSnapshot, IsWaiting
  <2>2. collection'.status = "SNAPSHOTTING" /\ collection'.indexed = collection.indexed
    BY <2>1 DEF IndexingInv, ShapeOK
  <2> QED BY <2>1, <2>2 DEF Promise!Begin
<1>6. ASSUME NEW i \in Invocations,
             MarkUnindexable(i) \/ FailSnapshot(i) \/ KillSnapshot(i)
      PROVE  Promise!GiveUp \/ UNCHANGED <<collection.status, collection.indexed>>
  <2>1. collection.status = "SNAPSHOTTING"
    BY <1>6 DEF MarkUnindexable, FailSnapshot, KillSnapshot, IndexingInv,
                HoldersRun, Holds
  <2>2. \/ collection' = collection
        \/ collection' = Unlocked(collection, "UNINDEXABLE")
        \/ collection' = Unlocked(collection, "ERROR_SNAPSHOTTING")
    BY <1>6 DEF MarkUnindexable, FailSnapshot, KillSnapshot, tables
  <2>3. \A status : /\ Unlocked(collection, status).status = status
                    /\ Unlocked(collection, status).indexed = collection.indexed
    BY DEF Unlocked, IndexingInv, ShapeOK
  <2>4. "UNINDEXABLE" \in Promise!GivenUp /\ "ERROR_SNAPSHOTTING" \in Promise!GivenUp
    BY DEF Promise!GivenUp
  <2> QED BY <2>1, <2>2, <2>3, <2>4 DEF Promise!GiveUp
<1>7. ASSUME NEW i \in Invocations, CommitSnapshot(i)
      PROVE  Promise!GoLive
  <2>1. Holds(i) /\ HoldsLock(i) /\ collection.target = snapshot[i].at
    BY <1>7 DEF CommitSnapshot, IndexingInv, HoldersRun, Holds, HoldsLock
  <2>2. \E since : collection' = [Unlocked(collection, "LIVE_TAILING") EXCEPT
                                 !.indexed = snapshot[i].at, !.since = since]
    BY <1>7, <2>1 DEF CommitSnapshot
  <2>3. /\ collection'.status = "LIVE_TAILING"
        /\ collection'.indexed = snapshot[i].at
    BY <2>2 DEF Unlocked, IndexingInv, ShapeOK
  <2>4. snapshot[i].at \in 0 .. MaxBlock
    BY <1>1, <2>1 DEF Holds
  <2> QED BY <2>1, <2>3, <2>4 DEF Holds, Promise!GoLive
<1>8. CASE AdvanceHeads
  <2>1. IsLive /\ RangeOK
    BY <1>8, TailIsLive DEF AdvanceHeads
  <2>2. collection' = [collection EXCEPT !.indexed = tail.to]
    BY <1>8, <2>1 DEF AdvanceHeads, IsLive
  <2>3. tail.to \in 0 .. MaxBlock /\ tail.to >= collection.indexed
    BY <1>1, <1>8, <2>1 DEF AdvanceHeads, RangeOK, IndexingInv, ShapeOK
  <2>4. collection'.status = collection.status /\ collection'.indexed = tail.to
    BY <2>2 DEF IndexingInv, ShapeOK
  <2>5. Promise!Advance
    BY <2>1, <2>3, <2>4 DEF Promise!Advance, IsLive
  <2> QED BY <2>5 DEF Promise!Next
<1>9. CASE TailStep \/ FetchFails \/ FailRange
  BY <1>2, <1>8, <1>9
     DEF TailStep, StartRange, FetchLogs, WriteTransfers, WriteHistory,
         WriteTailedOwners, FetchFails, FailRange, tables
<1>10. CASE \E i \in Invocations : SnapshotStep(i) \/ FailSnapshot(i) \/ KillSnapshot(i)
  <2>1. PICK i \in Invocations : SnapshotStep(i) \/ FailSnapshot(i) \/ KillSnapshot(i)
    BY <1>10
  <2>2. CASE \/ \E failed \in SUBSET Tokens : ReadOwners(i, failed)
             \/ WriteOwners(i) \/ WriteBaseline(i)
    BY <1>2, <2>2 DEF ReadOwners, WriteOwners, WriteBaseline, tables
  <2> QED BY <1>5, <1>6, <1>7, <2>1, <2>2 DEF SnapshotStep, Promise!Next
<1>11. CASE \E e \in Transfer \cup {None} :
              Mine(e) \/ \E b \in 1 .. Len(chain) : Reorganize(b, e)
  BY <1>2, <1>11 DEF Mine, Reorganize, tables
<1>12. CASE UNCHANGED vars
  BY <1>2, <1>12 DEF vars, tables
<1> QED BY <1>3, <1>4, <1>9, <1>10, <1>11, <1>12 DEF Next

(***************************************************************************)
(* Two Lambdas, one of them many times over, crashes and failures together *)
(* keep the safety half of what CollectionLifecycle promises of a          *)
(* collection: it leaves SNAPSHOTTING once, for good, and a live           *)
(* collection's head never goes back.                                      *)
(***************************************************************************)
THEOREM KeepsPromiseSafely == Spec => Promise!Spec
<1>1. Init => Promise!Init
  BY DEF Init, Promise!Init
<1> QED BY <1>1, InvariantHolds, StepRefines, PTL DEF Spec, Promise!Spec
-----------------------------------------------------------------------------
(* What the tables say is true of the chain, and they say enough: every    *)
(* token the snapshot has read has a row at its block and every transfer   *)
(* since then one at its own; the owners are as new as that.               *)
HasRow(t, b)     == \E h \in history : h.token = t /\ h.block = b
OwnedSince(t, b) == owners[t] # None /\ owners[t].since >= b

RowsOK ==
  \A h \in history : /\ h.block \in Nat /\ h.block <= SafeTarget
                     /\ h.index \in {0, 1}
                     /\ h.owner = OwnerAt(h.token, h.block)

OwnersOK ==
  \A t \in Tokens : owners[t] # None =>
    /\ owners[t].since \in Nat /\ owners[t].since <= SafeTarget
    /\ owners[t].owner = OwnerAt(t, owners[t].since)

OwnersRead(failed, at) ==
  [t \in {u \in Tokens \ failed : OwnerAt(u, at) # Zero} |-> OwnerAt(t, at)]

(* What an invocation of the snapshotter has read and written.             *)
SnapshotOK(s) ==
  /\ s.phase \in {"owners", "baseline", "commit"} =>
       s.read = OwnersRead(s.unread, s.at)
  /\ s.phase \in {"baseline", "commit"} =>
       \A t \in DOMAIN s.read : OwnedSince(t, s.at)
  /\ s.phase = "commit" => \A t \in DOMAIN s.read : HasRow(t, s.at)

SnapshotsOK == \A i \in Invocations : SnapshotOK(snapshot[i])

(* What the tables have of a live collection.                              *)
ReachOK ==
  IsLive =>
    /\ \A t \in Tokens : t \notin unread /\ OwnerAt(t, collection.since) # Zero =>
         HasRow(t, collection.since) /\ OwnedSince(t, collection.since)
    /\ \A e \in EventsIn(collection.since + 1, collection.indexed) :
         HasRow(e.token, e.block) /\ OwnedSince(e.token, e.block)

(* What they have of the range being processed.                            *)
WrittenOK ==
  /\ tail.phase \in {"owners", "advance"} =>
       \A e \in EventsIn(tail.from, tail.to) : HasRow(e.token, e.block)
  /\ tail.phase = "advance" =>
       \A e \in EventsIn(tail.from, tail.to) : OwnedSince(e.token, e.block)

DataInv == RowsOK /\ OwnersOK /\ SnapshotsOK /\ ReachOK /\ WrittenOK
-----------------------------------------------------------------------------
(***************************************************************************)
(* Of some naturals below a bound one is the greatest, which is Max.       *)
(***************************************************************************)
LEMMA GreatestIsMax ==
  ASSUME NEW n \in Nat, NEW S, S \subseteq 0 .. n, S # {}
  PROVE  Max(S) \in S /\ \A x \in S : x <= Max(S)
<1> DEFINE G == {T \in SUBSET (0 .. n) :
                   T = {} \/ \E m \in T : \A x \in T : m >= x}
<1>1. IsFiniteSet(0 .. n)
  BY FS_Interval
<1>2. {} \in G
  OBVIOUS
<1>3. ASSUME NEW T \in SUBSET (0 .. n), T # {}, \A x \in T : T \ {x} \in G
      PROVE  T \in G
  <2>1. PICK a \in T : TRUE
    BY <1>3
  <2>2. CASE T \ {a} = {}
    <3>1. \A x \in T : a >= x
      BY <2>1, <2>2
    <3> QED BY <2>1, <3>1
  <2>3. CASE T \ {a} # {}
    <3>1. PICK m \in T \ {a} : \A x \in T \ {a} : m >= x
      BY <1>3, <2>1, <2>3
    <3>2. a \in Nat /\ m \in Nat /\ \A x \in T : x \in Nat
      BY <2>1, <3>1
    <3>3. CASE a >= m
      <4>1. \A x \in T : a >= x
        BY <3>1, <3>2, <3>3
      <4> QED BY <2>1, <4>1
    <3>4. CASE ~ (a >= m)
      <4>1. \A x \in T : m >= x
        BY <3>1, <3>2, <3>4
      <4> QED BY <3>1, <4>1
    <3> QED BY <3>3, <3>4
  <2> QED BY <2>2, <2>3
<1>4. \A T \in SUBSET (0 .. n) : T \in G
  <2> HIDE DEF G
  <2> QED BY <1>1, <1>2, <1>3, SubsetInduction, ZenonT(30)
<1>5. \E m \in S : \A x \in S : m >= x
  BY <1>4
<1>6. Max(S) \in S /\ \A x \in S : Max(S) >= x
  BY <1>5 DEF Max
<1> QED BY <1>6
-----------------------------------------------------------------------------
(* The owner of a token at a block of a given chain.                       *)
TransfersOf(c, t, y) == {e \in EventsOf(c, 1, y) : e.token = t}
OwnerOf(c, t, y) == IF TransfersOf(c, t, y) = {} THEN Zero
                    ELSE Latest(TransfersOf(c, t, y)).to

(***************************************************************************)
(* OwnerAt is OwnerOf on the current chain.                                *)
(***************************************************************************)
LEMMA OwnerAtIsOwnerOf ==
  ASSUME NEW t, NEW y PROVE OwnerAt(t, y) = OwnerOf(chain, t, y)
BY DEF OwnerAt, OwnerOf, TransfersOf, EventsIn, EventsOf

(***************************************************************************)
(* A transfer is one of its block.                                         *)
(***************************************************************************)
LEMMA EventFacts ==
  ASSUME NEW c, NEW x, NEW y, NEW e \in EventsOf(c, x, y)
  PROVE  /\ e.block \in x .. y /\ c[e.block] # None
         /\ e.token = c[e.block].token /\ e.to = c[e.block].to
         /\ e = [token |-> c[e.block].token, to |-> c[e.block].to,
                 block |-> e.block]
BY DEF EventsOf

(***************************************************************************)
(* Of some transfers one is the latest, and it is theirs.                  *)
(***************************************************************************)
LEMMA LatestIsLast ==
  ASSUME NEW c, NEW x \in Nat, NEW y \in Int, NEW S,
         S \subseteq EventsOf(c, x, y), S # {}
  PROVE  Latest(S) \in S /\ \A f \in S : f.block <= Latest(S).block
<1> DEFINE B == {f.block : f \in S}
<1>1. \A f \in S : f.block \in x .. y
  BY EventFacts
<1>2. y \in Nat /\ B \subseteq 0 .. y /\ B # {}
  <2>1. PICK f \in S : TRUE
    OBVIOUS
  <2>2. f.block \in x .. y
    BY <1>1
  <2>3. \A b \in B : b \in x .. y
    BY <1>1
  <2> QED BY <2>1, <2>2, <2>3
<1> HIDE DEF B
<1>3. Max(B) \in B /\ \A b \in B : b <= Max(B)
  BY <1>2, GreatestIsMax
<1>4. PICK e \in S : e.block = Max(B)
  BY <1>3 DEF B
<1>5. \A f \in S : f.block <= e.block
  BY <1>3, <1>4 DEF B
<1> QED BY <1>5 DEF Latest

(***************************************************************************)
(* The owner depends on the blocks up to the one asked for only.           *)
(***************************************************************************)
LEMMA OwnerStays ==
  ASSUME NEW c1, NEW c2, NEW t, NEW y, \A b \in 1 .. y : c1[b] = c2[b]
  PROVE  OwnerOf(c1, t, y) = OwnerOf(c2, t, y)
<1>1. EventsOf(c1, 1, y) = EventsOf(c2, 1, y)
  BY SameBlocksSameEvents
<1> QED BY <1>1 DEF OwnerOf, TransfersOf

(***************************************************************************)
(* Without a transfer the owner stays the same.                            *)
(***************************************************************************)
LEMMA OwnerWithoutTransfer ==
  ASSUME NEW c, NEW t, NEW x \in Nat, NEW y \in Int, x <= y,
         \A e \in EventsOf(c, x + 1, y) : e.token # t
  PROVE  OwnerOf(c, t, y) = OwnerOf(c, t, x)
<1>1. EventsOf(c, 1, y) = EventsOf(c, 1, x) \cup EventsOf(c, x + 1, y)
  <2>1. 1 \in Int /\ 1 <= x + 1 /\ x \in Int
    OBVIOUS
  <2> QED BY <2>1, RangesJoin
<1>2. TransfersOf(c, t, y) = TransfersOf(c, t, x)
  BY <1>1 DEF TransfersOf
<1> QED BY <1>2 DEF OwnerOf

(***************************************************************************)
(* At its block, a transfer's receiver is the owner.                       *)
(***************************************************************************)
LEMMA OwnerAfterTransfer ==
  ASSUME NEW c, NEW x \in Nat, NEW y \in Int, 0 < x, NEW e \in EventsOf(c, x, y)
  PROVE  OwnerOf(c, e.token, e.block) = e.to
<1> DEFINE S == TransfersOf(c, e.token, e.block)
<1>1. /\ e.block \in Nat /\ 1 <= e.block /\ c[e.block] # None
      /\ e = [token |-> c[e.block].token, to |-> c[e.block].to, block |-> e.block]
  BY EventFacts
<1>2. e \in EventsOf(c, 1, e.block)
  <2> DEFINE b == e.block
  <2>1. b \in {d \in 1 .. b : c[d] # None}
    BY <1>1
  <2>2. [token |-> c[b].token, to |-> c[b].to, block |-> b] \in EventsOf(c, 1, b)
    BY <2>1 DEF EventsOf
  <2> QED BY <1>1, <2>2
<1>3. e \in S /\ S \subseteq EventsOf(c, 1, e.block) /\ S # {}
  BY <1>2 DEF TransfersOf
<1>4. Latest(S) \in S /\ \A f \in S : f.block <= Latest(S).block
  <2> HIDE DEF S
  <2>1. 1 \in Nat /\ e.block \in Int
    BY <1>1
  <2> QED BY <1>3, <2>1, LatestIsLast
<1>5. Latest(S) \in EventsOf(c, 1, e.block)
  BY <1>3, <1>4
<1>6. Latest(S).block \in 1 .. e.block /\ Latest(S).to = c[Latest(S).block].to
  <2> HIDE DEF S
  <2> QED BY <1>5, EventFacts
<1>7. Latest(S).block = e.block
  BY <1>1, <1>3, <1>4, <1>6
<1>8. Latest(S).to = e.to
  BY <1>1, <1>6, <1>7
<1> QED BY <1>3, <1>8 DEF OwnerOf

(***************************************************************************)
(* An owner is a wallet or nobody.                                         *)
(***************************************************************************)
LEMMA OwnerType ==
  ASSUME NEW c \in Seq(Transfer \cup {None}), NEW t, NEW y \in Int, y <= Len(c)
  PROVE  OwnerOf(c, t, y) \in Wallets \cup {Zero}
<1> DEFINE S == TransfersOf(c, t, y)
<1>1. CASE S = {}
  BY <1>1 DEF OwnerOf
<1>2. CASE S # {}
  <2>1. S \subseteq EventsOf(c, 1, y)
    BY DEF TransfersOf
  <2>2. Latest(S) \in S
    <3> HIDE DEF S
    <3>1. 1 \in Nat
      OBVIOUS
    <3> QED BY <1>2, <2>1, <3>1, LatestIsLast
  <2>3. Latest(S) \in EventsOf(c, 1, y)
    BY <2>1, <2>2
  <2>4. /\ Latest(S).block \in 1 .. y /\ c[Latest(S).block] # None
        /\ Latest(S).to = c[Latest(S).block].to
    <3> HIDE DEF S
    <3> QED BY <2>3, EventFacts
  <2>5. c[Latest(S).block] \in Transfer
    BY <2>4
  <2> QED BY <1>2, <2>4, <2>5 DEF OwnerOf, Transfer
<1> QED BY <1>1, <1>2
-----------------------------------------------------------------------------
(* What every step leaves of the chain, and most steps of the rest.        *)
PastStays ==
  /\ SafeTarget \in Int /\ SafeTarget' \in Int /\ SafeTarget <= SafeTarget'
  /\ \A b \in Nat : 0 < b /\ b <= SafeTarget => chain'[b] = chain[b]

SameHeads ==
  /\ collection'.since = collection.since /\ collection'.indexed = collection.indexed
  /\ IsLive' = IsLive

(* A snapshot that holds nothing, or what it held.                         *)
SameSnapshot(i) ==
  \/ snapshot'[i].phase \in {"idle", "validate"}
  \/ /\ snapshot'[i].phase = snapshot[i].phase /\ snapshot'[i].at = snapshot[i].at
     /\ snapshot'[i].read = snapshot[i].read
     /\ snapshot'[i].unread = snapshot[i].unread

(***************************************************************************)
(* The past that can no longer be reorganized stays what it was.           *)
(***************************************************************************)
LEMMA ChainStays ==
  ASSUME IndexingInv, UNCHANGED chain PROVE PastStays
<1>1. SafeTarget \in Int /\ SafeTarget' = SafeTarget
  BY ConstantsAssumption DEF IndexingInv, ShapeOK, SafeTarget
<1> QED BY <1>1 DEF PastStays

(***************************************************************************)
(* Owners at safe blocks stay when the chain moves on.                     *)
(***************************************************************************)
LEMMA PastOwners ==
  ASSUME PastStays, NEW t, NEW y \in Int, y <= SafeTarget
  PROVE  OwnerOf(chain', t, y) = OwnerOf(chain, t, y)
<1>1. \A b \in 1 .. y : chain'[b] = chain[b]
  BY DEF PastStays
<1> QED BY <1>1, OwnerStays

(***************************************************************************)
(* Transfers of safe blocks stay when the chain moves on.                  *)
(***************************************************************************)
LEMMA PastEvents ==
  ASSUME PastStays, NEW x \in Nat, NEW y \in Int, 0 < x, y <= SafeTarget
  PROVE  EventsOf(chain', x, y) = EventsOf(chain, x, y)
<1>1. \A b \in x .. y : chain'[b] = chain[b]
  BY DEF PastStays
<1> QED BY <1>1, SameBlocksSameEvents

(***************************************************************************)
(* OwnerAt and EventsIn, before and after a step, as functions of the      *)
(* chain.                                                                  *)
(***************************************************************************)
LEMMA Primed ==
  /\ \A t, y : OwnerAt(t, y) = OwnerOf(chain, t, y)
  /\ \A x, y : EventsIn(x, y) = EventsOf(chain, x, y)
  /\ \A t, y : OwnerAt(t, y)' = OwnerOf(chain', t, y)
  /\ \A x, y : EventsIn(x, y)' = EventsOf(chain', x, y)
BY DEF OwnerAt, OwnerOf, TransfersOf, EventsIn, EventsOf

(***************************************************************************)
(* A safe transfer is of a token to a wallet.                              *)
(***************************************************************************)
LEMMA EventType ==
  ASSUME ShapeOK, NEW x \in Nat, 0 < x, NEW y \in Int, y <= SafeTarget,
         NEW e \in EventsOf(chain, x, y)
  PROVE  /\ e.token \in Tokens /\ e.to \in Wallets \cup {Zero}
         /\ e.block \in Nat /\ x <= e.block /\ e.block <= y
<1>1. /\ e.block \in x .. y /\ chain[e.block] # None
      /\ e.token = chain[e.block].token /\ e.to = chain[e.block].to
  BY EventFacts
<1>2. e.block \in 1 .. Len(chain)
  <2>1. Len(chain) \in Nat /\ SafeTarget <= Len(chain) /\ SafeTarget \in Int
    BY ConstantsAssumption, SMTT(20) DEF ShapeOK, SafeTarget
  <2> QED BY <1>1, <2>1
<1>3. chain[e.block] \in Transfer
  BY <1>1, <1>2 DEF ShapeOK
<1> QED BY <1>1, <1>3 DEF Transfer

(***************************************************************************)
(* Rows that are added are true, and those there are stay true.            *)
(***************************************************************************)
LEMMA RowsKept ==
  ASSUME RowsOK, PastStays,
         \A h \in history' : h \in history \/
           /\ h.block \in Nat /\ h.block <= SafeTarget /\ h.index \in {0, 1}
           /\ h.owner = OwnerOf(chain, h.token, h.block)
  PROVE  RowsOK'
<1> SUFFICES ASSUME NEW h \in history'
             PROVE  /\ h.block \in Nat /\ h.block <= SafeTarget'
                    /\ h.index \in {0, 1} /\ h.owner = OwnerAt(h.token, h.block)'
  BY DEF RowsOK
<1>1. /\ h.block \in Nat /\ h.block <= SafeTarget /\ h.index \in {0, 1}
      /\ h.owner = OwnerOf(chain, h.token, h.block)
  BY Primed DEF RowsOK
<1>2. h.owner = OwnerOf(chain', h.token, h.block)
  BY <1>1, PastOwners
<1> QED BY <1>1, <1>2, Primed DEF PastStays

(***************************************************************************)
(* Each row of owners stays right when it is kept or rewritten to the      *)
(* owner at a safe block.                                                  *)
(***************************************************************************)
LEMMA OwnersKept ==
  ASSUME OwnersOK, PastStays,
         \A t \in Tokens : owners'[t] = owners[t] \/
           /\ owners'[t].since \in Nat /\ owners'[t].since <= SafeTarget
           /\ owners'[t].owner = OwnerOf(chain, t, owners'[t].since)
  PROVE  OwnersOK'
<1> SUFFICES ASSUME NEW t \in Tokens, owners'[t] # None
             PROVE  /\ owners'[t].since \in Nat /\ owners'[t].since <= SafeTarget'
                    /\ owners'[t].owner = OwnerAt(t, owners[t].since)'
  BY DEF OwnersOK
<1>1. PICK row : row = owners'[t]
  OBVIOUS
<1>2. /\ row.since \in Nat /\ row.since <= SafeTarget
      /\ row.owner = OwnerOf(chain, t, row.since)
  BY <1>1, Primed DEF OwnersOK
<1>3. row.owner = OwnerOf(chain', t, row.since)
  BY <1>2, PastOwners
<1>4. OwnerAt(t, owners[t].since)' = OwnerOf(chain', t, row.since)
  BY <1>1, Primed
<1> QED BY <1>1, <1>2, <1>3, <1>4 DEF PastStays

(***************************************************************************)
(* Rows stay, and so does what a live collection's tables have.            *)
(***************************************************************************)
LEMMA RowStays ==
  ASSUME history \subseteq history', NEW t, NEW b, HasRow(t, b)
  PROVE  HasRow(t, b)'
BY DEF HasRow

(***************************************************************************)
(* The owners and the history still reach the head when neither the heads  *)
(* nor the unread tokens change and no write takes from them.              *)
(***************************************************************************)
LEMMA ReachKept ==
  ASSUME IndexingInv, ReachOK, PastStays, SameHeads, UNCHANGED unread,
         history \subseteq history',
         \A t \in Tokens : \A b \in Nat :
           b <= collection.indexed /\ OwnedSince(t, b) => OwnedSince(t, b)'
  PROVE  ReachOK'
<1> SUFFICES ASSUME IsLive PROVE ReachOK'
  BY DEF ReachOK, SameHeads
<1>1. PICK x \in Nat, y \in Nat :
        /\ collection.since = x /\ collection.indexed = y
        /\ collection'.since = x /\ collection'.indexed = y
        /\ x <= y /\ y <= SafeTarget
  BY DEF IndexingInv, ShapeOK, LiveOK, SameHeads
<1>2. /\ SafeTarget \in Int /\ x <= SafeTarget
      /\ x + 1 \in Nat /\ 0 < x + 1 /\ y \in Int
  BY <1>1 DEF PastStays
<1>3. ASSUME NEW t \in Tokens, t \notin unread', OwnerOf(chain', t, x) # Zero
      PROVE  HasRow(t, x)' /\ OwnedSince(t, x)'
  <2>1. OwnerOf(chain, t, x) # Zero
    BY <1>2, <1>3, PastOwners
  <2>2. HasRow(t, x) /\ OwnedSince(t, x)
    BY <1>1, <1>3, <2>1, Primed DEF ReachOK
  <2> QED BY <1>1, <2>2, RowStays
<1>4. ASSUME NEW e \in EventsOf(chain', x + 1, y)
      PROVE  HasRow(e.token, e.block)' /\ OwnedSince(e.token, e.block)'
  <2>1. e \in EventsOf(chain, x + 1, y)
    BY <1>1, <1>2, <1>4, PastEvents
  <2>2. HasRow(e.token, e.block) /\ OwnedSince(e.token, e.block)
    BY <1>1, <2>1, Primed DEF ReachOK
  <2>3. e.token \in Tokens /\ e.block \in Nat /\ e.block <= y
    BY <1>1, <1>2, <2>1, EventType DEF IndexingInv
  <2> QED BY <1>1, <2>2, <2>3, RowStays
<1> QED BY <1>1, <1>3, <1>4, Primed DEF ReachOK, HasRow, OwnedSince

(***************************************************************************)
(* What was written of the range stays written.                            *)
(***************************************************************************)
LEMMA WrittenKept ==
  ASSUME IndexingInv, WrittenOK, PastStays, UNCHANGED <<tail, owners>>,
         history \subseteq history'
  PROVE  WrittenOK'
<1>1. CASE tail.phase \notin {"owners", "advance"}
  BY <1>1 DEF WrittenOK
<1>2. CASE tail.phase \in {"owners", "advance"}
  <2>1. /\ tail.from \in Nat /\ tail.from = collection.indexed + 1
        /\ tail.to \in Nat /\ tail.to <= SafeTarget /\ collection.indexed \in Nat
    BY <1>2 DEF IndexingInv, RangeOK, ShapeOK
  <2>2. EventsOf(chain', tail.from, tail.to) = EventsOf(chain, tail.from, tail.to)
    BY <2>1, PastEvents
  <2>3. EventsIn(tail.from, tail.to)' = EventsOf(chain, tail.from, tail.to)
    <3>1. EventsIn(tail.from, tail.to)' = EventsOf(chain', tail'.from, tail'.to)
      BY DEF EventsIn, EventsOf
    <3> QED BY <2>2, <3>1
  <2>4. /\ \A e \in EventsOf(chain, tail.from, tail.to) : HasRow(e.token, e.block)
        /\ tail.phase = "advance" =>
             \A e \in EventsOf(chain, tail.from, tail.to) : OwnedSince(e.token, e.block)
    BY <1>2, Primed DEF WrittenOK
  <2>5. \A t, b : OwnedSince(t, b)' = OwnedSince(t, b)
    BY DEF OwnedSince
  <2> QED BY <2>3, <2>4, <2>5, RowStays DEF WrittenOK
<1> QED BY <1>1, <1>2

(***************************************************************************)
(* What a snapshot holds stays true, and what it wrote stays written.      *)
(***************************************************************************)
LEMMA SnapshotsKept ==
  ASSUME IndexingInv, SnapshotsOK, PastStays, UNCHANGED <<owners, history>>,
         \A i \in Invocations : SameSnapshot(i)
  PROVE  SnapshotsOK'
<1> SUFFICES ASSUME NEW i \in Invocations PROVE SnapshotOK(snapshot[i])'
  BY DEF SnapshotsOK
<1>1. CASE snapshot'[i].phase \notin {"owners", "baseline", "commit"}
  BY <1>1 DEF SnapshotOK
<1>2. CASE snapshot'[i].phase \in {"owners", "baseline", "commit"}
  <2>1. PICK s : s = snapshot[i]
    OBVIOUS
  <2>2. /\ snapshot'[i].phase = s.phase /\ snapshot'[i].at = s.at
        /\ snapshot'[i].read = s.read /\ snapshot'[i].unread = s.unread
    BY <1>2, <2>1 DEF SameSnapshot
  <2>3. s.at \in Nat /\ s.at <= SafeTarget
    BY <1>2, <2>1, <2>2 DEF IndexingInv, HoldersRun, Holds
  <2>4. \A t : OwnerOf(chain', t, s.at) = OwnerOf(chain, t, s.at)
    BY <2>3, PastOwners
  <2>5. OwnersRead(s.unread, s.at)' = OwnersRead(s.unread, s.at)
    BY <2>4, Primed DEF OwnersRead
  <2>6. SnapshotOK(s)
    BY <2>1 DEF SnapshotsOK
  <2>7. SnapshotOK(s)'
    <3>1. \A t, b : OwnedSince(t, b)' = OwnedSince(t, b)
      BY DEF OwnedSince
    <3>2. \A t, b : HasRow(t, b)' = HasRow(t, b)
      BY DEF HasRow
    <3> QED BY <2>5, <2>6, <3>1, <3>2 DEF SnapshotOK
  <2> QED BY <2>2, <2>7 DEF SnapshotOK, OwnersRead, OwnedSince, HasRow
<1> QED BY <1>1, <1>2
-----------------------------------------------------------------------------
(***************************************************************************)
(* At first the tables are empty.                                          *)
(***************************************************************************)
LEMMA DataInit == Init => DataInv
BY DEF Init, DataInv, RowsOK, OwnersOK, SnapshotsOK, SnapshotOK, NoSnapshot,
       ReachOK, IsLive, WrittenOK, NoRange

(***************************************************************************)
(* Steps that write none of the tables.                                    *)
(***************************************************************************)
LEMMA QuietStep ==
  ASSUME IndexingInv, DataInv, PastStays, SameHeads,
         UNCHANGED <<owners, history, unread>>,
         \A i \in Invocations : SameSnapshot(i), WrittenOK'
  PROVE  DataInv'
<1>1. RowsOK' /\ OwnersOK'
  BY RowsKept, OwnersKept DEF DataInv
<1>2. SnapshotsOK'
  BY SnapshotsKept DEF DataInv
<1>3. \A t, b : OwnedSince(t, b)' = OwnedSince(t, b)
  BY DEF OwnedSince
<1>4. ReachOK'
  BY <1>3, ReachKept DEF DataInv
<1> QED BY <1>1, <1>2, <1>4 DEF DataInv

(***************************************************************************)
(* Blocks mined and reorganized leave the tables right: they only know     *)
(* safe blocks.                                                            *)
(***************************************************************************)
LEMMA WorldData ==
  ASSUME IndexingInv, DataInv, NEW e \in Transfer \cup {None},
         Mine(e) \/ \E b \in 1 .. Len(chain) : Reorganize(b, e)
  PROVE  DataInv'
<1>1. UNCHANGED <<collection, owners, history, unread, snapshot, tail>>
  BY DEF Mine, Reorganize, tables
<1>2. PastStays
  BY SafeBlocksStay DEF IndexingInv, PastStays
<1>3. SameHeads /\ \A i \in Invocations : SameSnapshot(i)
  BY <1>1 DEF SameHeads, IsLive, SameSnapshot
<1>4. WrittenOK'
  BY <1>1, <1>2, WrittenKept DEF DataInv
<1> QED BY <1>1, <1>2, <1>3, <1>4, QuietStep

(***************************************************************************)
(* A request writes no owner and no transfer.                              *)
(***************************************************************************)
LEMMA RequestData == ASSUME IndexingInv, DataInv, Request PROVE DataInv'
<1>1. /\ UNCHANGED <<chain, owners, history, unread, snapshot, tail>>
      /\ collection.status = "absent"
      /\ collection' = [collection EXCEPT !.status = "WAITING_FOR_SNAPSHOTTING"]
  BY DEF Request, world
<1>2. SameHeads /\ \A i \in Invocations : SameSnapshot(i)
  BY <1>1 DEF SameHeads, IsLive, SameSnapshot, IndexingInv, ShapeOK
<1>3. PastStays
  BY <1>1, ChainStays
<1>4. WrittenOK'
  BY <1>1, <1>3, WrittenKept DEF DataInv
<1> QED BY <1>1, <1>2, <1>3, <1>4, QuietStep

(***************************************************************************)
(* Time alone changes no data.                                             *)
(***************************************************************************)
LEMMA TickData == ASSUME IndexingInv, DataInv, Tick PROVE DataInv'
<1>1. /\ UNCHANGED <<chain, owners, history, unread, tail>>
      /\ collection' = [collection EXCEPT !.age = @ + 1]
      /\ snapshot' = [i \in Invocations |->
            IF snapshot[i].phase = "idle" THEN snapshot[i]
            ELSE [snapshot[i] EXCEPT !.age = @ + 1]]
  BY DEF Tick, world
<1>2. SameHeads
  BY <1>1 DEF SameHeads, IsLive, IndexingInv, ShapeOK
<1>3. \A i \in Invocations : SameSnapshot(i)
  BY <1>1 DEF SameSnapshot, IndexingInv, ShapeOK, IsSnapshot
<1>4. PastStays
  BY <1>1, ChainStays
<1>5. WrittenOK'
  BY <1>1, <1>4, WrittenKept DEF DataInv
<1> QED BY <1>1, <1>2, <1>3, <1>4, <1>5, QuietStep

(***************************************************************************)
(* A new holder of the lock starts over, at a block that is safe now.      *)
(***************************************************************************)
LEMMA LockData ==
  ASSUME IndexingInv, DataInv, NEW i \in Invocations, LockSnapshot(i)
  PROVE  DataInv'
<1> DEFINE new == [NoSnapshot EXCEPT !.phase = "validate", !.at = SafeTarget]
<1>1. /\ UNCHANGED <<chain, owners, history, unread, tail>>
      /\ collection.status \in {"SNAPSHOTTING", "WAITING_FOR_SNAPSHOTTING"}
      /\ collection' = [collection EXCEPT !.status = "SNAPSHOTTING", !.lock = i,
                                          !.target = SafeTarget, !.age = 0]
  BY DEF LockSnapshot, IsWaiting, world
<1>2. snapshot' = [snapshot EXCEPT ![i] = new]
  BY DEF LockSnapshot
<1>3. new.phase = "validate"
  <2>1. IsSnapshot(NoSnapshot)
    BY DEF IsSnapshot, NoSnapshot
  <2> QED BY <2>1, LockedSnapshot
<1> HIDE DEF new
<1>4. \A j \in Invocations : SameSnapshot(j)
  BY <1>2, <1>3 DEF SameSnapshot, IndexingInv, ShapeOK
<1>5. SameHeads
  BY <1>1 DEF SameHeads, IsLive, IndexingInv, ShapeOK
<1>6. PastStays
  BY <1>1, ChainStays
<1>7. WrittenOK'
  BY <1>1, <1>6, WrittenKept DEF DataInv
<1> QED BY <1>1, <1>4, <1>5, <1>6, <1>7, QuietStep

(***************************************************************************)
(* While an invocation runs the collection is not live and nothing is      *)
(* tailed.                                                                 *)
(***************************************************************************)
LEMMA RunningIsNotLive ==
  ASSUME IndexingInv, NEW i \in Invocations, snapshot[i].phase # "idle"
  PROVE  /\ ~IsLive /\ collection.status = "SNAPSHOTTING" /\ tail.phase = "idle"
         /\ collection.since = 0 /\ Holds(i)
         /\ snapshot[i].at \in Nat /\ snapshot[i].at <= SafeTarget
BY DEF IndexingInv, HoldersRun, Holds, IsLive, NotLiveOK

(***************************************************************************)
(* A snapshot that ends without a commit leaves only rows that are right.  *)
(***************************************************************************)
LEMMA StopData ==
  ASSUME IndexingInv, DataInv, NEW i \in Invocations,
         MarkUnindexable(i) \/ FailSnapshot(i) \/ KillSnapshot(i)
  PROVE  DataInv'
<1>1. /\ snapshot[i].phase # "idle" /\ snapshot' = [snapshot EXCEPT ![i] = NoSnapshot]
      /\ UNCHANGED <<chain, owners, history, unread, tail>>
  BY DEF MarkUnindexable, FailSnapshot, KillSnapshot, world, tables
<1>2. collection.status = "SNAPSHOTTING"
  BY <1>1, RunningIsNotLive
<1>3. \/ collection' = collection
      \/ collection' = Unlocked(collection, "UNINDEXABLE")
      \/ collection' = Unlocked(collection, "ERROR_SNAPSHOTTING")
  BY DEF MarkUnindexable, FailSnapshot, KillSnapshot, tables
<1>4. SameHeads
  BY <1>2, <1>3 DEF SameHeads, IsLive, Unlocked, IndexingInv, ShapeOK
<1>5. \A j \in Invocations : SameSnapshot(j)
  BY <1>1 DEF SameSnapshot, NoSnapshot, IndexingInv, ShapeOK
<1>6. PastStays
  BY <1>1, ChainStays
<1>7. WrittenOK'
  BY <1>1, <1>6, WrittenKept DEF DataInv
<1> QED BY <1>1, <1>4, <1>5, <1>6, <1>7, QuietStep

(***************************************************************************)
(* The steps of the tail that write no table but the transfers.            *)
(***************************************************************************)
LEMMA TailData ==
  ASSUME IndexingInv, DataInv,
         StartRange \/ FetchLogs \/ FetchFails \/ WriteTransfers \/ FailRange
  PROVE  DataInv'
<1>1. UNCHANGED <<chain, collection, owners, history, unread, snapshot>>
  BY DEF StartRange, FetchLogs, FetchFails, WriteTransfers, FailRange, world, tables
<1>2. PastStays /\ SameHeads /\ \A i \in Invocations : SameSnapshot(i)
  BY <1>1, ChainStays DEF SameHeads, IsLive, SameSnapshot
<1>3. WrittenOK'
  <2>1. CASE StartRange
    BY <2>1 DEF StartRange, WrittenOK
  <2>2. CASE FailRange
    BY <2>2 DEF FailRange, NoRange, WrittenOK
  <2>3. CASE WriteTransfers
    <3>1. tail'.phase = "history"
      BY <2>3, TailIsLive, RangeUpdates DEF WriteTransfers
    <3> QED BY <3>1 DEF WrittenOK
  <2>4. CASE FetchLogs
    <3> DEFINE events == EventsIn(tail.from, tail.to)
               p == IF events = {} THEN "advance" ELSE "transfers"
    <3>1. tail' = [tail EXCEPT !.events = events, !.phase = p] /\ tail.phase = "fetch"
      BY <2>4 DEF FetchLogs
    <3> HIDE DEF events, p
    <3>2. tail'.phase = p /\ tail'.from = tail.from /\ tail'.to = tail.to
      BY <3>1, TailIsLive, RangeUpdates
    <3>3. EventsIn(tail.from, tail.to)' = events
      BY <1>1, <3>2 DEF EventsIn, events
    <3> QED BY <3>2, <3>3 DEF WrittenOK, p
  <2>5. CASE FetchFails
    <3> DEFINE p == "advance"
               v == tail.from - 1
    <3>1. tail' = [tail EXCEPT !.phase = p, !.to = v] /\ tail.phase = "fetch"
      BY <2>5 DEF FetchFails, ProcessedOnFailure
    <3> HIDE DEF p, v
    <3>2. tail'.from = tail.from /\ tail'.to = v
      BY <3>1, TailIsLive, RangeUpdates
    <3>3. tail.from \in Nat
      BY <3>1 DEF IndexingInv, RangeOK
    <3>4. EventsIn(tail.from, tail.to)' = {}
      BY <3>2, <3>3 DEF EventsIn, v
    <3> QED BY <3>4 DEF WrittenOK
  <2> QED BY <2>1, <2>2, <2>3, <2>4, <2>5
<1> QED BY <1>1, <1>2, <1>3, QuietStep
-----------------------------------------------------------------------------
(***************************************************************************)
(* An INSERT IGNORE drops no row, adds only given ones, and leaves a row   *)
(* for each of them.                                                       *)
(***************************************************************************)
LEMMA InsertedRows ==
  ASSUME NEW rows, history' = Inserted(rows)
  PROVE  /\ history \subseteq history'
         /\ \A h \in history' : h \in history \/ h \in rows
         /\ \A r \in rows : HasRow(r.token, r.block)'
<1>1. /\ history \subseteq history'
      /\ \A h \in history' : h \in history \/ h \in rows
  BY DEF Inserted
<1>2. ASSUME NEW r \in rows
      PROVE  \E h \in history' : h.token = r.token /\ h.block = r.block
  <2>1. CASE \E h \in history : h.token = r.token /\ h.block = r.block /\ h.index = r.index
    BY <1>1, <2>1
  <2>2. CASE ~ \E h \in history : h.token = r.token /\ h.block = r.block /\ h.index = r.index
    <3>1. r \in history'
      BY <2>2 DEF Inserted
    <3> QED BY <3>1
  <2> QED BY <2>1, <2>2
<1> QED BY <1>1, <1>2 DEF HasRow

(***************************************************************************)
(* The invocation that runs is the only one whose snapshot is looked at.   *)
(***************************************************************************)
LEMMA HolderSnapshot ==
  ASSUME IndexingInv, NEW i \in Invocations, snapshot[i].phase # "idle",
         NEW s, snapshot' = [snapshot EXCEPT ![i] = s], SnapshotOK(s)'
  PROVE  SnapshotsOK'
<1> SUFFICES ASSUME NEW j \in Invocations PROVE SnapshotOK(snapshot[j])'
  BY DEF SnapshotsOK
<1>1. CASE j = i
  <2>1. snapshot'[j] = s
    BY <1>1 DEF IndexingInv, ShapeOK
  <2> QED BY <2>1 DEF SnapshotOK, OwnersRead, OwnedSince, HasRow
<1>2. CASE j # i
  <2>1. snapshot'[j].phase = "idle"
    BY <1>2, Exclusive DEF IndexingInv, ShapeOK
  <2> QED BY <2>1 DEF SnapshotOK
<1> QED BY <1>1, <1>2

(***************************************************************************)
(* The owners are read at a block that stays what it is.                   *)
(***************************************************************************)
LEMMA ReadData ==
  ASSUME IndexingInv, DataInv, NEW i \in Invocations, NEW failed \in SUBSET Tokens,
         ReadOwners(i, failed)
  PROVE  DataInv'
<1>1. /\ snapshot[i].phase = "validate"
      /\ UNCHANGED <<chain, collection, owners, history, unread, tail>>
  BY DEF ReadOwners, world, tables
<1>2. PICK t : t = snapshot[i] /\ IsSnapshot(t)
  BY DEF IndexingInv, ShapeOK
<1>3. PICK r : r = OwnersRead(failed, t.at)
  OBVIOUS
<1> DEFINE s == [phase |-> "owners", at |-> t.at, read |-> r,
                 unread |-> failed, age |-> t.age]
<1>4. /\ s.phase = "owners" /\ s.at = t.at /\ s.read = r /\ s.unread = failed
  OBVIOUS
<1>5. snapshot' = [snapshot EXCEPT ![i] = s]
  <2>1. snapshot' = [snapshot EXCEPT ![i] =
          [t EXCEPT !.phase = "owners", !.unread = failed, !.read = r]]
    BY <1>2, <1>3 DEF ReadOwners, OwnersRead
  <2>2. IsSnapshot(t)
    BY <1>2
  <2>3. [t EXCEPT !.phase = "owners", !.unread = failed, !.read = r] = s
    BY <2>2, ReadSnapshot
  <2> QED BY <2>1, <2>3
<1> HIDE DEF s
<1>6. SnapshotOK(s)'
  <2>1. OwnersRead(failed, t.at)' = OwnersRead(failed, t.at)
    BY <1>1, Primed DEF OwnersRead
  <2> QED BY <1>3, <1>4, <2>1 DEF SnapshotOK
<1>7. SnapshotsOK'
  BY <1>1, <1>5, <1>6, HolderSnapshot
<1>8. PastStays /\ ~IsLive /\ ~IsLive' /\ tail'.phase = "idle"
  BY <1>1, ChainStays, RunningIsNotLive DEF IsLive
<1>9. RowsOK' /\ OwnersOK'
  BY <1>1, <1>8, RowsKept, OwnersKept DEF DataInv
<1>10. ReachOK' /\ WrittenOK'
  BY <1>8 DEF ReachOK, WrittenOK
<1> QED BY <1>7, <1>9, <1>10 DEF DataInv

(***************************************************************************)
(* They are written as what they are at that block.                        *)
(***************************************************************************)
LEMMA OwnersData ==
  ASSUME IndexingInv, DataInv, NEW i \in Invocations, WriteOwners(i)
  PROVE  DataInv'
<1>1. PICK at, read, gone, age :
        snapshot[i] = [phase |-> "owners", at |-> at, read |-> read,
                       unread |-> gone, age |-> age]
  BY DEF WriteOwners, IndexingInv, ShapeOK, IsSnapshot
<1>2. /\ snapshot[i].phase = "owners"
      /\ UNCHANGED <<chain, collection, history, unread, tail>>
      /\ owners' = [u \in Tokens |-> IF u \in DOMAIN read
                                     THEN [owner |-> read[u], since |-> at]
                                     ELSE owners[u]]
      /\ snapshot' = [snapshot EXCEPT ![i] =
                        [snapshot[i] EXCEPT !.phase = "baseline"]]
  BY <1>1 DEF WriteOwners, world
<1>3. PastStays /\ ~IsLive /\ ~IsLive' /\ tail'.phase = "idle"
  BY <1>2, ChainStays, RunningIsNotLive DEF IsLive
<1>4. at \in Nat /\ at <= SafeTarget /\ read = OwnersRead(gone, at)
  BY <1>1, <1>2, RunningIsNotLive DEF DataInv, SnapshotsOK, SnapshotOK
<1>5. ASSUME NEW u \in DOMAIN read
      PROVE  /\ u \in Tokens /\ owners'[u] # None
             /\ owners'[u].since = at /\ owners'[u].owner = OwnerOf(chain, u, at)
  <2>1. u \in Tokens /\ read[u] = OwnerAt(u, at)
    BY <1>4, <1>5 DEF OwnersRead
  <2>2. PICK o : o = OwnerOf(chain, u, at)
    OBVIOUS
  <2>3. owners'[u] = [owner |-> o, since |-> at]
    BY <1>2, <1>5, <2>1, <2>2, Primed
  <2>4. o \in Wallets \cup {Zero}
    <3>1. at \in Int /\ at <= Len(chain) /\ chain \in Seq(Transfer \cup {None})
      BY <1>4, ConstantsAssumption DEF IndexingInv, ShapeOK, SafeTarget
    <3> QED BY <2>2, <3>1, OwnerType
  <2>5. owners'[u] \in [owner : Wallets \cup {Zero}, since : Nat]
    BY <1>4, <2>3, <2>4
  <2>6. owners'[u] # None
    BY <2>5, ConstantsAssumption
  <2> QED BY <2>1, <2>2, <2>3, <2>6
<1>6. OwnersOK'
  <2>1. ASSUME NEW u \in Tokens
        PROVE  owners'[u] = owners[u] \/
                 /\ owners'[u].since \in Nat /\ owners'[u].since <= SafeTarget
                 /\ owners'[u].owner = OwnerOf(chain, u, owners'[u].since)
    <3>1. CASE u \in DOMAIN read
      <4>1. owners'[u].since = at /\ owners'[u].owner = OwnerOf(chain, u, at)
        BY <1>5, <3>1
      <4> QED BY <1>4, <4>1
    <3>2. CASE u \notin DOMAIN read
      BY <1>2, <3>2
    <3> QED BY <3>1, <3>2
  <2> QED BY <1>3, <2>1, OwnersKept DEF DataInv
<1>7. ASSUME NEW u \in DOMAIN read PROVE OwnedSince(u, at)'
  <2>1. owners'[u] # None /\ owners'[u].since = at
    BY <1>5, <1>7
  <2> QED BY <1>4, <2>1 DEF OwnedSince
<1>8. SnapshotsOK'
  <2>1. PICK s : s = [phase |-> "baseline", at |-> at, read |-> read,
                      unread |-> gone, age |-> age]
    OBVIOUS
  <2>2. snapshot' = [snapshot EXCEPT ![i] = s]
    <3>1. [snapshot[i] EXCEPT !.phase = "baseline"] = s
      BY <1>1, <2>1
    <3> QED BY <1>2, <3>1
  <2>3. OwnersRead(gone, at)' = OwnersRead(gone, at)
    BY <1>2, Primed DEF OwnersRead
  <2>4. SnapshotOK(s)'
    BY <1>4, <1>7, <2>1, <2>3 DEF SnapshotOK
  <2> QED BY <1>2, <2>2, <2>4, HolderSnapshot
<1>9. RowsOK'
  BY <1>2, <1>3, RowsKept DEF DataInv
<1>10. ReachOK' /\ WrittenOK'
  BY <1>3 DEF ReachOK, WrittenOK
<1> QED BY <1>6, <1>8, <1>9, <1>10 DEF DataInv

(***************************************************************************)
(* The baseline is theirs too, whatever an interrupted snapshot had left.  *)
(***************************************************************************)
LEMMA BaselineData ==
  ASSUME IndexingInv, DataInv, NEW i \in Invocations, WriteBaseline(i)
  PROVE  DataInv'
<1>1. PICK at, read, gone, age :
        snapshot[i] = [phase |-> "baseline", at |-> at, read |-> read,
                       unread |-> gone, age |-> age]
  BY DEF WriteBaseline, IndexingInv, ShapeOK, IsSnapshot
<1>2. PICK rows : rows = {[token |-> u, block |-> at, index |-> 0,
                           owner |-> read[u]] : u \in DOMAIN read}
  OBVIOUS
<1>3. /\ snapshot[i].phase = "baseline"
      /\ UNCHANGED <<chain, collection, owners, unread, tail>>
      /\ history' = Inserted(rows)
      /\ snapshot' = [snapshot EXCEPT ![i] =
                        [snapshot[i] EXCEPT !.phase = "commit"]]
  BY <1>1, <1>2 DEF WriteBaseline, world
<1>4. PastStays /\ ~IsLive /\ ~IsLive' /\ tail'.phase = "idle"
  BY <1>3, ChainStays, RunningIsNotLive DEF IsLive
<1>5. /\ at \in Nat /\ at <= SafeTarget /\ read = OwnersRead(gone, at)
      /\ \A u \in DOMAIN read : OwnedSince(u, at)
  BY <1>1, <1>3, RunningIsNotLive DEF DataInv, SnapshotsOK, SnapshotOK
<1>6. /\ history \subseteq history'
      /\ \A h \in history' : h \in history \/ h \in rows
      /\ \A r \in rows : HasRow(r.token, r.block)'
  BY <1>3, InsertedRows
<1>7. RowsOK'
  <2>1. ASSUME NEW h \in rows
        PROVE  /\ h.block \in Nat /\ h.block <= SafeTarget /\ h.index \in {0, 1}
               /\ h.owner = OwnerOf(chain, h.token, h.block)
    <3>1. PICK u \in DOMAIN read :
            h = [token |-> u, block |-> at, index |-> 0, owner |-> read[u]]
      BY <1>2
    <3>2. read[u] = OwnerOf(chain, u, at)
      BY <1>5, <3>1, Primed DEF OwnersRead
    <3> QED BY <1>5, <3>1, <3>2
  <2> QED BY <1>4, <1>6, <2>1, RowsKept DEF DataInv
<1>8. SnapshotsOK'
  <2>1. PICK s : s = [phase |-> "commit", at |-> at, read |-> read,
                      unread |-> gone, age |-> age]
    OBVIOUS
  <2>2. snapshot' = [snapshot EXCEPT ![i] = s]
    <3>1. [snapshot[i] EXCEPT !.phase = "commit"] = s
      BY <1>1, <2>1
    <3> QED BY <1>3, <3>1
  <2>3. OwnersRead(gone, at)' = OwnersRead(gone, at)
    BY <1>3, Primed DEF OwnersRead
  <2>4. \A u \in DOMAIN read : OwnedSince(u, at)'
    BY <1>3, <1>5 DEF OwnedSince
  <2>5. ASSUME NEW u \in DOMAIN read PROVE HasRow(u, at)'
    <3>1. PICK o : o = read[u]
      OBVIOUS
    <3>2. [token |-> u, block |-> at, index |-> 0, owner |-> o] \in rows
      BY <1>2, <2>5, <3>1
    <3>3. PICK r \in rows : r.token = u /\ r.block = at
      BY <3>2
    <3> QED BY <1>6, <3>3
  <2>6. SnapshotOK(s)'
    BY <1>5, <2>1, <2>3, <2>4, <2>5 DEF SnapshotOK
  <2> QED BY <1>3, <2>2, <2>6, HolderSnapshot
<1>9. OwnersOK'
  BY <1>3, <1>4, OwnersKept DEF DataInv
<1>10. ReachOK' /\ WrittenOK'
  BY <1>4 DEF ReachOK, WrittenOK
<1> QED BY <1>7, <1>8, <1>9, <1>10 DEF DataInv

(***************************************************************************)
(* A collection goes live with the row and the owner of every token the    *)
(* snapshot has read.                                                      *)
(***************************************************************************)
LEMMA CommitData ==
  ASSUME IndexingInv, DataInv, NEW i \in Invocations, CommitSnapshot(i)
  PROVE  DataInv'
<1>1. PICK t : t = snapshot[i]
  OBVIOUS
<1>2. /\ t.phase = "commit" /\ snapshot[i].phase # "idle"
      /\ UNCHANGED <<chain, owners, history, tail>>
      /\ snapshot' = [snapshot EXCEPT ![i] = NoSnapshot]
  BY <1>1 DEF CommitSnapshot, world
<1>3. PastStays /\ tail'.phase = "idle" /\ Holds(i) /\ collection.since = 0
  BY <1>2, ChainStays, RunningIsNotLive
<1>4. /\ t.at \in Nat /\ t.at <= SafeTarget /\ t.read = OwnersRead(t.unread, t.at)
      /\ \A u \in DOMAIN t.read : OwnedSince(u, t.at) /\ HasRow(u, t.at)
  BY <1>1, <1>2, RunningIsNotLive DEF DataInv, SnapshotsOK, SnapshotOK
<1>5. unread' = t.unread /\ collection'.since = t.at /\ collection'.indexed = t.at
  <2>1. HoldsLock(i) /\ collection.target = t.at
    BY <1>1, <1>3 DEF Holds, HoldsLock
  <2>2. /\ unread' = t.unread
        /\ collection' = [Unlocked(collection, "LIVE_TAILING") EXCEPT
                            !.indexed = t.at, !.since = t.at]
    BY <1>1, <1>3, <2>1 DEF CommitSnapshot
  <2> QED BY <2>2 DEF Unlocked, IndexingInv, ShapeOK
<1>6. RowsOK' /\ OwnersOK'
  BY <1>2, <1>3, RowsKept, OwnersKept DEF DataInv
<1>7. SnapshotsOK'
  <2>1. SnapshotOK(NoSnapshot)'
    BY DEF SnapshotOK, NoSnapshot
  <2>2. PICK s : s = NoSnapshot
    OBVIOUS
  <2>3. SnapshotOK(s)'
    BY <2>2 DEF SnapshotOK, NoSnapshot
  <2> QED BY <1>2, <2>2, <2>3, HolderSnapshot
<1>8. ReachOK'
  <2>1. ASSUME NEW u \in Tokens, u \notin unread', OwnerOf(chain', u, t.at) # Zero
        PROVE  HasRow(u, t.at)' /\ OwnedSince(u, t.at)'
    <3>1. OwnerAt(u, t.at) # Zero
      BY <1>2, <2>1, Primed
    <3>2. u \in DOMAIN t.read
      BY <1>4, <1>5, <2>1, <3>1 DEF OwnersRead
    <3> QED BY <1>2, <1>4, <3>2 DEF HasRow, OwnedSince
  <2>2. EventsIn(collection.since + 1, collection.indexed)' = {}
    BY <1>4, <1>5 DEF EventsIn
  <2> QED BY <1>5, <2>1, <2>2, Primed DEF ReachOK, HasRow, OwnedSince
<1>9. WrittenOK'
  BY <1>3 DEF WrittenOK
<1> QED BY <1>6, <1>7, <1>8, <1>9 DEF DataInv
-----------------------------------------------------------------------------
(***************************************************************************)
(* No invocation of the snapshotter runs beside the tail.                  *)
(***************************************************************************)
LEMMA TailSnapshots ==
  ASSUME IndexingInv, IsLive, UNCHANGED snapshot PROVE SnapshotsOK'
<1>1. \A i \in Invocations : snapshot[i].phase = "idle"
  BY DEF IndexingInv, HoldersRun, Holds, IsLive
<1> QED BY <1>1 DEF SnapshotsOK, SnapshotOK

(***************************************************************************)
(* The range whose transfers are being written.                            *)
(***************************************************************************)
LEMMA WritingRange ==
  ASSUME IndexingInv, tail.phase \in {"transfers", "history", "owners", "advance"}
  PROVE  \E x \in Nat, y \in Nat :
           /\ tail.from = x /\ tail.to = y /\ 0 < x /\ y <= SafeTarget
           /\ x = collection.indexed + 1
           /\ tail.phase # "advance" => tail.events = EventsOf(chain, x, y)
<1>1. IsLive /\ RangeOK
  BY TailIsLive
<1>2. PICK x, y : x = tail.from /\ y = tail.to
  OBVIOUS
<1>3. /\ x \in Nat /\ y \in Nat /\ x = collection.indexed + 1 /\ y <= SafeTarget
      /\ tail.phase # "advance" => tail.events = EventsIn(x, y)
  BY <1>1, <1>2 DEF RangeOK
<1>4. 0 < x
  BY <1>3 DEF IndexingInv, ShapeOK
<1> QED BY <1>2, <1>3, <1>4, Primed

(***************************************************************************)
(* The history gets a true row for every transfer of the range.            *)
(***************************************************************************)
LEMMA HistoryData ==
  ASSUME IndexingInv, DataInv, WriteHistory PROVE DataInv'
<1>1. /\ tail.phase = "history" /\ tail' = [tail EXCEPT !.phase = "owners"]
      /\ UNCHANGED <<chain, collection, owners, unread, snapshot>>
  BY DEF WriteHistory, world
<1>2. PICK x \in Nat, y \in Nat :
        /\ tail.from = x /\ tail.to = y /\ 0 < x /\ y <= SafeTarget
        /\ tail.events = EventsOf(chain, x, y)
  BY <1>1, WritingRange
<1>3. IsLive /\ PastStays /\ SafeTarget \in Int
  BY <1>1, ChainStays, TailIsLive DEF PastStays
<1>4. PICK rows : rows = {[token |-> e.token, block |-> e.block, index |-> 1,
                           owner |-> e.to] : e \in EventsOf(chain, x, y)}
  OBVIOUS
<1>5. history' = Inserted(rows)
  BY <1>2, <1>4 DEF WriteHistory
<1>6. /\ history \subseteq history'
      /\ \A h \in history' : h \in history \/ h \in rows
      /\ \A r \in rows : HasRow(r.token, r.block)'
  BY <1>5, InsertedRows
<1>7. RowsOK'
  <2>1. ASSUME NEW h \in rows
        PROVE  /\ h.block \in Nat /\ h.block <= SafeTarget /\ h.index \in {0, 1}
               /\ h.owner = OwnerOf(chain, h.token, h.block)
    <3>1. PICK e \in EventsOf(chain, x, y) :
            h = [token |-> e.token, block |-> e.block, index |-> 1, owner |-> e.to]
      BY <1>4
    <3>2. /\ h.token = e.token /\ h.block = e.block /\ h.index = 1
          /\ h.owner = e.to
      BY <3>1
    <3>3. e.block \in Nat /\ e.block <= y /\ y \in Int
      BY <1>2, EventType DEF IndexingInv
    <3>4. OwnerOf(chain, e.token, e.block) = e.to
      BY <1>2, <3>3, OwnerAfterTransfer
    <3> QED BY <1>2, <1>3, <3>2, <3>3, <3>4
  <2> QED BY <1>3, <1>6, <2>1, RowsKept DEF DataInv
<1>8. OwnersOK'
  BY <1>1, <1>3, OwnersKept DEF DataInv
<1>9. SnapshotsOK'
  BY <1>1, <1>3, TailSnapshots
<1>10. ReachOK'
  <2>1. SameHeads
    BY <1>1 DEF SameHeads, IsLive
  <2>2. \A t, b : OwnedSince(t, b)' = OwnedSince(t, b)
    BY <1>1 DEF OwnedSince
  <2> QED BY <1>1, <1>3, <1>6, <2>1, <2>2, ReachKept DEF DataInv
<1>11. WrittenOK'
  <2>1. tail'.phase = "owners" /\ tail'.from = x /\ tail'.to = y
    BY <1>1, <1>2, TailIsLive, RangeUpdates
  <2>2. EventsIn(tail.from, tail.to)' = EventsOf(chain, x, y)
    BY <1>1, <2>1 DEF EventsIn, EventsOf
  <2>3. ASSUME NEW e \in EventsOf(chain, x, y) PROVE HasRow(e.token, e.block)'
    <3>1. PICK t, b, o : t = e.token /\ b = e.block /\ o = e.to
      OBVIOUS
    <3>2. [token |-> t, block |-> b, index |-> 1, owner |-> o] \in rows
      BY <1>4, <3>1
    <3>3. PICK r \in rows : r.token = t /\ r.block = b
      BY <3>2
    <3> QED BY <1>6, <3>1, <3>3
  <2> QED BY <2>1, <2>2, <2>3 DEF WrittenOK
<1> QED BY <1>7, <1>8, <1>9, <1>10, <1>11 DEF DataInv

(***************************************************************************)
(* The owners get the receiver of each token's latest transfer.            *)
(***************************************************************************)
LEMMA TailedOwnersData ==
  ASSUME IndexingInv, DataInv, WriteTailedOwners PROVE DataInv'
<1>1. /\ tail.phase = "owners" /\ tail' = [tail EXCEPT !.phase = "advance"]
      /\ UNCHANGED <<chain, collection, history, unread, snapshot>>
  BY DEF WriteTailedOwners, world
<1>2. PICK x \in Nat, y \in Nat :
        /\ tail.from = x /\ tail.to = y /\ 0 < x /\ y <= SafeTarget
        /\ x = collection.indexed + 1
        /\ tail.events = EventsOf(chain, x, y)
  BY <1>1, WritingRange
<1>3. IsLive /\ PastStays /\ SafeTarget \in Int /\ collection.indexed \in Nat
  BY <1>1, ChainStays, TailIsLive DEF PastStays, IndexingInv, ShapeOK
<1> DEFINE Those(t) == {e \in EventsOf(chain, x, y) : e.token = t}
<1>4. ASSUME NEW t \in Tokens, Those(t) # {}
      PROVE  /\ owners'[t] # None
             /\ owners'[t].since \in Nat /\ owners'[t].since <= SafeTarget
             /\ owners'[t].since > collection.indexed
             /\ owners'[t].owner = OwnerOf(chain, t, owners'[t].since)
             /\ \A e \in Those(t) : e.block <= owners'[t].since
  <2>1. PICK l : l = Latest(Those(t))
    OBVIOUS
  <2>2. l \in Those(t) /\ \A e \in Those(t) : e.block <= l.block
    <3>1. PICK S : S = Those(t)
      OBVIOUS
    <3>2. S \subseteq EventsOf(chain, x, y) /\ S # {} /\ y \in Int
      BY <1>4, <3>1
    <3>3. Latest(S) \in S /\ \A f \in S : f.block <= Latest(S).block
      BY <3>2, LatestIsLast
    <3> QED BY <2>1, <3>1, <3>3
  <2>3. l \in EventsOf(chain, x, y) /\ l.token = t
    BY <2>2
  <2>4. /\ l.to \in Wallets \cup {Zero} /\ l.block \in Nat
        /\ x <= l.block /\ l.block <= y
    <3>1. y \in Int
      OBVIOUS
    <3> HIDE DEF Those
    <3> QED BY <1>2, <2>3, <3>1, EventType DEF IndexingInv
  <2>5. OwnerOf(chain, t, l.block) = l.to
    <3>1. y \in Int
      OBVIOUS
    <3> HIDE DEF Those
    <3> QED BY <1>2, <2>3, <3>1, OwnerAfterTransfer
  <2>6. PICK o, b : o = l.to /\ b = l.block
    OBVIOUS
  <2>7. owners'[t] = [owner |-> o, since |-> b]
    BY <1>2, <1>4, <2>1, <2>6 DEF WriteTailedOwners
  <2>8. owners'[t] \in [owner : Wallets \cup {Zero}, since : Nat]
    BY <2>4, <2>6, <2>7
  <2>9. owners'[t] # None
    BY <2>8, ConstantsAssumption
  <2>10. owners'[t].owner = l.to /\ owners'[t].since = l.block
    BY <2>6, <2>7
  <2> HIDE DEF Those
  <2> QED BY <1>2, <1>3, <2>2, <2>4, <2>5, <2>9, <2>10
<1>5. ASSUME NEW t \in Tokens, Those(t) = {}
      PROVE  owners'[t] = owners[t]
  BY <1>2, <1>5 DEF WriteTailedOwners
<1>6. OwnersOK'
  <2> HIDE DEF Those
  <2> QED BY <1>3, <1>4, <1>5, OwnersKept DEF DataInv
<1>7. RowsOK'
  BY <1>1, <1>3, RowsKept DEF DataInv
<1>8. SnapshotsOK'
  BY <1>1, <1>3, TailSnapshots
<1>9. ReachOK'
  <2>1. SameHeads
    BY <1>1 DEF SameHeads, IsLive
  <2>2. ASSUME NEW t \in Tokens, NEW b \in Nat, b <= collection.indexed,
               OwnedSince(t, b)
        PROVE  OwnedSince(t, b)'
    <3> HIDE DEF Those
    <3> QED BY <1>3, <1>4, <1>5, <2>2 DEF OwnedSince
  <2> QED BY <1>1, <1>3, <2>1, <2>2, ReachKept DEF DataInv
<1>10. WrittenOK'
  <2>1. tail'.phase = "advance" /\ tail'.from = x /\ tail'.to = y
    BY <1>1, <1>2, TailIsLive, RangeUpdates
  <2>2. EventsIn(tail.from, tail.to)' = EventsOf(chain, x, y)
    BY <1>1, <2>1 DEF EventsIn, EventsOf
  <2>3. ASSUME NEW e \in EventsOf(chain, x, y)
        PROVE  HasRow(e.token, e.block)' /\ OwnedSince(e.token, e.block)'
    <3>1. HasRow(e.token, e.block)
      BY <1>1, <1>2, Primed DEF DataInv, WrittenOK
    <3>2. HasRow(e.token, e.block)'
      BY <1>1, <3>1 DEF HasRow
    <3>3. e.token \in Tokens /\ e.block \in Nat
      <4>1. y \in Int
        OBVIOUS
      <4> QED BY <1>2, <4>1, EventType DEF IndexingInv
    <3>4. e \in Those(e.token) /\ Those(e.token) # {}
      OBVIOUS
    <3>5. OwnedSince(e.token, e.block)'
      <4> HIDE DEF Those
      <4> QED BY <1>4, <3>3, <3>4 DEF OwnedSince
    <3> QED BY <3>2, <3>5
  <2> QED BY <2>1, <2>2, <2>3 DEF WrittenOK
<1> QED BY <1>6, <1>7, <1>8, <1>9, <1>10 DEF DataInv

(***************************************************************************)
(* The head moves over a range that is in the tables.                      *)
(***************************************************************************)
LEMMA AdvanceData ==
  ASSUME IndexingInv, DataInv, AdvanceHeads PROVE DataInv'
<1>1. /\ tail.phase = "advance" /\ tail' = NoRange
      /\ UNCHANGED <<chain, owners, history, unread, snapshot>>
  BY DEF AdvanceHeads, world
<1>2. PICK x \in Nat, y \in Nat :
        /\ tail.from = x /\ tail.to = y /\ 0 < x /\ y <= SafeTarget
        /\ x = collection.indexed + 1
  BY <1>1, WritingRange
<1>3. IsLive /\ PastStays
  BY <1>1, ChainStays, TailIsLive
<1>4. PICK s \in Nat, z \in Nat :
        collection.since = s /\ collection.indexed = z /\ s <= z /\ z <= y
  <2>1. y >= x - 1
    BY <1>1, <1>2, TailIsLive DEF RangeOK
  <2> QED BY <1>2, <1>3, <2>1 DEF IndexingInv, ShapeOK, LiveOK
<1>5. collection'.since = s /\ collection'.indexed = y
  BY <1>2, <1>3, <1>4 DEF AdvanceHeads, IsLive, IndexingInv, ShapeOK
<1>6. RowsOK' /\ OwnersOK' /\ SnapshotsOK'
  BY <1>1, <1>3, RowsKept, OwnersKept, TailSnapshots DEF DataInv
<1>7. WrittenOK'
  BY <1>1 DEF WrittenOK, NoRange
<1>8. ReachOK'
  <2>1. /\ \A t, b : OwnedSince(t, b)' = OwnedSince(t, b)
        /\ \A t, b : HasRow(t, b)' = HasRow(t, b)
    BY <1>1 DEF OwnedSince, HasRow
  <2>2. ASSUME NEW t \in Tokens, t \notin unread', OwnerOf(chain', t, s) # Zero
        PROVE  HasRow(t, s)' /\ OwnedSince(t, s)'
    <3>1. HasRow(t, s) /\ OwnedSince(t, s)
      BY <1>1, <1>3, <1>4, <2>2, Primed DEF DataInv, ReachOK
    <3> QED BY <2>1, <3>1
  <2>3. EventsOf(chain, s + 1, y) = EventsOf(chain, s + 1, z) \cup EventsOf(chain, x, y)
    <3>1. /\ s + 1 \in Int /\ z \in Int /\ y \in Int /\ s + 1 <= z + 1 /\ z <= y
          /\ x = z + 1
      BY <1>2, <1>4
    <3>2. EventsOf(chain, s + 1, y)
            = EventsOf(chain, s + 1, z) \cup EventsOf(chain, z + 1, y)
      BY <3>1, RangesJoin
    <3> QED BY <3>1, <3>2
  <2>4. ASSUME NEW e \in EventsOf(chain', s + 1, y)
        PROVE  HasRow(e.token, e.block)' /\ OwnedSince(e.token, e.block)'
    <3>1. CASE e \in EventsOf(chain, s + 1, z)
      BY <1>3, <1>4, <2>1, <3>1, Primed DEF DataInv, ReachOK
    <3>2. CASE e \in EventsOf(chain, x, y)
      BY <1>1, <1>2, <2>1, <3>2, Primed DEF DataInv, WrittenOK
    <3> QED BY <1>1, <2>3, <2>4, <3>1, <3>2
  <2> QED BY <1>5, <2>2, <2>4, Primed DEF ReachOK, HasRow, OwnedSince
<1> QED BY <1>6, <1>7, <1>8 DEF DataInv

(***************************************************************************)
(* Every step keeps DataInv, beside IndexingInv.                           *)
(***************************************************************************)
LEMMA StepKeepsData == IndexingInv /\ DataInv /\ [Next]_vars => DataInv'
<1> SUFFICES ASSUME IndexingInv, DataInv, [Next]_vars PROVE DataInv'
  OBVIOUS
<1>1. CASE UNCHANGED vars
  <2>1. UNCHANGED <<chain, collection, owners, history, unread, snapshot, tail>>
    BY <1>1 DEF vars, world, tables
  <2>2. PastStays /\ SameHeads /\ \A i \in Invocations : SameSnapshot(i)
    BY <2>1, ChainStays DEF SameHeads, IsLive, SameSnapshot
  <2>3. WrittenOK'
    BY <2>1, <2>2, WrittenKept DEF DataInv
  <2> QED BY <2>1, <2>2, <2>3, QuietStep
<1>2. CASE \E e \in Transfer \cup {None} :
             Mine(e) \/ \E b \in 1 .. Len(chain) : Reorganize(b, e)
  BY <1>2, WorldData
<1>3. CASE Request \/ Tick
  BY <1>3, RequestData, TickData
<1>4. CASE TailStep \/ FetchFails \/ FailRange
  BY <1>4, TailData, HistoryData, TailedOwnersData, AdvanceData DEF TailStep
<1>5. CASE \E i \in Invocations : SnapshotStep(i) \/ FailSnapshot(i) \/ KillSnapshot(i)
  BY <1>5, LockData, StopData, ReadData, OwnersData, BaselineData, CommitData
     DEF SnapshotStep
<1> QED BY <1>1, <1>2, <1>3, <1>4, <1>5 DEF Next

(***************************************************************************)
(* All reachable states have the invariant of the tables.                  *)
(***************************************************************************)
THEOREM TablesHold == Spec => []DataInv
BY DataInit, StepKeepsData, InvariantHolds, PTL DEF Spec
-----------------------------------------------------------------------------
(***************************************************************************)
(* A live collection has a row, and a newer owner, for each known token,   *)
(* and no transfer is newer than all of its rows or than its owner.        *)
(***************************************************************************)
LEMMA KnownTokens ==
  ASSUME IndexingInv, DataInv, IsLive, NEW t \in Tokens, NEW b \in Nat,
         collection.since <= b, b <= collection.indexed, IsKnown(t, b)
  PROVE  \E a \in Nat :
           /\ a <= b /\ HasRow(t, a) /\ OwnedSince(t, a)
           /\ \A e \in EventsOf(chain, a + 1, b) : e.token = t =>
                HasRow(t, e.block) /\ OwnedSince(t, e.block)
<1>1. PICK x \in Nat, y \in Nat :
        /\ collection.since = x /\ collection.indexed = y
        /\ x <= b /\ b <= y /\ y <= SafeTarget
  BY DEF IndexingInv, ShapeOK, LiveOK
<1>2. \A e \in EventsOf(chain, x + 1, y) :
        HasRow(e.token, e.block) /\ OwnedSince(e.token, e.block)
  BY <1>1, Primed DEF DataInv, ReachOK
<1>3. EventsOf(chain, x + 1, b) \subseteq EventsOf(chain, x + 1, y)
  BY <1>1 DEF EventsOf
<1>4. CASE t \notin unread /\ OwnerAt(t, collection.since) # Zero
  <2>1. HasRow(t, x) /\ OwnedSince(t, x)
    BY <1>1, <1>4 DEF DataInv, ReachOK
  <2> QED BY <1>1, <1>2, <1>3, <2>1
<1>5. CASE \E e \in EventsIn(collection.since + 1, b) : e.token = t
  <2>1. PICK e \in EventsOf(chain, x + 1, b) : e.token = t
    BY <1>1, <1>5, Primed
  <2>2. HasRow(t, e.block) /\ OwnedSince(t, e.block)
    BY <1>2, <1>3, <2>1
  <2>3. e.block \in x + 1 .. b
    BY EventFacts
  <2>4. PICK a \in Nat : a = e.block /\ x < a /\ a <= b
    BY <2>3
  <2>5. EventsOf(chain, a + 1, b) \subseteq EventsOf(chain, x + 1, y)
    BY <1>1, <2>4 DEF EventsOf
  <2> QED BY <1>2, <2>2, <2>4, <2>5
<1> QED BY <1>4, <1>5 DEF IsKnown

(***************************************************************************)
(* The history from which xTDH is computed has the chain's owner of every  *)
(* known token at every indexed block, however snapshots were interrupted  *)
(* and taken over and whatever range processLiveRange had to repeat:       *)
(* INSERT IGNORE can keep only rows that are true.                         *)
(***************************************************************************)
THEOREM HistoryCorrect == Spec => []HistoryIsTheChains
<1>1. ASSUME IndexingInv, DataInv, IsLive, NEW t \in Tokens,
             NEW b \in collection.since .. collection.indexed, IsKnown(t, b)
      PROVE  RecordedOwner(t, b) = OwnerAt(t, b)
  <2>1. /\ b \in Nat /\ collection.since <= b /\ b <= collection.indexed
        /\ b <= SafeTarget
    BY <1>1, ConstantsAssumption DEF IndexingInv, ShapeOK, LiveOK, SafeTarget
  <2>2. PICK a \in Nat :
          /\ a <= b /\ HasRow(t, a)
          /\ \A e \in EventsOf(chain, a + 1, b) : e.token = t => HasRow(t, e.block)
    BY <1>1, <2>1, KnownTokens
  <2> DEFINE rows == {r \in history : r.token = t /\ r.block <= b}
             blocks == {r.block : r \in rows}
             m == Max(blocks)
             last == {s \in rows : s.block = m}
             indexes == {r.index : r \in last}
             n == Max(indexes)
  <2>3. \A r \in rows : /\ r.token = t /\ r.block \in Nat /\ r.block <= b
                        /\ r.index \in {0, 1} /\ r.owner = OwnerOf(chain, t, r.block)
    BY <1>1, Primed DEF DataInv, RowsOK
  <2>4. rows # {}
    BY <2>2 DEF HasRow
  <2>5. m \in blocks /\ \A x \in blocks : x <= m
    <3>1. blocks \subseteq 0 .. b /\ blocks # {}
      BY <2>1, <2>3, <2>4
    <3> HIDE DEF blocks
    <3> QED BY <2>1, <3>1, GreatestIsMax
  <2>6. n \in indexes
    <3>1. PICK r \in rows : r.block = m
      BY <2>5
    <3> HIDE DEF rows, m
    <3>2. indexes \subseteq 0 .. 1
      BY <2>3
    <3>3. r.index \in indexes
      BY <3>1
    <3> HIDE DEF indexes
    <3> QED BY <3>2, <3>3, GreatestIsMax
  <2>7. \E r \in rows : r.block = m /\ r.index = n
    BY <2>6
  <2>8. RecordedOwner(t, b) = (CHOOSE r \in rows : r.block = m /\ r.index = n).owner
    BY <2>4 DEF RecordedOwner
  <2>9. PICK r \in rows : RecordedOwner(t, b) = r.owner /\ r.block = m
    <3> HIDE DEF rows, m, n
    <3> QED BY <2>7, <2>8
  <2>10. m \in Nat /\ m <= b /\ RecordedOwner(t, b) = OwnerOf(chain, t, m)
    BY <2>3, <2>9
  <2>11. \A z \in Nat : z <= b /\ HasRow(t, z) => z <= m
    BY <2>5 DEF HasRow
  <2>12. \A e \in EventsOf(chain, m + 1, b) : e.token # t
    <3> SUFFICES ASSUME NEW e \in EventsOf(chain, m + 1, b), e.token = t PROVE FALSE
      OBVIOUS
    <3> HIDE DEF m
    <3>1. e.block \in m + 1 .. b
      BY EventFacts
    <3>2. a <= m /\ e.block \in Nat /\ e.block <= b /\ ~ (e.block <= m)
      BY <2>2, <2>10, <2>11, <3>1
    <3>3. EventsOf(chain, m + 1, b) \subseteq EventsOf(chain, a + 1, b)
      BY <2>1, <2>10, <3>2 DEF EventsOf
    <3> QED BY <2>2, <2>11, <3>2, <3>3
  <2>13. OwnerOf(chain, t, b) = OwnerOf(chain, t, m)
    <3> HIDE DEF m
    <3> QED BY <2>1, <2>10, <2>12, OwnerWithoutTransfer
  <2> QED BY <2>10, <2>13, Primed
<1>2. IndexingInv /\ DataInv => HistoryIsTheChains
  BY <1>1 DEF HistoryIsTheChains
<1> QED BY <1>2, InvariantHolds, TablesHold, PTL

(***************************************************************************)
(* The owners table is never behind the head: it has the chain's owner of  *)
(* every known token at the head, or at the block it is ahead to when a    *)
(* range was written and its head not yet moved.                           *)
(***************************************************************************)
THEOREM OwnersCorrect == Spec => []OwnersAreTheChains
<1>1. ASSUME IndexingInv, DataInv, IsLive, NEW t \in Tokens,
             IsKnown(t, collection.indexed)
      PROVE  /\ owners[t] # None
             /\ owners[t].owner = OwnerAt(t, Max({collection.indexed, owners[t].since}))
  <2>1. PICK y \in Nat : y = collection.indexed /\ IsKnown(t, y) /\ collection.since <= y
    BY <1>1 DEF IndexingInv, ShapeOK, LiveOK
  <2>2. PICK a \in Nat :
          /\ a <= y /\ OwnedSince(t, a)
          /\ \A e \in EventsOf(chain, a + 1, y) : e.token = t => OwnedSince(t, e.block)
    BY <1>1, <2>1, KnownTokens
  <2>3. owners[t] # None
    BY <2>2 DEF OwnedSince
  <2>4. PICK z \in Nat : z = owners[t].since /\ owners[t].owner = OwnerOf(chain, t, z)
    BY <1>1, <2>3, Primed DEF DataInv, OwnersOK
  <2>5. a <= z /\ \A e \in EventsOf(chain, a + 1, y) : e.token = t => e.block <= z
    BY <2>2, <2>4, EventFacts DEF OwnedSince
  <2>6. CASE z >= y
    <3>1. Max({y, z}) = z
      BY <2>6 DEF Max
    <3> QED BY <2>1, <2>3, <2>4, <3>1, Primed
  <2>7. CASE z < y
    <3>1. Max({y, z}) = y
      BY <2>7 DEF Max
    <3>2. \A e \in EventsOf(chain, z + 1, y) : e.token # t
      <4> SUFFICES ASSUME NEW e \in EventsOf(chain, z + 1, y), e.token = t PROVE FALSE
        OBVIOUS
      <4>1. e.block \in z + 1 .. y
        BY EventFacts
      <4>2. e \in EventsOf(chain, a + 1, y)
        BY <2>5 DEF EventsOf
      <4> QED BY <2>5, <4>1, <4>2
    <3>3. OwnerOf(chain, t, y) = OwnerOf(chain, t, z)
      BY <2>7, <3>2, OwnerWithoutTransfer
    <3> QED BY <2>1, <2>3, <2>4, <3>1, <3>3, Primed
  <2> QED BY <2>6, <2>7
<1>2. IndexingInv /\ DataInv => OwnersAreTheChains
  BY <1>1 DEF OwnersAreTheChains
<1> QED BY <1>2, InvariantHolds, TablesHold, PTL
=============================================================================
