-------------------------- MODULE ApproveLeaderboard --------------------------
(***************************************************************************)
(* One wave of type APPROVE with a time lock and a minimal duration: a     *)
(* drop wins once its weighted vote, the mean of its votes over the last   *)
(* TimeLock, has stayed at or above the wave's threshold for MinDuration.  *)
(*                                                                         *)
(* The weighted vote is kept in wave_leaderboard_entries, together with    *)
(* the time since which it is over the threshold.  Both are brought up to  *)
(* date by two Lambdas that run on their own schedules,                    *)
(*   - the snapshotter (every 5 minutes), which only refreshes entries,    *)
(*   - the decisions loop (every minute), which refreshes them and then    *)
(*     formalizes winners, oldest drop first;                              *)
(* each notes the time once, then works through its drops, one transaction *)
(* for each.  Votes and changes of the wave's settings come in between.    *)
(*                                                                         *)
(* Time is counted in units in which votes, refreshes and windows are      *)
(* whole numbers.  A vote takes its timestamp when it has locked the drop, *)
(* and its row appears when its transaction commits.                       *)
(***************************************************************************)
EXTENDS Sums, Sequences

CONSTANTS
  Drops,             \* drops of the wave, numbered in the order of created_at
  VoteValues,        \* sums of votes a drop can have, 0 at first
  TimeLock,          \* waves.time_lock_ms
  MinDuration,       \* waves.winning_threshold_min_duration_ms
  Thresholds,        \* waves.winning_min_threshold, before and after updates
  InitialThreshold,
  MaxWinners,        \* waves.max_winners
  Pauses,            \* times that lie in a decision pause
  Latency,           \* the longest time from a vote's timestamp to its commit
  MaxTime,           \* bound: the clock
  MaxVotes,          \* bound: rows of votes before another vote begins
  MaxUpdates,        \* bound: updates of the wave's settings
  MaxFaults,         \* bound: failed refreshes and killed Lambdas
  None

Loops == {"snapshotter", "decisions"}

ASSUME ConstantsAssumption ==
  /\ Drops \subseteq Nat /\ IsFiniteSet(Drops)
  /\ VoteValues \subseteq Int /\ 0 \in VoteValues
  /\ TimeLock \in Nat \ {0} /\ MinDuration \in Nat \ {0}
  /\ Thresholds \subseteq Nat \ {0} /\ InitialThreshold \in Thresholds
  /\ MaxWinners \in Nat
  /\ Pauses \subseteq Nat
  /\ Latency \in Nat /\ Latency < TimeLock
  /\ MaxTime \in Nat /\ MaxVotes \in Nat /\ MaxUpdates \in Nat
  /\ MaxFaults \in Nat
  /\ None \notin Int \cup [at : Int, votes : Int]
                   \cup [vote : Int, at : Int, since : Int \cup {None}]

VARIABLES
  clock,      \* Time.now() of every process
  threshold,  \* waves.winning_min_threshold
  history,    \* history[d]: rows of drop_real_vote_in_time, one at first
  voting,     \* voting[d]: the row of a vote whose transaction is open
  entry,      \* entry[d]: its row in wave_leaderboard_entries
  open,       \* drops of type PARTICIPATORY
  winners,    \* wave_decisions and their winners, in the order of commit
  pass,       \* pass[l]: the invocation of Lambda l
  updates,    \* updates of the settings so far
  faults,     \* faults so far
  late,       \* d: a vote committed that a refresh should have seen (history)
  overtaken,  \* d: its entry was written over by an older one (history)
  outdated    \* d: its entry follows a threshold that had changed (history)

votes   == <<history, voting>>
ghosts  == <<late, overtaken, outdated>>
vars    == <<clock, threshold, votes, entry, open, winners, pass, updates,
             faults, ghosts>>

Idle  == [phase |-> "idle", now |-> 0, threshold |-> 0, todo |-> {}, next |-> 0,
          slots |-> 0, vote |-> 0]

-----------------------------------------------------------------------------
(* Weighted votes.  Sums are kept in units of TimeLock: a weighted vote w  *)
(* stands for w / TimeLock, which Math.floor turns into w \div TimeLock.   *)

\* The newest of some rows.
Newest(rows) == CHOOSE r \in rows : \A s \in rows : s.at <= r.at

\* The rows between two times, and the state at the first of them.
VoteStates(d, from, to) ==
  LET before == {r \in history[d] : r.at <= from}
  IN  {r \in history[d] : from < r.at /\ r.at < to}
        \cup {[at |-> from, votes |-> Newest(before).votes] : r \in before}

\* The states in a window, the last one before it moved to its start.
Window(states, start, end) ==
  LET within == {s \in states : start <= s.at /\ s.at <= end}
      before == {s \in states : s.at < start}
  IN  within \cup {[at |-> start, votes |-> Newest(before).votes] : s \in
                     {b \in before : \A w \in within : w.at # start}}

\* Every state counts until the next one, the last one until the end.
Until(window, s, end) == Min({end} \cup {r.at : r \in {x \in window : s.at < x.at}})

Weighted(states, end) ==
  LET window == Window(states, end - TimeLock, end)
  IN  Total([s \in window |-> s.votes * (Until(window, s, end) - s.at)], window)

\* The times at which the slope of the weighted vote can change.
Checkpoints(states, start, end) ==
  IF start >= end THEN {end}
  ELSE {start, end} \cup
       {c \in {s.at : s \in states} \cup {s.at + TimeLock : s \in states} :
          start < c /\ c < end}

CeilDiv(a, b) == -((-a) \div b)

(* When the weighted vote, on its way from p to the next checkpoint c,     *)
(* reaches the limit.                                                      *)
Crossing(states, p, c, limit) ==
  LET low  == Weighted(states, p)
      high == Weighted(states, c)
  IN  Min({c, p + CeilDiv((limit - low) * (c - p), high - low)})

\* Mutant: a dip between two refreshes goes unnoticed.
SinceIgnoresDips(states, since, at, now, limit) ==
  IF since # None THEN since ELSE now

(* Since when the weighted vote is over the threshold, given the entry's   *)
(* state before (since, at) and that it is over the threshold now.         *)
OverThresholdSince(states, since, at, now, limit) ==
  LET points == Checkpoints(states, at, now)
      below  == {c \in points : Weighted(states, c) < limit}
      last   == Max(below)
  IN  IF below = {} THEN IF since # None THEN since ELSE at
      ELSE Crossing(states, last, Min({c \in points : c > last}), limit)
-----------------------------------------------------------------------------
(* Votes, the clock and the wave's settings.                               *)

\* A vote has locked the drop and takes the time; a commit takes over 1 ms.
BeginVote(d, v) ==
  /\ d \in open /\ voting[d] = None
  /\ Len(winners) < MaxWinners
  /\ MapThenSumSet(LAMBDA x : Cardinality(history[x]), Drops) < MaxVotes
  /\ \A r \in history[d] : r.at < clock
  /\ v # Newest(history[d]).votes
  /\ voting' = [voting EXCEPT ![d] = [at |-> clock, votes |-> v]]
  /\ UNCHANGED <<clock, threshold, history, entry, open, winners, pass,
                 updates, faults, ghosts>>

\* Whether somebody has already computed the drop's vote at a later time.
TooLate(d) ==
  LET p == pass["decisions"] IN
  \/ entry[d] # None /\ voting[d].at < entry[d].at
  \/ p.phase \in {"formalize", "correct"} /\ d = Min(p.todo) /\ voting[d].at < p.now
  \/ \E i \in 1 .. Len(winners) :
       winners[i].drop = d /\ voting[d].at < winners[i].seen

CommitVote(d) ==
  /\ voting[d] # None
  /\ history' = [history EXCEPT ![d] = @ \cup {voting[d]}]
  /\ voting' = [voting EXCEPT ![d] = None]
  /\ late' = IF TooLate(d) THEN late \cup {d} ELSE late
  /\ UNCHANGED <<clock, threshold, entry, open, winners, pass, updates, faults,
                 overtaken, outdated>>

Tick ==
  /\ clock < MaxTime
  /\ \A d \in Drops : voting[d] # None => clock < voting[d].at + Latency
  /\ clock' = clock + 1
  /\ UNCHANGED <<threshold, votes, entry, open, winners, pass, updates, faults,
                 ghosts>>

\* clearWaveLeaderboardEntriesOverThresholdSinceByWaveId
EntriesCleared ==
  [d \in Drops |-> IF entry[d] = None THEN None
                   ELSE [entry[d] EXCEPT !.since = None, !.at = 0]]

UpdateThreshold(t) ==
  /\ updates < MaxUpdates /\ t # threshold
  /\ threshold' = t
  /\ entry' = EntriesCleared
  /\ updates' = updates + 1
  /\ outdated' = {} /\ overtaken' = {}
  /\ UNCHANGED <<clock, votes, open, winners, pass, faults, late>>
-----------------------------------------------------------------------------
(* Refreshing the entries.                                                 *)

\* Mutant: a drop is left alone as soon as it has no new votes.
NeedsRefreshOnVotesOnly(d) ==
  /\ d \in open
  /\ Newest(history[d]).at >= IF entry[d] = None THEN 0 ELSE entry[d].at

\* A drop whose newest vote was not yet in full force at the last refresh.
NeedsRefresh(d) ==
  /\ d \in open
  /\ Newest(history[d]).at >=
       (IF entry[d] = None THEN 0 ELSE entry[d].at) - TimeLock

\* An invocation notes the time, the threshold and the drops in need.
StartPass(l) ==
  /\ pass[l].phase = "idle"
  /\ pass' = [pass EXCEPT ![l] =
                [phase |-> "refresh", now |-> clock, threshold |-> threshold,
                 todo |-> {d \in Drops : NeedsRefresh(d)}, next |-> 0,
                 slots |-> 0, vote |-> 0]]
  /\ UNCHANGED <<clock, threshold, votes, entry, open, winners, updates, faults,
                 ghosts>>

(* The entry that the refresh of a drop writes: it reads the entry for     *)
(* update, then the vote states from one time lock before the entry's time *)
(* on, and computes the weighted vote now and since when it is over.       *)
Refreshed(d, now, t) ==
  LET start  == now - TimeLock
      at     == IF entry[d] = None THEN start ELSE entry[d].at
      since  == IF entry[d] = None THEN None ELSE entry[d].since
      states == VoteStates(d, at - TimeLock, now)
      vote   == Weighted(states, now)
  IN  [vote  |-> vote \div TimeLock, at |-> now,
       since |-> IF vote < t * TimeLock THEN None
                 ELSE OverThresholdSince(states, since, at, now, t * TimeLock)]

RefreshDrop(l, d) ==
  LET p == pass[l] IN
  /\ p.phase = "refresh" /\ d \in p.todo
  /\ entry' = [entry EXCEPT ![d] = Refreshed(d, p.now, p.threshold)]
  /\ pass' = [pass EXCEPT ![l] = [pass[l] EXCEPT !.todo = @ \ {d}]]
  /\ overtaken' = IF entry[d] # None /\ p.now < entry[d].at
                  THEN overtaken \cup {d} ELSE overtaken
  /\ outdated' = IF p.threshold # threshold THEN outdated \cup {d} ELSE outdated
  /\ UNCHANGED <<clock, threshold, votes, open, winners, updates, faults, late>>

\* The error of one drop is logged, the others go on.
RefreshFails(l, d) ==
  /\ pass[l].phase = "refresh" /\ d \in pass[l].todo
  /\ faults < MaxFaults /\ faults' = faults + 1
  /\ pass' = [pass EXCEPT ![l] = [pass[l] EXCEPT !.todo = @ \ {d}]]
  /\ UNCHANGED <<clock, threshold, votes, entry, open, winners, updates,
                 ghosts>>

\* deleteStaleLeaderboardEntries
WithoutStale(entries, participatory) ==
  [d \in Drops |-> IF d \in participatory THEN entries[d] ELSE None]

FinishRefresh(l) ==
  /\ pass[l].phase = "refresh" /\ pass[l].todo = {}
  /\ entry' = WithoutStale(entry, open)
  /\ pass' = [pass EXCEPT ![l] =
                IF l = "decisions" THEN [Idle EXCEPT !.phase = "approve"]
                ELSE Idle]
  /\ UNCHANGED <<clock, threshold, votes, open, winners, updates, faults,
                 ghosts>>
-----------------------------------------------------------------------------
(* Formalizing winners.                                                    *)

\* Mutant: the duration is not asked for.
IsCandidateAtOnce(d) ==
  /\ d \in open /\ entry[d] # None /\ entry[d].vote >= threshold
  /\ Len(winners) < MaxWinners /\ clock \notin Pauses

IsCandidate(d) ==
  /\ d \in open /\ entry[d] # None /\ entry[d].vote >= threshold
  /\ entry[d].since # None /\ entry[d].since + MinDuration <= clock
  /\ Len(winners) < MaxWinners /\ clock \notin Pauses

LatestDecision ==
  IF winners = <<>> THEN 0 ELSE winners[Len(winners)].decided

FindCandidates ==
  /\ pass["decisions"].phase = "approve"
  /\ pass' = [pass EXCEPT !["decisions"] =
                [phase |-> "check", now |-> clock, threshold |-> threshold,
                 todo |-> {d \in Drops : IsCandidate(d)},
                 next |-> Max({clock, LatestDecision + 1}),
                 slots |-> MaxWinners - Len(winners), vote |-> 0]]
  /\ UNCHANGED <<clock, threshold, votes, entry, open, winners, updates, faults,
                 ghosts>>

\* No candidate, slot or decision time outside of a pause is left.
NoMoreWinners(p) == p.todo = {} \/ p.slots = 0 \/ p.next \in Pauses

FinishApproval ==
  /\ pass["decisions"].phase = "check" /\ NoMoreWinners(pass["decisions"])
  /\ pass' = [pass EXCEPT !["decisions"] = Idle]
  /\ UNCHANGED <<clock, threshold, votes, entry, open, winners, updates, faults,
                 ghosts>>

\* Mutant: the vote of the leaderboard entry is good enough.
CachedVote(d, now) == IF entry[d] = None THEN 0 ELSE entry[d].vote * TimeLock

(* The weighted vote of the oldest candidate is computed anew from its     *)
(* votes.  When it has fallen below the threshold the entry is put right,  *)
(* by a statement of its own, and the next candidate is looked at.         *)
LiveVote(d, now) == Weighted(VoteStates(d, now - TimeLock, now), now)

CheckCandidate ==
  LET p    == pass["decisions"]
      d    == Min(p.todo)
      vote == LiveVote(d, Min({p.now, p.next})) \div TimeLock
  IN
  /\ p.phase = "check" /\ ~NoMoreWinners(p)
  /\ \E next \in {"formalize", "correct"} :
       /\ next = "formalize" <=> vote >= p.threshold
       /\ pass' = [pass EXCEPT !["decisions"] =
                     [p EXCEPT !.phase = next, !.vote = vote]]
  /\ UNCHANGED <<clock, threshold, votes, entry, open, winners, updates, faults,
                 ghosts>>

\* Its vote is not what the entry says: the entry is put right.
CorrectEntry ==
  LET p    == pass["decisions"]
      d    == Min(p.todo)
      time == Min({p.now, p.next})
  IN
  /\ p.phase = "correct"
  /\ entry' = [entry EXCEPT ![d] = [vote |-> p.vote, at |-> time, since |-> None]]
  /\ pass' = [pass EXCEPT !["decisions"] =
                [phase |-> "check", now |-> p.now, threshold |-> p.threshold,
                 todo |-> p.todo \ {d}, next |-> p.next, slots |-> p.slots,
                 vote |-> 0]]
  /\ overtaken' = IF entry[d] # None /\ time < entry[d].at
                  THEN overtaken \cup {d} ELSE overtaken
  /\ outdated' = IF p.threshold # threshold THEN outdated \cup {d} ELSE outdated
  /\ UNCHANGED <<clock, threshold, votes, open, winners, updates, faults, late>>

\* The decision, the winner and the end of its leaderboard entry commit.
Formalize ==
  LET p == pass["decisions"]
      d == Min(p.todo)
  IN
  /\ p.phase = "formalize"
  /\ winners' = Append(winners,
       [drop |-> d, decided |-> p.next, seen |-> Min({p.now, p.next}),
        threshold |-> p.threshold, vote |-> p.vote])
  /\ open' = open \ {d}
  /\ entry' = WithoutStale(entry, open')
  /\ pass' = [pass EXCEPT !["decisions"] =
                [phase |-> "check", now |-> p.now, threshold |-> p.threshold,
                 todo |-> p.todo \ {d}, next |-> p.next + 1,
                 slots |-> p.slots - 1, vote |-> p.vote]]
  /\ UNCHANGED <<clock, threshold, votes, updates, faults, ghosts>>

\* An error outside of a drop's refresh, or a killed Lambda.
Crash(l) ==
  /\ pass[l].phase # "idle"
  /\ faults < MaxFaults /\ faults' = faults + 1
  /\ pass' = [pass EXCEPT ![l] = Idle]
  /\ UNCHANGED <<clock, threshold, votes, entry, open, winners, updates,
                 ghosts>>
-----------------------------------------------------------------------------
Init ==
  /\ clock = 0 /\ threshold = InitialThreshold
  /\ history = [d \in Drops |-> {[at |-> 0, votes |-> 0]}]
  /\ voting = [d \in Drops |-> None]
  /\ entry = [d \in Drops |-> [vote |-> 0, at |-> 0, since |-> None]]
  /\ open = Drops /\ winners = <<>>
  /\ pass = [l \in Loops |-> Idle]
  /\ updates = 0 /\ faults = 0
  /\ late = {} /\ overtaken = {} /\ outdated = {}

Next ==
  \/ Tick
  \/ \E d \in Drops : CommitVote(d) \/ \E v \in VoteValues : BeginVote(d, v)
  \/ \E t \in Thresholds : UpdateThreshold(t)
  \/ \E l \in Loops : StartPass(l) \/ FinishRefresh(l) \/ Crash(l)
  \/ \E l \in Loops, d \in Drops : RefreshDrop(l, d) \/ RefreshFails(l, d)
  \/ FindCandidates \/ CheckCandidate \/ CorrectEntry \/ Formalize \/ FinishApproval

Spec == Init /\ [][Next]_vars
-----------------------------------------------------------------------------
(* The weighted vote by its definition: the mean of the votes in force     *)
(* over the last TimeLock, of every vote that has committed.               *)

InForce(d, time) ==
  LET before == {r \in history[d] : r.at <= time}
  IN  IF before = {} THEN 0 ELSE Newest(before).votes

TrueVote(d, time) ==
  Total([i \in 1 .. TimeLock |-> InForce(d, time - i)], 1 .. TimeLock)

IsOver(d, time, t) == TrueVote(d, time) >= t * TimeLock
-----------------------------------------------------------------------------
(* Drops whose entry may show them over the threshold when they are not.   *)
(* A refresh that comes after a later one looks at too few votes, which    *)
(* understates the vote, but may overstate it when votes can be negative.  *)
Overrated ==
  late \cup outdated \cup (IF VoteValues \subseteq Nat THEN {} ELSE overtaken)

(* over_threshold_since_ms is since when the weighted vote has been over   *)
(* the threshold without a break, up to the entry's time: never too early, *)
(* and not too late unless a refresh that began earlier wrote later.       *)
SinceIsExact ==
  \A d \in open \ Overrated :
    LET e == entry[d] IN
    /\ e.since # None =>
         /\ e.since <= e.at
         /\ \A t \in e.since .. e.at : IsOver(d, t, threshold)
    /\ d \notin overtaken =>
         IF e.since = None THEN ~IsOver(d, e.at, threshold)
         ELSE e.since = 0 \/ ~IsOver(d, e.since - 1, threshold)

(* An entry that no refresh looks at any more is right for good: it shows  *)
(* the weighted vote of the present.                                       *)
SettledEntriesAreRight ==
  \A d \in open \ (late \cup outdated \cup overtaken) :
    ~NeedsRefresh(d) =>
      /\ entry[d].vote = TrueVote(d, clock) \div TimeLock
      /\ entry[d].since # None <=> IsOver(d, clock, threshold)

(* Whoever is found to be a candidate has been over the threshold for the  *)
(* minimal duration, as far as its last refresh can tell.                  *)
CandidatesHeld ==
  [][pass["decisions"].phase = "approve"
       /\ pass'["decisions"].phase = "check" =>
     \A d \in pass'["decisions"].todo \ Overrated :
       \A t \in clock - MinDuration .. entry[d].at :
         IsOver(d, t, threshold)]_vars

(* A winner is over the threshold at the time of the decision, whatever    *)
(* has happened to its votes and its entry since it became a candidate.    *)
WinnersAreOver ==
  \A i \in 1 .. Len(winners) :
    LET w == winners[i] IN
    w.drop \notin late =>
      /\ IsOver(w.drop, w.seen, w.threshold)
      /\ w.vote = TrueVote(w.drop, w.seen) \div TimeLock
=============================================================================
