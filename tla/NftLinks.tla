------------------------------- MODULE NftLinks -------------------------------
(***************************************************************************)
(* One link to an NFT that users post, its card and the preview of its     *)
(* media.                                                                  *)
(*   - Readers ask for a refresh of a card that is older than a minimum    *)
(*     interval.                                                           *)
(*   - Resolvers (Lambda, up to twenty at once) lock the row for LockTTL,  *)
(*     ask the external site, with up to five attempts, store the card and *)
(*     unlock the row, and ask for a preview when the media is new or the  *)
(*     last attempt has failed.  A resolver lives longer than its lock.    *)
(*   - Preview workers (Lambda, up to five at once) take a PENDING preview *)
(*     over, download the media and store the outcome.                     *)
(*                                                                         *)
(* Times are kept as ages in ticks of the clock; an age of Old is "long    *)
(* ago".  The hash of a media URL is the media itself.                     *)
(***************************************************************************)
EXTENDS Integers

CONSTANTS
  Media,        \* what the site may show
  NoSource,     \* a card without any media URL
  Unsupported,  \* media no preview is made of
  Resolvers, Workers,
  LockTTL,      \* NFT_LINK_RESOLVER_LOCK_TTL
  MinInterval,  \* NFT_LINK_RESOLVER_MIN_UPDATE_INTERVAL
  MaxChanges,   \* bound: changes of the site
  MaxFailures,  \* bound: failures in a behaviour
  None

\* Both times are two minutes unless configured otherwise.
ASSUME TimesAssumption ==
  /\ NoSource \notin Media /\ Unsupported \subseteq Media
  /\ LockTTL \in Nat /\ MinInterval \in Nat /\ LockTTL <= MinInterval
  /\ MaxChanges \in Nat /\ MaxFailures \in Nat
  /\ None \notin Media \cup {NoSource} \cup Int

VARIABLES
  site,     \* the media the external site shows
  media,    \* full_data: the media of the stored card, None before the first
  lock,     \* is_locked_since, None if null
  tried,    \* last_tried_to_update
  preview, hash, url,  \* media_preview_status, _source_hash, _card_url
  jobs,     \* hashes that wait in the queue nft-link-media-previews
  pc,       \* pc[r]: where resolver r is
  since,    \* since[r]: the time of its lock, while it works under it
  card,     \* card[r]: the media of the card it has resolved
  wpc,      \* wpc[w]: where preview worker w is
  job,      \* job[w]: the hash of its message
  source,   \* source[w]: the media of the row it has read
  changes, failures

cardVars     == <<media, lock, tried>>
previewVars  == <<preview, hash, url>>
resolverVars == <<pc, since, card>>
workerVars   == <<wpc, job, source>>
bounds       == <<changes, failures>>
linkVars ==
  <<site, cardVars, previewVars, jobs, resolverVars, workerVars, bounds>>

Cards == Media \cup {NoSource}
Old   == MinInterval + 1

CardTypeOK ==
  /\ site \in Cards /\ media \in Cards \cup {None}
  /\ lock \in (0 .. Old) \cup {None} /\ tried \in 0 .. Old

PreviewTypeOK ==
  /\ preview \in {"PENDING", "PROCESSING", "READY", "FAILED", "SKIPPED", None}
  /\ hash \in Media \cup {None} /\ url \in Media \cup {None}

CardsHeld ==
  \A r \in Resolvers : /\ pc[r] \in {"store", "mark"} => card[r] \in Cards
                       /\ pc[r] = "send" => card[r] \in Media

ResolversTypeOK ==
  /\ pc \in [Resolvers -> {"idle", "resolve", "store", "giveUp", "mark", "send"}]
  /\ since \in [Resolvers -> 0 .. Old]
  /\ card \in [Resolvers -> Cards \cup {None}]
  /\ CardsHeld

WorkersTypeOK ==
  /\ wpc \in [Workers -> {"idle", "work", "fail"}]
  /\ job \in [Workers -> Media \cup {None}]
  /\ source \in [Workers -> Cards \cup {None}]
  /\ \A w \in Workers : wpc[w] # "idle" => job[w] \in Media

BoundsTypeOK == changes \in 0 .. MaxChanges /\ failures \in 0 .. MaxFailures

LinkTypeOK ==
  /\ CardTypeOK /\ PreviewTypeOK /\ jobs \subseteq Media
  /\ ResolversTypeOK /\ WorkersTypeOK /\ BoundsTypeOK

\* insertPendingOrDoNothing leaves a row that was never tried.
LinkInit ==
  /\ site \in Cards /\ media = None
  /\ lock = None /\ tried = Old
  /\ preview = None /\ hash = None /\ url = None
  /\ jobs = {}
  /\ pc = [r \in Resolvers |-> "idle"]
  /\ since = [r \in Resolvers |-> Old]
  /\ card = [r \in Resolvers |-> None]
  /\ wpc = [w \in Workers |-> "idle"]
  /\ job = [w \in Workers |-> None] /\ source = [w \in Workers |-> None]
  /\ changes = 0 /\ failures = 0

-----------------------------------------------------------------------------
(* The world around.                                                       *)

Older(age) == IF age \in 0 .. MinInterval THEN age + 1 ELSE age

Tick ==
  /\ lock' = Older(lock) /\ tried' = Older(tried)
  /\ since' = [r \in Resolvers |-> Older(since[r])]
  /\ UNCHANGED <<site, media, previewVars, jobs, pc, card, workerVars, bounds>>

Republish(m) ==
  /\ m # site /\ changes < MaxChanges
  /\ site' = m /\ changes' = changes + 1
  /\ UNCHANGED <<cardVars, previewVars, jobs, resolverVars, workerVars, failures>>

-----------------------------------------------------------------------------
(* attemptResolve and onResolvedCard.                                      *)

\* Mutant: the row can be locked however recently it was tried.
IsLockableAtOnce == lock # None => lock > LockTTL

IsLockable ==
  /\ lock # None => lock > LockTTL
  /\ tried > MinInterval

(* Resolver r receives the message of a reader who has found the card      *)
(* older than MinInterval, or that of a resolver that was killed.  Every   *)
(* reader of a card that can be locked sends one, and messages that find   *)
(* the row locked or tried since are done: the queue has no state.         *)
Lock(r) ==
  /\ pc[r] = "idle" /\ IsLockable
  /\ lock' = 0
  /\ pc' = [pc EXCEPT ![r] = "resolve"]
  /\ since' = [since EXCEPT ![r] = 0]
  /\ UNCHANGED <<site, media, tried, previewVars, jobs, card, workerVars, bounds>>

Resolve(r) ==
  /\ pc[r] = "resolve"
  /\ pc' = [pc EXCEPT ![r] = "store"]
  /\ card' = [card EXCEPT ![r] = site]
  /\ UNCHANGED <<site, cardVars, previewVars, jobs, since, workerVars, bounds>>

\* Resolver r ends, or goes on without the lock.
Leave(r, after) ==
  /\ pc' = [pc EXCEPT ![r] = after]
  /\ since' = [since EXCEPT ![r] = Old]
  /\ card' = IF after = "idle" THEN [card EXCEPT ![r] = None] ELSE card

\* updateWithSuccess.
Stored(m) == media' = m /\ tried' = 0 /\ lock' = None

Store(r) ==
  /\ pc[r] = "store"
  /\ Stored(card[r])
  /\ Leave(r, "mark")
  /\ UNCHANGED <<site, previewVars, jobs, workerVars, bounds>>

(* An attempt fails at the site or at the update, which may have taken     *)
(* effect; there is another one unless it was the last.                    *)
AttemptFails(r) ==
  /\ pc[r] \in {"resolve", "store"} /\ failures < MaxFailures
  /\ failures' = failures + 1
  /\ \/ UNCHANGED cardVars
     \/ pc[r] = "store" /\ Stored(card[r])
  /\ \E after \in {"resolve", "giveUp"} : pc' = [pc EXCEPT ![r] = after]
  /\ card' = [card EXCEPT ![r] = None]
  /\ UNCHANGED <<site, previewVars, jobs, since, workerVars, changes>>

UpdateWithFailure(r) ==
  /\ pc[r] = "giveUp"
  /\ tried' = 0 /\ lock' = None
  /\ Leave(r, "idle")
  /\ UNCHANGED <<site, media, previewVars, jobs, workerVars, bounds>>

\* Mutant: a preview that has failed is left alone while its media is the same.
IsNewMedia(m) == m # hash \/ preview = None

\* The condition of markMediaPreviewPendingIfNeeded.
IsNeeded(m) == m # hash \/ preview \in {None, "FAILED", "SKIPPED"}

(* markMediaPreviewSkipped, or markMediaPreviewPendingIfNeeded.  The       *)
(* latter means to clear the URLs of another media, but MySQL assigns from *)
(* left to right: they are compared with the new hash and never cleared.   *)
Marked(m) ==
  IF m = NoSource THEN preview' = "SKIPPED" /\ hash' = None /\ url' = None
  ELSE IF IsNeeded(m) THEN preview' = "PENDING" /\ hash' = m /\ UNCHANGED url
  ELSE UNCHANGED previewVars

Mark(r) ==
  /\ pc[r] = "mark"
  /\ Marked(card[r])
  /\ Leave(r, IF card[r] # NoSource /\ IsNeeded(card[r]) THEN "send" ELSE "idle")
  /\ UNCHANGED <<site, cardVars, jobs, workerVars, bounds>>

Send(r) ==
  /\ pc[r] = "send"
  /\ jobs' = jobs \cup {card[r]}
  /\ Leave(r, "idle")
  /\ UNCHANGED <<site, cardVars, previewVars, workerVars, bounds>>

(* The mark or the message for the preview fails, with or without effect;  *)
(* the error is logged and the refresh counts as done.                     *)
PreviewErrs(r) ==
  /\ pc[r] \in {"mark", "send"} /\ failures < MaxFailures
  /\ failures' = failures + 1
  /\ \/ UNCHANGED <<previewVars, jobs>>
     \/ pc[r] = "mark" /\ Marked(card[r]) /\ UNCHANGED jobs
     \/ pc[r] = "send" /\ jobs' = jobs \cup {card[r]} /\ UNCHANGED previewVars
  /\ Leave(r, "idle")
  /\ UNCHANGED <<site, cardVars, workerVars, changes>>

(* The Lambda is killed or its last update fails: the message comes back,  *)
(* the lock stays.                                                         *)
KillResolver(r) ==
  /\ pc[r] # "idle" /\ failures < MaxFailures
  /\ failures' = failures + 1
  /\ Leave(r, "idle")
  /\ UNCHANGED <<site, cardVars, previewVars, jobs, workerVars, changes>>

-----------------------------------------------------------------------------
(* processQueueMessage.                                                    *)

EndWork(w) ==
  /\ wpc' = [wpc EXCEPT ![w] = "idle"]
  /\ job' = [job EXCEPT ![w] = None] /\ source' = [source EXCEPT ![w] = None]

(* Worker w receives the message h.  A PENDING preview of this media       *)
(* becomes PROCESSING, else nothing happens.                               *)
TakeJob(w, h) ==
  /\ wpc[w] = "idle" /\ h \in jobs
  /\ jobs' = jobs \ {h}
  /\ IF preview = "PENDING" /\ hash = h
     THEN /\ preview' = "PROCESSING"
          /\ wpc' = [wpc EXCEPT ![w] = "work"]
          /\ job' = [job EXCEPT ![w] = h]
          /\ source' = [source EXCEPT ![w] = media]
     ELSE UNCHANGED <<preview, workerVars>>
  /\ UNCHANGED <<site, cardVars, hash, url, resolverVars, bounds>>

(* lockMediaPreviewForProcessing skips a row that another transaction has  *)
(* locked at that moment (a resolver that looks whether it may lock the    *)
(* row, an update, the insertion of a drop with this link): the worker     *)
(* takes the preview for done, and the message is gone.                    *)
SkipRow(w, h) ==
  /\ wpc[w] = "idle" /\ h \in jobs
  /\ jobs' = jobs \ {h}
  /\ UNCHANGED <<site, cardVars, previewVars, resolverVars, workerVars, bounds>>

\* The queue delivers the message of a worker once more.
Redeliver(w) ==
  /\ wpc[w] # "idle" /\ failures < MaxFailures
  /\ failures' = failures + 1
  /\ jobs' = jobs \cup {job[w]}
  /\ UNCHANGED <<site, cardVars, previewVars, resolverVars, workerVars, changes>>

\* Mutant: the message of another media is ignored once it is taken.
RejectQuietly(w) ==
  /\ wpc[w] = "work" /\ source[w] # job[w]
  /\ EndWork(w)
  /\ UNCHANGED <<site, cardVars, previewVars, jobs, resolverVars, bounds>>

(* The row shows no media any more, or another one than the message.       *)
Reject(w) ==
  /\ wpc[w] = "work" /\ source[w] # job[w]
  /\ preview' = IF source[w] = NoSource THEN "SKIPPED" ELSE "FAILED"
  /\ EndWork(w)
  /\ UNCHANGED <<site, cardVars, hash, url, jobs, resolverVars, bounds>>

\* updateMediaPreviewWithSuccess, or -WithFailure for unsupported media.
Finished(m) ==
  IF m \in Unsupported THEN preview' = "SKIPPED" /\ UNCHANGED <<hash, url>>
  ELSE preview' = "READY" /\ hash' = m /\ url' = m

Finish(w) ==
  /\ wpc[w] = "work" /\ source[w] = job[w]
  /\ Finished(source[w])
  /\ EndWork(w)
  /\ UNCHANGED <<site, cardVars, jobs, resolverVars, bounds>>

\* The download, the upload or the update fails, the latter perhaps with effect.
WorkFails(w) ==
  /\ wpc[w] = "work" /\ source[w] = job[w] /\ failures < MaxFailures
  /\ failures' = failures + 1
  /\ Finished(source[w]) \/ UNCHANGED previewVars
  /\ wpc' = [wpc EXCEPT ![w] = "fail"]
  /\ UNCHANGED <<site, cardVars, jobs, resolverVars, job, source, changes>>

Fail(w) ==
  /\ wpc[w] = "fail"
  /\ preview' = "FAILED"
  /\ EndWork(w)
  /\ UNCHANGED <<site, cardVars, hash, url, jobs, resolverVars, bounds>>

(* The Lambda is killed or its last update fails: the message comes back,  *)
(* the preview stays PROCESSING.                                           *)
KillWorker(w) ==
  /\ wpc[w] # "idle" /\ failures < MaxFailures
  /\ failures' = failures + 1
  /\ jobs' = jobs \cup {job[w]}
  /\ EndWork(w)
  /\ UNCHANGED <<site, cardVars, previewVars, resolverVars, changes>>

-----------------------------------------------------------------------------
Resolving(r) ==
  Resolve(r) \/ Store(r) \/ UpdateWithFailure(r) \/ Mark(r) \/ Send(r)

Working(w) == Reject(w) \/ Finish(w) \/ Fail(w)

Faults ==
  \/ \E r \in Resolvers : AttemptFails(r) \/ PreviewErrs(r) \/ KillResolver(r)
  \/ \E w \in Workers : Redeliver(w) \/ WorkFails(w) \/ KillWorker(w)

LinkNext ==
  \/ Tick
  \/ \E m \in Cards : Republish(m)
  \/ \E r \in Resolvers : Lock(r) \/ Resolving(r)
  \/ \E w \in Workers, h \in Media : TakeJob(w, h) \/ SkipRow(w, h)
  \/ \E w \in Workers : Working(w)
  \/ Faults

LinkSpec == LinkInit /\ [][LinkNext]_linkVars

(* The clock goes on, the link is looked at again and again, the queues    *)
(* invoke the Lambdas and each invocation goes on.                         *)
FairLinkSpec ==
  /\ LinkSpec
  /\ WF_linkVars(Tick)
  /\ WF_linkVars(\E r \in Resolvers : Lock(r))
  /\ \A r \in Resolvers : WF_linkVars(Resolving(r))
  /\ \A h \in Media : WF_linkVars(\E w \in Workers : TakeJob(w, h))
  /\ \A w \in Workers : WF_linkVars(Working(w))

-----------------------------------------------------------------------------
\* Resolver r has the row to itself, as far as it can know.
Holds(r) == pc[r] \in {"resolve", "store", "giveUp"} /\ since[r] <= LockTTL

(* A resolver that outlives its lock unlocks the row of the next holder    *)
(* when it is done; even so no third one starts before that holder's time  *)
(* is over.                                                                *)
OneHolder == \A r, o \in Resolvers : Holds(r) /\ Holds(o) => r = o

\* A preview that nobody is going to work on.
Unattended ==
  \/ /\ preview = "PENDING" /\ hash \notin jobs
     /\ \A r \in Resolvers : pc[r] = "send" => card[r] # hash
  \/ preview = "PROCESSING" /\ \A w \in Workers : wpc[w] = "idle"

\* The message of a marked preview is lost, or the worker of a taken one.
Abandons ==
  \/ \E r \in Resolvers : PreviewErrs(r) \/ (pc[r] = "send" /\ KillResolver(r))
  \/ \E w \in Workers : KillWorker(w) \/ \E h \in Media : SkipRow(w, h)

(* However resolvers and workers overtake each other, a preview is left    *)
(* PENDING without a message or PROCESSING without a worker only where the *)
(* code gives it up: an error or a kill between the mark and the message,  *)
(* a killed worker, a message that finds the row locked.  No stale job, no *)
(* late worker and no other failure does it.                               *)
NoPreviewStranded == [][Unattended' => Unattended \/ Abandons]_linkVars

(* The card is that of the site, and the preview is that of its media, or  *)
(* is SKIPPED for it when none is made.  (Then the row may still have the  *)
(* URLs of an earlier media, see Marked: nothing is said of them.)         *)
Shown ==
  /\ media = site
  /\ IF site = NoSource THEN preview = "SKIPPED" /\ url = None
     ELSE IF site \in Unsupported THEN preview = "SKIPPED" /\ hash = site
     ELSE preview = "READY" /\ hash = site /\ url = site

(* When the site stops changing and failures stop, a link that is looked   *)
(* at is shown as it is, whatever late resolvers and workers have written, *)
(* unless the preview of this very media has been left to nobody: one that *)
(* was left behind for another media is made up for.                       *)
EventuallyShown == []<>(Shown \/ (Unattended /\ hash = site))
=============================================================================
