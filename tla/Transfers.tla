----------------------------- MODULE Transfers -----------------------------
(* The downloads and prints of an engine process (src/electron/main.cjs): the path each is given, the
   list they are kept in, and the badge that says how they stand over the page of the tab that is
   shown. download-state.cjs picks what the badge says. Bytes and percentages are left out. *)
EXTENDS Integers, Sequences, FiniteSetsExt, SequencesExt

CONSTANTS
  BadgeTabs,      \* the tabs of the pane
  MaxLive,        \* MAX_LIVE_TRANSFERS
  Strangers,      \* another engine process saves to the same directory
  TransferScenes  \* how often each kind of event happens
ASSUME TransferAssumption == MaxLive \in Nat \ {0} /\ Strangers \in BOOLEAN

VARIABLES
  items,         \* what Chromium downloads or prints: the number in its file name, and how it stands
  transfers,     \* transfers: those the pane still lists, newest last
  pendingPaths,  \* pendingDownloadPaths
  disk,          \* the files that are there
  ended,         \* the transfers that have ended, in that order
  fresh,         \* those that ended less than SETTLED_HOLD_MS ago
  cancelling,    \* downloads told to stop
  atPrinter,     \* prints whose lpr has not exited
  badge,         \* what each tab's page shows: a transfer and whether it is running
  badgeTimer,    \* transferBadgeTimer is set
  paperTimers,   \* the timers a page has set to take a printer's badge away
  shownTab,
  strange,       \* names another process is writing to
  overwritten,   \* history: a file was written where there was one
  transferBudget

transferVars == <<items, transfers, pendingPaths, disk, ended, fresh, cancelling, atPrinter, badge,
                  badgeTimer, paperTimers, shownTab, strange, overwritten, transferBudget>>

NoBadge == [of |-> 0, running |-> FALSE]
PaperBadge == [of |-> -1, running |-> FALSE]

TransfersInit ==
  /\ items = <<>> /\ transfers = <<>> /\ pendingPaths = {} /\ disk = {} /\ ended = <<>> /\ fresh = {}
  /\ cancelling = {} /\ atPrinter = {} /\ badge = [t \in BadgeTabs |-> NoBadge] /\ badgeTimer = FALSE
  /\ paperTimers = [t \in BadgeTabs |-> 0] /\ shownTab \in BadgeTabs /\ strange = {}
  /\ overwritten = FALSE /\ transferBudget \in TransferScenes

SpendTransfer(what) == transferBudget[what] > 0 /\ transferBudget' = [transferBudget EXCEPT ![what] = @ - 1]

\* A mutant: only the files that are there are looked at.
PathOfDisk(taken) == Min(0..Cardinality(disk) \ disk)
\* availableDownloadPath: the first number no file has, and no transfer of this process.
AvailableDownloadPath(taken) == Min(0..Cardinality(taken) \ taken)

Running(list, all) == SelectSeq(list, LAMBDA i : all[i].state = "progressing")
\* activeTransfer and transferSummary: the newest that runs, or the last that ended, for a while.
TransferSummary(list, all, over, held) ==
  LET done == SelectSeq(over, LAMBDA i : i \in held /\ i \in ToSet(list))
  IN IF Running(list, all) # <<>> THEN [of |-> Last(Running(list, all)), running |-> TRUE]
     ELSE IF done # <<>> THEN [of |-> Last(done), running |-> FALSE] ELSE NoBadge

SendTransferState ==
  LET summary == TransferSummary(transfers', items', ended', fresh')
  IN badge' = [badge EXCEPT ![shownTab] = summary] /\ badgeTimer' = (summary.of # 0 /\ ~summary.running)

-----------------------------------------------------------------------------

\* A list that is full forgets its oldest, running or not.
TrackTransfer(kind, name) ==
  LET list == Append(transfers, Len(items) + 1)
  IN /\ items' = Append(items, [name |-> name, kind |-> kind, state |-> "progressing"])
     /\ transfers' = IF Len(list) > MaxLive THEN Tail(list) ELSE list

Starts(kind) ==
  /\ SpendTransfer(kind)
  /\ LET name == AvailableDownloadPath(disk \union pendingPaths)
     IN TrackTransfer(kind, name) /\ pendingPaths' = pendingPaths \union {name}
  /\ UNCHANGED <<ended, fresh>> /\ SendTransferState
  /\ UNCHANGED <<disk, cancelling, atPrinter, paperTimers, shownTab, strange, overwritten>>
WillDownload == Starts("downloads")
\* The PDF of a page, which paper hands to the printer once it is written.
PrintPageToPdf(paper) == Starts(IF paper THEN "papers" ELSE "prints")

\* "updated": bytes, a pause, a broken connection.
Updated(i) == /\ items[i].kind = "downloads" /\ items[i].state = "progressing" /\ SpendTransfer("updates")
              /\ UNCHANGED <<items, transfers, ended, fresh>> /\ SendTransferState
              /\ UNCHANGED <<pendingPaths, disk, cancelling, atPrinter, paperTimers, shownTab, strange,
                             overwritten>>

SettleTransfer(i, state) ==
  /\ items[i].state = "progressing" /\ (state = "cancelled" => i \in cancelling)
  /\ items' = [items EXCEPT ![i].state = state] /\ ended' = Append(ended, i) /\ fresh' = fresh \union {i}
  /\ pendingPaths' = pendingPaths \ {items[i].name}
  /\ disk' = IF state = "completed" THEN disk \union {items[i].name} ELSE disk
  /\ overwritten' = (overwritten \/ (state = "completed" /\ items[i].name \in disk))
  /\ transfers' = transfers /\ SendTransferState
  /\ atPrinter' = IF items[i].kind = "papers" /\ state = "completed" THEN atPrinter \union {i}
                  ELSE atPrinter
  /\ UNCHANGED <<cancelling, paperTimers, shownTab, strange, transferBudget>>

\* Ctrl-D: only a download can be stopped.
CancelTransfer ==
  /\ Running(transfers, items) # <<>> /\ SpendTransfer("cancels")
  /\ LET i == Last(Running(transfers, items))
     IN cancelling' = IF items[i].kind = "downloads" THEN cancelling \union {i} ELSE cancelling
  /\ UNCHANGED <<items, transfers, pendingPaths, disk, ended, fresh, atPrinter, badge, badgeTimer,
                 paperTimers, shownTab, strange, overwritten>>

\* lpr has exited: its badge takes the place of any other, whose timer is not to touch it.
PrintQueueOutcome(i) ==
  /\ i \in atPrinter /\ atPrinter' = atPrinter \ {i} /\ badgeTimer' = FALSE
  /\ badge' = [badge EXCEPT ![shownTab] = PaperBadge]
  /\ paperTimers' = [paperTimers EXCEPT ![shownTab] = @ + 1]
  /\ UNCHANGED <<items, transfers, pendingPaths, disk, ended, fresh, cancelling, shownTab, strange,
                 overwritten, transferBudget>>
PaperTimer(t) ==
  /\ paperTimers[t] > 0 /\ paperTimers' = [paperTimers EXCEPT ![t] = @ - 1]
  /\ badge' = [badge EXCEPT ![t] = IF @ = PaperBadge THEN NoBadge ELSE @]
  /\ UNCHANGED <<items, transfers, pendingPaths, disk, ended, fresh, cancelling, atPrinter, badgeTimer,
                 shownTab, strange, overwritten, transferBudget>>

\* Eight seconds after an end; the timer fires when that has passed for all of them.
HoldEnds == /\ fresh # {} /\ fresh' = fresh \ {SelectSeq(ended, LAMBDA i : i \in fresh)[1]}
            /\ UNCHANGED <<items, transfers, pendingPaths, disk, ended, cancelling, atPrinter, badge,
                           badgeTimer, paperTimers, shownTab, strange, overwritten, transferBudget>>
BadgeTimer == /\ badgeTimer /\ fresh = {} /\ badgeTimer' = FALSE
              /\ badge' = [badge EXCEPT ![shownTab] = TransferSummary(transfers, items, ended, fresh)]
              /\ UNCHANGED <<items, transfers, pendingPaths, disk, ended, fresh, cancelling, atPrinter,
                             paperTimers, shownTab, strange, overwritten, transferBudget>>

\* A new document of a tab has nothing to show until it has registered, and is then told.
BadgePreloadReady(t) ==
  /\ SpendTransfer("documents") /\ paperTimers' = [paperTimers EXCEPT ![t] = 0]
  /\ badge' = [badge EXCEPT ![t] = IF t = shownTab THEN TransferSummary(transfers, items, ended, fresh)
                                   ELSE NoBadge]
  /\ UNCHANGED <<items, transfers, pendingPaths, disk, ended, fresh, cancelling, atPrinter, badgeTimer,
                 shownTab, strange, overwritten>>
ShowsTab(t) == /\ t # shownTab /\ SpendTransfer("switches") /\ shownTab' = t
               /\ UNCHANGED <<items, transfers, pendingPaths, disk, ended, fresh, cancelling, atPrinter,
                              badge, badgeTimer, paperTimers, strange, overwritten>>

\* Another engine process does the same with a pendingDownloadPaths of its own.
StrangerStarts == /\ Strangers /\ strange = {} /\ strange' = {AvailableDownloadPath(disk)}
                  /\ UNCHANGED <<items, transfers, pendingPaths, disk, ended, fresh, cancelling, atPrinter,
                                 badge, badgeTimer, paperTimers, shownTab, overwritten, transferBudget>>
StrangerSaves == /\ strange # {} /\ strange' = {} /\ disk' = disk \union strange
                 /\ overwritten' = (overwritten \/ strange \intersect disk # {})
                 /\ UNCHANGED <<items, transfers, pendingPaths, ended, fresh, cancelling, atPrinter, badge,
                                badgeTimer, paperTimers, shownTab, transferBudget>>

TransfersNext ==
  \/ WillDownload \/ \E paper \in BOOLEAN : PrintPageToPdf(paper)
  \/ \E i \in DOMAIN items : \/ Updated(i) \/ PrintQueueOutcome(i)
                             \/ \E s \in {"completed", "interrupted", "cancelled"} : SettleTransfer(i, s)
  \/ CancelTransfer \/ HoldEnds \/ BadgeTimer \/ StrangerStarts \/ StrangerSaves
  \/ \E t \in BadgeTabs : PaperTimer(t) \/ BadgePreloadReady(t) \/ ShowsTab(t)
TransfersSpec == TransfersInit /\ [][TransfersNext]_transferVars

-----------------------------------------------------------------------------
(* Properties. *)

TransfersTypeOK ==
  /\ \A i \in DOMAIN items : items[i].state \in {"progressing", "completed", "interrupted", "cancelled"}
  /\ Len(transfers) <= MaxLive /\ {ToSet(transfers), ToSet(ended)} \subseteq SUBSET DOMAIN items
  /\ fresh \subseteq ToSet(ended) /\ atPrinter \subseteq ToSet(ended) /\ cancelling \subseteq DOMAIN items
  /\ \A t \in BadgeTabs : badge[t].of \in -1..Len(items) /\ paperTimers[t] \in Nat
  /\ {badgeTimer, overwritten} \subseteq BOOLEAN /\ {disk, pendingPaths, strange} \subseteq SUBSET Nat

\* Two transfers are two files ("report.pdf and report (1).pdf", download-state.cjs): none is written
\* where there is one.
NothingIsOverwritten == ~overwritten

\* The page that is shown never calls a transfer running that has ended, nor one ended that runs.
BadgeIsTrue == LET b == badge[shownTab]
               IN b.of > 0 => b.running = (items[b.of].state = "progressing")

\* "'✓ report.pdf' that never goes away would sit over the page forever": the badge of a transfer that
\* has ended has the timer that takes it away.
BadgeExpires == LET b == badge[shownTab]
                IN /\ b.of > 0 /\ ~b.running => badgeTimer
                   /\ b = PaperBadge => paperTimers[shownTab] > 0

\* "An in-flight one never expires, because a transfer that is still running is still true."
RunningIsShown == (\E i \in DOMAIN items : items[i].state = "progressing") => badge[shownTab].running
=============================================================================
