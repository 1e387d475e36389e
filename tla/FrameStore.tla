----------------------------- MODULE FrameStore -----------------------------
(* Where the pixels of a raw frame wait for the terminal (src/electron/main.cjs, gfx-worker.cjs,
   shm-frames.cjs, orphan-watch.cjs): in the pane's one file, or in a shared-memory object whose name comes
   from a ring. The worker thread writes, the main thread tells the terminal, the terminal reads later and
   takes the object away; an engine can be killed at any moment and the next one sweeps up. Each engine here
   serves one pane. FramePipeline says which frames are drawn; this module says where they are. *)
EXTENDS Integers, Sequences, FiniteSets

CONSTANTS
  Homes,        \* the engine processes, each with the pane it serves
  WholeRing,    \* SHM_RING
  PatchRing,    \* SHM_PATCH_RING
  ShmLimit,     \* SHM_FRAME_FAILURE_LIMIT
  Lag,          \* bound: how many escapes a tty takes before the engine's next write waits
  StoreScenes   \* how often each kind of event happens
ASSUME StoreAssumption == {WholeRing, PatchRing, ShmLimit, Lag} \subseteq Nat \ {0}

VARIABLES
  life,        \* each engine: not started, "up", "leaving" (before-quit ran) or "dead"
  served,      \* whether its pane is attached
  shmOn, shmFailures,   \* shmFramesEnabled, shmFrameFailures
  marked, shmSlot, shmPatchSlot,   \* of the pane's frame context
  paneSize,    \* the pane's size now
  drawnSoFar,  \* how many frames and patches the pane has made
  inWorker,    \* the frame the worker has, and how far it is
  escapes,        \* the escapes the terminal has not read
  store,       \* the files and objects there are, and the pixels in them
  markers,     \* the marker files
  lastRead,    \* history: the escape the terminal read last, and what was there
  crowded,     \* history: names handed out again while an escape that says them was unread
  cutShort,    \* history: engines killed while they were leaving
  storeBudget

storeVars == <<life, served, shmOn, shmFailures, marked, shmSlot, shmPatchSlot, paneSize, drawnSoFar, inWorker,
               escapes, store, markers, lastRead, crowded, cutShort, storeBudget>>
storeHistory == <<crowded, cutShort>>

\* frameFilePathFor with its staging file, shmFrameName and shmPatchName.
FileOf(e) == [of |-> e, kind |-> "file", slot |-> 0]
StagingOf(e) == [of |-> e, kind |-> "tmp", slot |-> 0]
WholeName(e, k) == [of |-> e, kind |-> "whole", slot |-> k]
PatchName(e, k) == [of |-> e, kind |-> "patch", slot |-> k]
\* paneFrameFileNames and paneShmNames.
FilesOf(e) == {FileOf(e), StagingOf(e)}
ShmNames(e) ==
  {WholeName(e, k) : k \in 0 .. WholeRing - 1} \union {PatchName(e, k) : k \in 0 .. PatchRing - 1}
StoreNames == UNION {FilesOf(e) \union ShmNames(e) : e \in Homes}

NoPixels == [n |-> 0, size |-> 0]
NoWork == [n |-> 0, size |-> 0, shm |-> FALSE, slot |-> 0, stage |-> "none", failed |-> FALSE]
\* An escape that deletes an image or carries its pixels itself.
Inline == [of |-> 0, kind |-> "inline", slot |-> 0]

StoreInit ==
  /\ life = [e \in Homes |-> "new"] /\ served = {} /\ shmOn = Homes /\ shmFailures = [e \in Homes |-> 0]
  /\ marked = {} /\ shmSlot = [e \in Homes |-> 0] /\ shmPatchSlot = [e \in Homes |-> 0]
  /\ paneSize = [e \in Homes |-> 0] /\ drawnSoFar = [e \in Homes |-> 0]
  /\ inWorker = [e \in Homes |-> NoWork]
  /\ escapes = [e \in Homes |-> <<>>] /\ store = [x \in StoreNames |-> NoPixels] /\ markers = {}
  /\ lastRead = [name |-> Inline, asked |-> NoPixels, got |-> NoPixels] /\ storeBudget \in StoreScenes
  /\ crowded = {} /\ cutShort = {}

SpendStore(what) == storeBudget[what] > 0 /\ storeBudget' = [storeBudget EXCEPT ![what] = @ - 1]
NewPixels(e) == [n |-> drawnSoFar[e] + 1, size |-> paneSize[e]]
Without(names) == [x \in StoreNames |-> IF x \in names THEN NoPixels ELSE store[x]]
\* A write to a terminal that has fallen behind waits, and the engine's main thread with it.
CanWrite(e) == life[e] = "up" /\ e \in served /\ Len(escapes[e]) < Lag
Tells(e, name, pixels) == escapes' = [escapes EXCEPT ![e] = Append(@, [name |-> name, pixels |-> pixels])]

\* markShmPane.
MarkShmPane(e) ==
  marked' = marked \union {e} /\ markers' = IF e \in marked THEN markers ELSE markers \union {e}

\* History: the ring comes round to a name the terminal has not come to yet.
HandsOut(e, name) ==
  crowded' = IF \E i \in DOMAIN escapes[e] : escapes[e][i].name = name THEN crowded \union {name} ELSE crowded

\* sendGfxFrameToWorker, with nextShmFrameName.
HandsToWorker(e) ==
  /\ CanWrite(e) /\ inWorker[e].stage = "none" /\ SpendStore("frames")
  /\ drawnSoFar' = [drawnSoFar EXCEPT ![e] = @ + 1]
  /\ inWorker' = [inWorker EXCEPT ![e] =
       [n |-> NewPixels(e).n, size |-> NewPixels(e).size, shm |-> e \in shmOn, slot |-> shmSlot[e], stage |-> "handed",
        failed |-> inWorker[e].failed]]
  /\ IF e \in shmOn
     THEN /\ MarkShmPane(e) /\ shmSlot' = [shmSlot EXCEPT ![e] = (@ + 1) % WholeRing]
          /\ HandsOut(e, WholeName(e, shmSlot[e]))
     ELSE UNCHANGED <<marked, markers, shmSlot, crowded>>
  /\ UNCHANGED <<life, served, shmOn, shmFailures, shmPatchSlot, paneSize, escapes, store, lastRead, cutShort>>

\* The worker runs on until the process is gone: terminate does not wait for a write.
Works(e, stage) == life[e] \in {"up", "leaving"} /\ inWorker[e].stage = stage
PixelsOf(e) == [n |-> inWorker[e].n, size |-> inWorker[e].size]
WorkerStep == UNCHANGED <<life, served, shmOn, shmFailures, marked, shmSlot, shmPatchSlot, paneSize,
                          drawnSoFar, escapes, markers, lastRead, storeHistory>>

\* shmCommands.
WritesObject(e) ==
  /\ Works(e, "handed") /\ inWorker[e].shm
  /\ store' = [store EXCEPT ![WholeName(e, inWorker[e].slot)] = PixelsOf(e)]
  /\ inWorker' = [inWorker EXCEPT ![e].stage = "object"] /\ WorkerStep /\ UNCHANGED storeBudget
\* shmCommands fails: the frame goes to the file, and the answer says so.
ObjectFails(e) ==
  /\ Works(e, "handed") /\ inWorker[e].shm /\ SpendStore("faults")
  /\ inWorker' = [inWorker EXCEPT ![e].shm = FALSE, ![e].failed = TRUE] /\ WorkerStep /\ UNCHANGED store
\* writeFrameFile, in its two steps.
StagesFile(e) ==
  /\ Works(e, "handed") /\ ~inWorker[e].shm
  /\ store' = [store EXCEPT ![StagingOf(e)] = PixelsOf(e)]
  /\ inWorker' = [inWorker EXCEPT ![e].stage = "staged"] /\ WorkerStep /\ UNCHANGED storeBudget
RenamesFile(e) ==
  /\ Works(e, "staged")
  /\ store' = [store EXCEPT ![FileOf(e)] = store[StagingOf(e)], ![StagingOf(e)] = NoPixels]
  /\ inWorker' = [inWorker EXCEPT ![e].stage = IF store[StagingOf(e)] = NoPixels THEN "error" ELSE "file"]
  /\ WorkerStep /\ UNCHANGED storeBudget
FileFails(e) ==
  /\ Works(e, "handed") /\ ~inWorker[e].shm /\ SpendStore("faults")
  /\ inWorker' = [inWorker EXCEPT ![e].stage = "error"] /\ WorkerStep /\ UNCHANGED store

\* noteShmFrameResult.
NoteShmFrameResult(e, worked, failed) ==
  LET count == (IF worked THEN 0 ELSE shmFailures[e]) + (IF failed THEN 1 ELSE 0)
  IN /\ shmFailures' = [shmFailures EXCEPT ![e] = count]
     /\ shmOn' = IF failed /\ count >= ShmLimit THEN shmOn \ {e} ELSE shmOn

\* The worker's answer: what it announces goes to the terminal, or a delete when the pane has changed size
\* since; one for a pane that is gone goes nowhere. An error of shared memory is told with the next answer
\* that is not an error itself.
WorkerAnswers(e) ==
  LET job == inWorker[e]
      name == IF job.stage = "object" THEN WholeName(e, job.slot) ELSE FileOf(e)
  IN /\ life[e] = "up" /\ job.stage \in {"object", "file", "error"} /\ (e \in served => CanWrite(e))
     /\ inWorker' = [inWorker EXCEPT ![e] = [NoWork EXCEPT !.failed = job.failed /\ job.stage = "error"]]
     /\ IF e \notin served THEN UNCHANGED <<shmOn, shmFailures, escapes>>
        ELSE /\ NoteShmFrameResult(e, job.stage = "object", job.failed /\ job.stage # "error")
             /\ IF job.size # paneSize[e] THEN Tells(e, Inline, NoPixels)
                ELSE IF job.stage = "error" THEN UNCHANGED escapes ELSE Tells(e, name, PixelsOf(e))
     /\ UNCHANGED <<life, served, marked, shmSlot, shmPatchSlot, paneSize, drawnSoFar, store, markers,
                    lastRead, storeHistory, storeBudget>>

\* A mutant: nextShmPatchName without coming round.
RunsPast(e) == shmPatchSlot' = [shmPatchSlot EXCEPT ![e] = @ + 1]
\* nextShmPatchName.
NextPatchSlot(e) == shmPatchSlot' = [shmPatchSlot EXCEPT ![e] = (@ + 1) % PatchRing]

\* sendShmPatch: the main thread writes the object and tells the terminal, past whatever the worker has. A
\* failure is counted and the patch goes out as a PNG in the escape.
SendsPatch(e, works) ==
  /\ CanWrite(e) /\ e \in shmOn /\ drawnSoFar[e] > 0
  /\ SpendStore(IF works THEN "patches" ELSE "faults")
  /\ drawnSoFar' = [drawnSoFar EXCEPT ![e] = @ + 1] /\ MarkShmPane(e) /\ NextPatchSlot(e)
  /\ HandsOut(e, PatchName(e, shmPatchSlot[e]))
  /\ LET name == PatchName(e, shmPatchSlot[e])
     IN IF works
        THEN /\ store' = [store EXCEPT ![name] = NewPixels(e)]
              /\ Tells(e, name, NewPixels(e)) /\ UNCHANGED <<shmOn, shmFailures>>
        ELSE NoteShmFrameResult(e, FALSE, TRUE) /\ Tells(e, Inline, NoPixels) /\ UNCHANGED store
  /\ UNCHANGED <<life, served, shmSlot, paneSize, inWorker, lastRead, cutShort>>

PaneResizes(e) ==
  /\ life[e] = "up" /\ e \in served /\ SpendStore("resizes")
  /\ paneSize' = [paneSize EXCEPT ![e] = 1 - @]
  /\ UNCHANGED <<life, served, shmOn, shmFailures, marked, shmSlot, shmPatchSlot, drawnSoFar, inWorker,
                 escapes, store, markers, lastRead, storeHistory>>

\* The terminal reads what an escape names, and unlinks an object it has read.
TerminalReads(e) ==
  /\ escapes[e] # <<>> /\ escapes' = [escapes EXCEPT ![e] = Tail(@)]
  /\ LET escape == Head(escapes[e])
     IN IF escape.name = Inline THEN UNCHANGED <<store, lastRead>>
        ELSE /\ lastRead' = [name |-> escape.name, asked |-> escape.pixels, got |-> store[escape.name]]
             /\ store' = IF escape.name.kind = "file" THEN store ELSE Without({escape.name})
  /\ UNCHANGED <<life, served, shmOn, shmFailures, marked, shmSlot, shmPatchSlot, paneSize, drawnSoFar,
                 inWorker, markers, storeHistory, storeBudget>>
\* tmux drops an escape of a pane nobody looks at, or passthrough is off.
EscapeIsDropped(e) ==
  /\ escapes[e] # <<>> /\ SpendStore("drops") /\ escapes' = [escapes EXCEPT ![e] = Tail(@)]
  /\ UNCHANGED <<life, served, shmOn, shmFailures, marked, shmSlot, shmPatchSlot, paneSize, drawnSoFar,
                 inWorker, store, markers, lastRead, storeHistory>>

\* closePaneOnce: the pane's files go, its context is forgotten, what the worker has goes on.
DetachesPane(e) ==
  /\ life[e] = "up" /\ e \in served /\ SpendStore("detaches")
  /\ served' = served \ {e} /\ store' = Without(FilesOf(e))
  /\ UNCHANGED <<life, shmOn, shmFailures, marked, shmSlot, shmPatchSlot, paneSize, drawnSoFar, inWorker,
                 escapes, markers, lastRead, storeHistory>>

\* cleanupFrameFiles and cleanupShmFrames, of the panes there are.
CleansUp(e) ==
  /\ store' = IF e \in served THEN Without(FilesOf(e) \union (IF e \in marked THEN ShmNames(e) ELSE {}))
              ELSE store
  /\ markers' = IF e \in served /\ e \in marked THEN markers \ {e} ELSE markers
\* before-quit, and the exit handler some time after it.
BeforeQuit(e) ==
  /\ life[e] = "up" /\ SpendStore("quits") /\ life' = [life EXCEPT ![e] = "leaving"] /\ CleansUp(e)
  /\ UNCHANGED <<served, shmOn, shmFailures, marked, shmSlot, shmPatchSlot, paneSize, drawnSoFar,
                 inWorker, escapes, lastRead, storeHistory>>
ExitHandler(e) ==
  /\ life[e] = "leaving" /\ life' = [life EXCEPT ![e] = "dead"]
  /\ inWorker' = [inWorker EXCEPT ![e] = NoWork]
  /\ CleansUp(e)
  /\ UNCHANGED <<served, shmOn, shmFailures, marked, shmSlot, shmPatchSlot, paneSize, drawnSoFar,
                 escapes, lastRead, storeHistory, storeBudget>>
Killed(e) ==
  /\ \/ life[e] = "up" /\ SpendStore("kills") /\ UNCHANGED cutShort
     \/ life[e] = "leaving" /\ SpendStore("lateKills") /\ cutShort' = cutShort \union {e}
  /\ life' = [life EXCEPT ![e] = "dead"] /\ inWorker' = [inWorker EXCEPT ![e] = NoWork]
  /\ UNCHANGED <<served, shmOn, shmFailures, marked, shmSlot, shmPatchSlot, paneSize, drawnSoFar,
                 escapes, store, markers, lastRead, crowded>>

\* A mutant: a sweep that takes every other engine for dead.
OthersOf(e) == Homes \ {e}
\* abandonedFrameFiles: the engines that are not running.
Abandoned(e) == {d \in Homes \ {e} : life[d] \in {"new", "dead"}}
\* abandonedShmFrames: those of them that have a marker.
AbandonedShm(e) == Abandoned(e) \intersect markers
\* An engine starts, and sweeps up after the dead: the objects are found by their markers.
StartsUp(e) ==
  /\ life[e] = "new" /\ life' = [life EXCEPT ![e] = "up"] /\ served' = served \union {e}
  /\ store' = Without(UNION ({FilesOf(d) : d \in Abandoned(e)} \union {ShmNames(d) : d \in AbandonedShm(e)}))
  /\ markers' = markers \ AbandonedShm(e)
  /\ UNCHANGED <<shmOn, shmFailures, marked, shmSlot, shmPatchSlot, paneSize, drawnSoFar, inWorker,
                 escapes, lastRead, storeHistory, storeBudget>>

StoreNext == \E e \in Homes :
  \/ StartsUp(e) \/ HandsToWorker(e) \/ WritesObject(e) \/ ObjectFails(e) \/ StagesFile(e) \/ RenamesFile(e)
  \/ FileFails(e) \/ WorkerAnswers(e) \/ SendsPatch(e, TRUE) \/ SendsPatch(e, FALSE) \/ PaneResizes(e)
  \/ TerminalReads(e) \/ EscapeIsDropped(e) \/ DetachesPane(e) \/ BeforeQuit(e) \/ ExitHandler(e) \/ Killed(e)
StoreSpec == StoreInit /\ [][StoreNext]_storeVars

-----------------------------------------------------------------------------
StoreTypeOK ==
  /\ life \in [Homes -> {"new", "up", "leaving", "dead"}] /\ served \subseteq Homes /\ shmOn \subseteq Homes
  /\ shmFailures \in [Homes -> Nat] /\ marked \subseteq Homes /\ markers \subseteq Homes
  /\ shmSlot \in [Homes -> 0 .. WholeRing - 1] /\ shmPatchSlot \in [Homes -> 0 .. PatchRing - 1]
  /\ \A e \in Homes : Len(escapes[e]) <= Lag
  /\ \A x \in StoreNames : store[x].n \in Nat

\* What an escape names is there until the terminal comes to it, while the engine lives and the pane is
\* attached: no failed write is announced, nobody sweeps it away, and as long as the terminal does not
\* fall behind by a whole ring of its kind no other frame takes its name -- nothing in the code waits
\* for the terminal, so a name handed out again before it was read is not promised.
NamedIsThere == \A e \in served : life[e] = "up" => \A i \in DOMAIN escapes[e] :
  escapes[e][i].name \notin crowded \union {Inline} => store[escapes[e][i].name] # NoPixels

\* The pixels the terminal reads out of an object are those the escape was written for, unless its name
\* was handed out again before, and the ones it reads out of a file are never older: the names of
\* patches and whole frames do not meet.
PixelsAreItsOwn == lastRead.got # NoPixels /\ lastRead.name \notin crowded =>
  IF lastRead.name.kind = "file" THEN lastRead.got.n >= lastRead.asked.n ELSE lastRead.got = lastRead.asked

\* Shared memory cannot be listed, so whatever a dead engine left there has a marker by which the next
\* engine finds it, unless it was killed between the two cleanings of its exit, the first of which takes
\* the marker while the worker may still write.
LeftIsFindable == \A e \in Homes \ cutShort : (life[e] = "dead" /\ e \notin markers) =>
  \A x \in ShmNames(e) : store[x] = NoPixels

\* What an engine has written for its pane, and its marker, are taken away by nobody but that engine and
\* the terminal.
LivingIsSpared == [][\A e \in served \intersect served' :
  (life[e] = "up" /\ life'[e] = "up" /\ escapes' = escapes) =>
    /\ (e \in markers => e \in markers')
    /\ \A x \in {FileOf(e)} \union ShmNames(e) : store[x] # NoPixels => store'[x] # NoPixels]_storeVars

\* Not so: once a pane is detached and the worker is done, the host keeps no frame of it
\* (main.cjs, cleanupPaneFrameFiles).
DetachedHoldsNothing == \A e \in Homes : (life[e] = "up" /\ e \notin served /\ inWorker[e].stage = "none") =>
  \A x \in FilesOf(e) : store[x] = NoPixels
=============================================================================
