---------------------------- MODULE AudioOwners ----------------------------
(* Which engine process may make noise (reconcileAudio of src/electron/main.cjs, and audio-owner.cjs): a
   claim in a file the processes share, read and rewritten by each of them every two seconds. A process
   reads the file, decides, and writes or removes it, and the others do the same in between. Time passes
   in heartbeats. *)
EXTENDS Integers, FiniteSets

CONSTANTS
  Players,      \* the engine processes
  ClaimTtl,     \* CLAIM_TTL_MS, in heartbeats: 3
  SilenceTicks, \* RELEASE_SILENCE_MS, in heartbeats: 2
  AudioScenes   \* how often each kind of event happens
ASSUME AudioAssumption == ClaimTtl \in Nat \ {0} /\ SilenceTicks \in Nat \ {0}

VARIABLES
  claimFile,  \* whose claim the file holds, and for how many heartbeats
  seenClaim,  \* the claim a process has read
  audioPc,    \* what a process is about to do to the file
  playing,    \* the processes with a page that plays
  soundOff,   \* audioMutedByOther
  silentFor,  \* for how long a process has made no sound it is allowed to make
  polled,     \* the processes that have run since the last heartbeat
  nudged,     \* those another process has told to read the file
  up, stuck,  \* the processes there are, and those whose event loop is held up
  audioBudget

audioVars == <<claimFile, seenClaim, audioPc, playing, soundOff, silentFor, polled, nudged, up, stuck,
               audioBudget>>

NobodysClaim == [of |-> 0, age |-> 0]
Owned(p) == [of |-> p, age |-> 0]

AudioInit ==
  /\ claimFile = NobodysClaim /\ seenClaim = [p \in Players |-> NobodysClaim]
  /\ audioPc = [p \in Players |-> "idle"]
  /\ playing = {} /\ soundOff = {} /\ silentFor = [p \in Players |-> 0] /\ polled = {} /\ nudged = {}
  /\ up = Players /\ stuck = {} /\ audioBudget \in AudioScenes

SpendAudio(what) == audioBudget[what] > 0 /\ audioBudget' = [audioBudget EXCEPT ![what] = @ - 1]
Runs(p) == p \in up \ stuck

\* claimExpired, and processAlive.
Vacant(claim) == claim = NobodysClaim \/ claim.age > ClaimTtl \/ claim.of \notin up

\* A mutant: a claim is trusted, not judged.
TrustsTheFile(p, claim) ==
  /\ soundOff' = IF claim # NobodysClaim /\ claim.of # p THEN soundOff \union {p} ELSE soundOff \ {p}
  /\ audioPc' = [audioPc EXCEPT ![p] = "idle"]
  /\ nudged' = IF claim.of = p /\ seenClaim'[p].of # p THEN (nudged \union up) \ {p} ELSE nudged
\* audioDecision, applyAudioMute, and nudgeOtherPanes when the claim was taken over. A claim that is
\* void is taken away next.
Settles(p, claim) ==
  /\ soundOff' = IF ~Vacant(claim) /\ claim.of # p THEN soundOff \union {p} ELSE soundOff \ {p}
  /\ audioPc' = [audioPc EXCEPT ![p] = IF claim # NobodysClaim /\ Vacant(claim) THEN "clear-stale"
                                       ELSE "idle"]
  /\ nudged' = IF claim.of = p /\ seenClaim'[p].of # p THEN (nudged \union up) \ {p} ELSE nudged

\* What a process does about the claim it has read: it refreshes one that is its own or takes one that
\* is vacant while it makes noise, and gives its own up after a silence.
AudioChoice(p, claim, claiming) ==
  LET audible == p \in playing \ soundOff IN
  IF claiming \/ (audible /\ (claim.of = p \/ Vacant(claim))) THEN "write"
  ELSE IF claim.of = p /\ silentFor'[p] >= SilenceTicks THEN "clear" ELSE "judge"

\* reconcileAudio as far as what it does to the file.
ReconcileAudio(p, claiming) ==
  /\ Runs(p) /\ audioPc[p] = "idle" /\ seenClaim' = [seenClaim EXCEPT ![p] = claimFile]
  /\ silentFor' = [silentFor EXCEPT ![p] = IF p \in playing \ soundOff \/ claiming THEN 0 ELSE @]
  /\ LET choice == AudioChoice(p, claimFile, claiming)
     IN IF choice = "judge" THEN Settles(p, claimFile)
        ELSE audioPc' = [audioPc EXCEPT ![p] = choice] /\ UNCHANGED <<soundOff, nudged>>
  /\ polled' = polled \union {p} /\ UNCHANGED <<claimFile, playing, up, stuck>>

AudioTimer(p) == p \notin polled /\ ReconcileAudio(p, FALSE) /\ UNCHANGED audioBudget
\* The nudge: the message may also be lost.
AudioSync(p) == /\ p \in nudged /\ UNCHANGED audioBudget /\ Runs(p) /\ audioPc[p] = "idle"
                /\ nudged' = nudged \ {p} /\ polled' = polled \ {p}
                /\ UNCHANGED <<claimFile, seenClaim, audioPc, playing, soundOff, silentFor, up, stuck>>
NudgeLost(p) == /\ p \in nudged /\ nudged' = nudged \ {p}
                /\ UNCHANGED <<claimFile, seenClaim, audioPc, playing, soundOff, silentFor, polled, up,
                               stuck, audioBudget>>
\* The user takes the speakers for a pane.
ClaimAudio(p) == SpendAudio("claims") /\ ReconcileAudio(p, TRUE)

WriteAudioClaim(p) ==
  /\ Runs(p) /\ audioPc[p] = "write" /\ claimFile' = Owned(p) /\ seenClaim' = seenClaim
  /\ Settles(p, Owned(p)) /\ UNCHANGED <<playing, silentFor, polled, up, stuck, audioBudget>>
\* clearAudioClaim reads the file again, and removes it in a step of its own.
ClearAudioClaim(p) ==
  /\ Runs(p) /\ audioPc[p] = "clear" /\ seenClaim' = seenClaim
  /\ IF claimFile.of = p THEN audioPc' = [audioPc EXCEPT ![p] = "unlink"] /\ UNCHANGED <<soundOff, nudged>>
     ELSE Settles(p, NobodysClaim)
  /\ UNCHANGED <<claimFile, playing, silentFor, polled, up, stuck, audioBudget>>
UnlinksClaim(p) ==
  /\ Runs(p) /\ audioPc[p] \in {"unlink", "clear-stale"} /\ claimFile' = NobodysClaim
  /\ seenClaim' = seenClaim
  /\ IF audioPc[p] = "unlink" THEN Settles(p, NobodysClaim)
     ELSE audioPc' = [audioPc EXCEPT ![p] = "idle"] /\ UNCHANGED <<soundOff, nudged>>
  /\ UNCHANGED <<playing, silentFor, polled, up, stuck, audioBudget>>

-----------------------------------------------------------------------------
(* The pages, the processes and the time. *)

MediaChanges(p) ==
  /\ Runs(p) /\ SpendAudio("changes") /\ polled' = polled \ {p}
  /\ playing' = IF p \in playing THEN playing \ {p} ELSE playing \union {p}
  /\ UNCHANGED <<claimFile, seenClaim, audioPc, soundOff, silentFor, nudged, up, stuck>>
\* One that quits gives its claim up, one that is killed does not.
PlayerDies(p) ==
  /\ p \in up /\ SpendAudio("deaths") /\ up' = up \ {p} /\ playing' = playing \ {p}
  /\ nudged' = nudged \ {p} /\ stuck' = stuck \ {p}
  /\ claimFile' \in {claimFile, IF claimFile.of = p THEN NobodysClaim ELSE claimFile}
  /\ UNCHANGED <<seenClaim, audioPc, soundOff, silentFor, polled>>
PlayerSticks(p) == /\ Runs(p) /\ SpendAudio("sticks") /\ stuck' = stuck \union {p}
                   /\ UNCHANGED <<claimFile, seenClaim, audioPc, playing, soundOff, silentFor, polled,
                                  nudged, up>>
PlayerGoesOn(p) == /\ p \in stuck /\ stuck' = stuck \ {p}
                   /\ UNCHANGED <<claimFile, seenClaim, audioPc, playing, soundOff, silentFor, polled,
                                  nudged, up, audioBudget>>

Older(claim) == IF claim = NobodysClaim \/ claim.age > ClaimTtl THEN claim ELSE [claim EXCEPT !.age = @ + 1]
HeartbeatPasses ==
  /\ \A p \in up \ stuck : p \in polled /\ audioPc[p] = "idle"
  /\ polled' = {} /\ claimFile' = Older(claimFile)
  /\ seenClaim' = [p \in Players |-> IF p \in stuck THEN Older(seenClaim[p]) ELSE NobodysClaim]
  /\ silentFor' = [p \in Players |-> IF silentFor[p] < SilenceTicks THEN silentFor[p] + 1 ELSE silentFor[p]]
  /\ UNCHANGED <<audioPc, playing, soundOff, nudged, up, stuck, audioBudget>>

AudioNext ==
  \/ HeartbeatPasses
  \/ \E p \in Players :
       \/ AudioTimer(p) \/ AudioSync(p) \/ NudgeLost(p) \/ ClaimAudio(p) \/ WriteAudioClaim(p)
       \/ ClearAudioClaim(p) \/ UnlinksClaim(p) \/ MediaChanges(p)
       \/ PlayerDies(p) \/ PlayerSticks(p) \/ PlayerGoesOn(p)
AudioFairness ==
  /\ WF_audioVars(HeartbeatPasses)
  /\ \A p \in Players : /\ WF_audioVars(AudioTimer(p)) /\ WF_audioVars(PlayerGoesOn(p))
                        /\ WF_audioVars(WriteAudioClaim(p)) /\ WF_audioVars(ClearAudioClaim(p))
                        /\ WF_audioVars(UnlinksClaim(p))
AudioSpec == AudioInit /\ [][AudioNext]_audioVars /\ AudioFairness

-----------------------------------------------------------------------------
(* Properties. *)

AudioTypeOK ==
  /\ {claimFile} \union {seenClaim[p] : p \in Players} \subseteq [of : Players \union {0}, age : 0..ClaimTtl + 1]
  /\ audioPc \in [Players -> {"idle", "write", "clear", "unlink", "clear-stale"}]
  /\ {playing, soundOff, polled, nudged, up, stuck} \subseteq SUBSET Players
  /\ silentFor \in [Players -> 0..SilenceTicks]

Heard == (playing \ soundOff) \intersect up

\* However the processes' reads and writes fall between each other, and whatever became of the owner,
\* in the end one page that plays is heard and no two are: "two panes starting together can still both
\* write; last-write-wins and the loser learns it lost on its next poll", and a claim must be judged.
OneIsHeard == <>[](IF playing \intersect up = {} THEN TRUE ELSE Cardinality(Heard) = 1)

\* "Refreshing only a claim that is still ours makes the reclaim stick": a heartbeat never replaces the
\* claim of a process that is there and has just taken it.
ReclaimSticks ==
  [][\A p \in Players : (WriteAudioClaim(p) /\ seenClaim[p].of = p) => claimFile.of \in {0, p}]_audioVars
=============================================================================
