---------------------------- MODULE AgentSocket ----------------------------
(* The socket a pane's agents reach it by (startAgentServer of src/electron/agent-server.cjs): one name
   per pane, which the engines that serve the pane one after another, and for a while beside each other,
   bind, rename into place and remove. Every system call is a step. An engine may be killed at any. *)
EXTENDS Integers, FiniteSets

CONSTANTS Servers, KillsAllowed  \* the engines of the pane, and how many are killed
ASSUME SocketAssumption == Servers \subseteq Nat \ {0} /\ KillsAllowed \in Nat

VARIABLES
  socketPc,     \* what each is about to do
  atTarget,     \* whose socket the pane's name is: agent-<pane>.sock, or 0
  atStaging,    \* the private names that are bound
  ownedSocket,  \* ownedIdentity: whose socket an engine found under the name once it had renamed its own
  judgedSocket, \* what clearOwnedSocket has just read under the name
  lastNamed,    \* history: the engine that renamed last, 0 once another has cleared the name for itself
  besideCalls,  \* history: engines that renamed between two calls of another about the name
  socketKills

socketVars ==
  <<socketPc, atTarget, atStaging, ownedSocket, judgedSocket, lastNamed, besideCalls, socketKills>>
namedVars == <<lastNamed, besideCalls>>

SocketInit ==
  /\ socketPc = [s \in Servers |-> "new"] /\ atTarget = 0 /\ atStaging = {} /\ socketKills = KillsAllowed
  /\ ownedSocket = [s \in Servers |-> 0] /\ judgedSocket = [s \in Servers |-> 0]
  /\ lastNamed = 0 /\ besideCalls = {}

Goes(s, from, to) == socketPc[s] = from /\ socketPc' = [socketPc EXCEPT ![s] = to]
\* Between the rename and the lstat of its callback, or the lstat and the unlink of its exit.
BetweenCalls(r) == socketPc[r] \in {"renamed", "judged"}

-----------------------------------------------------------------------------

\* clearStaleSocket(target): whatever is there. An engine starts whenever its frontend does, wherever the
\* other engines of the pane are.
ClearStaleSocket(s) ==
  /\ Goes(s, "new", "cleared") /\ atTarget' = 0 /\ lastNamed' = 0
  /\ UNCHANGED <<atStaging, ownedSocket, judgedSocket, besideCalls, socketKills>>
\* The private name is the engine's own: nothing of another is there.
BindsStaging(s) == /\ Goes(s, "cleared", "bound") /\ atStaging' = atStaging \union {s}
                   /\ UNCHANGED <<atTarget, ownedSocket, judgedSocket, namedVars, socketKills>>
RenamesIntoPlace(s) ==
  /\ Goes(s, "bound", "renamed") /\ atTarget' = s /\ atStaging' = atStaging \ {s} /\ lastNamed' = s
  /\ besideCalls' = IF \E r \in Servers \ {s} : BetweenCalls(r) THEN besideCalls \union {s} ELSE besideCalls
  /\ UNCHANGED <<ownedSocket, judgedSocket, socketKills>>
\* socketIdentity(target): of whatever is under the name by then.
ReadsIdentity(s) == /\ Goes(s, "renamed", "serving") /\ ownedSocket' = [ownedSocket EXCEPT ![s] = atTarget]
                    /\ UNCHANGED <<atTarget, atStaging, judgedSocket, namedVars, socketKills>>

\* A mutant: the pathname is taken for the socket.
UnlinksTheName(s) == /\ Goes(s, "serving", "judged")
                     /\ judgedSocket' = [judgedSocket EXCEPT ![s] = ownedSocket[s]]
                     /\ atStaging' = atStaging \ {s}
                     /\ UNCHANGED <<atTarget, ownedSocket, namedVars, socketKills>>
\* close: server.close() unlinks the name it bound, which nobody uses; then clearOwnedSocket looks.
CloseServer(s) == /\ Goes(s, "serving", "judged") /\ judgedSocket' = [judgedSocket EXCEPT ![s] = atTarget]
                  /\ atStaging' = atStaging \ {s}
                  /\ UNCHANGED <<atTarget, ownedSocket, namedVars, socketKills>>
\* Before the callback of listen there is no identity, and nothing under the name is the engine's.
CloseEarly(s) == /\ Goes(s, "bound", "closed") /\ atStaging' = atStaging \ {s}
                 /\ UNCHANGED <<atTarget, ownedSocket, judgedSocket, namedVars, socketKills>>
\* The unlink: of whatever is under the name by then.
ClearOwnedSocket(s) ==
  /\ Goes(s, "judged", "closed")
  /\ atTarget' = IF ownedSocket[s] # 0 /\ judgedSocket[s] = ownedSocket[s] THEN 0 ELSE atTarget
  /\ UNCHANGED <<atStaging, ownedSocket, judgedSocket, namedVars, socketKills>>

ServerKilled(s) == /\ socketKills > 0 /\ socketPc[s] \notin {"new", "closed"}
                   /\ socketKills' = socketKills - 1
                   /\ socketPc' = [socketPc EXCEPT ![s] = "closed"]
                   /\ UNCHANGED <<atTarget, atStaging, ownedSocket, judgedSocket, namedVars>>

SocketNext ==
  \E s \in Servers :
    \/ ClearStaleSocket(s) \/ BindsStaging(s) \/ RenamesIntoPlace(s) \/ ReadsIdentity(s)
    \/ CloseServer(s) \/ CloseEarly(s) \/ ClearOwnedSocket(s) \/ ServerKilled(s)
SocketSpec == SocketInit /\ [][SocketNext]_socketVars

-----------------------------------------------------------------------------
(* Properties. *)

SocketTypeOK ==
  /\ socketPc \in [Servers -> {"new", "cleared", "bound", "renamed", "serving", "judged", "closed"}]
  /\ atTarget \in Servers \union {0} /\ atStaging \subseteq Servers
  /\ \A s \in Servers : {ownedSocket[s], judgedSocket[s]} \subseteq Servers \union {0}

\* "When that old engine exits later, it must not unlink the new engine's socket": the engine that put
\* its socket under the name last is the one the pane's agents reach, whenever the others of the pane
\* close, die or are half way through starting.  A name is no lock: the engine that renamed while
\* another was between its lstat and its unlink, or had renamed and not yet looked whose socket it had,
\* may lose its socket to that one's exit.
NewestIsReached ==
  \A s \in Servers \ besideCalls :
    (lastNamed = s /\ socketPc[s] \in {"renamed", "serving"}) => atTarget = s

\* Not so, for what comes between the two calls: the newest engine is reached whatever the others do.
NewestIsNeverRobbed ==
  \A s \in Servers : (lastNamed = s /\ socketPc[s] \in {"renamed", "serving"}) => atTarget = s

\* "Atomic: a client either sees the old socket or ours, never a missing path": while an engine of the
\* pane serves, the pane has a socket.
NeverMissing == (\E s \in Servers : socketPc[s] = "serving") => atTarget # 0
=============================================================================
