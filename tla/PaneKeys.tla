----------------------------- MODULE PaneKeys -----------------------------
(* How panes are named.  The daemon keys a pane by its tmux pane id and its *)
(* tmux server (protocol.rs PaneKey); the engine's control channel knows    *)
(* the pane id alone, and every tmux server hands out %0, %1, ...           *)
CONSTANTS
  Keys,             \* pane keys: a tmux pane id paired with its tmux server
  Ids,              \* tmux pane ids
  IdOf              \* the pane id inside a key

ASSUME KeysAssumption == IdOf \in [Keys -> Ids]
=============================================================================
