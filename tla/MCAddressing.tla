---------------------------- MODULE MCAddressing ----------------------------
(* The instances of Addressing that TLC checks. *)
EXTENDS Addressing

Pane37 == [percent |-> TRUE, text |-> "37"]
Session37 == [percent |-> FALSE, text |-> "37"]
Surface30 == [percent |-> FALSE, text |-> "surface:30"]
MCValues == {Pane37, Session37, Surface30}

MCAgents == {"claude-code", "claude", "codex", "echo", "other"}
MCNames == {"blue", "worker-1", "worker 1"}
MCLegalSlugs == {"blue", "worker-1"}

Flag(engine, value) == [engine |-> engine, value |-> value]

MCLocatorFlags ==
  {NoLocator, Flag("tmux", Pane37), Flag("zmx", Session37), Flag("cmux", Surface30),
   Flag("bare", Pane37), Flag("bare", Session37), Flag("tmux", NoValue),
   Flag("other", Surface30)}

(* Every way to come by a surface, with any session label and slug. *)
AllCommands ==
  [agent : MCAgents, locator : MCLocatorFlags, pane : {NoValue, Pane37},
   session : {NoName, "blue"}, slug : {NoName, "worker-1", "worker 1"},
   dualPublish : BOOLEAN,
   cmux : {NoValue, Surface30}, zmx : {NoValue, Session37},
   tmuxPane : {NoValue, Pane37}, tmux : BOOLEAN]
=============================================================================
