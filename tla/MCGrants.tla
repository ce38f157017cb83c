------------------------------ MODULE MCGrants ------------------------------
(***************************************************************************)
(* Grants for TLC: a folder that any profile may mount, one inside it, and *)
(* a broad one.                                                            *)
(***************************************************************************)
EXTENDS Grants

MCTier == [code |-> "open", part |-> "open", docs |-> "broad"]
MCMounts == DOMAIN MCTier
MCWithin == {<< "part", "code" >>}
MCProfile ==
  [ safe  |-> [broad |-> FALSE, limit |-> 2, idle |-> TRUE,  network |-> "none"],
    power |-> [broad |-> TRUE,  limit |-> Unlimited, idle |-> TRUE, network |-> "open"] ]
MCPresets ==
  {[profile |-> "power", mounts |-> {"docs"}, platforms |-> {"chat"}]}
MCRegistries ==
  {[code |-> "rw", part |-> "no", docs |-> "ro"]}
\* A cell that would have the broad folder, write the other, and no limit.
MCEmitted ==
  {[profile |-> "power", mounts |-> [code |-> "rw", part |-> "no", docs |-> "ro"],
    overrides |-> {"docs"}, limit |-> Unlimited, ephemeral |-> TRUE,
    idle |-> FALSE, origin |-> "agent"]}
MCPlatforms == {"chat", "mail"}
=============================================================================
