--------------------------------- MODULE Setup ---------------------------------
(* The owner's side of a machine (packages/client/src): init and agent add      *)
(* enroll catalog characters, each with a home of its own, and write them to     *)
(* vault.enc and config.json; agent unlink takes one out again.  A command may   *)
(* die or be refused at any step.  One runs at a time, for nothing is locked:    *)
(* two would write over what the other one added.                               *)
(* Left out: the questions of the wizard, the ciphers of the vault, and the      *)
(* catalog, the playbook and the skills, which init writes last and anew.        *)
EXTENDS Integers, FiniteSets

CONSTANTS
  Ids,           \* catalog characters
  Nobody,
  MaxAgents      \* bound: agents the server ever enrolls

VARIABLES
  vault,         \* vault.enc: [there, agents]
  config,        \* config.json of the owner: [there, agents]
  home,          \* of each id, its agent home: [credential, agent]
  enrolled,      \* agents that the server enrolled
  unlinked,      \* those that the owner unlinked
  setup,         \* the command: [phase, form, todo, id, agent, made]
  forsaken,      \* history: agents whose command died before the vault had them
  forced         \* history: ids that a forced init that did not end wrote over
setupVars == <<vault, config, home, enrolled, unlinked, setup, forsaken, forced>>

None == [i \in Ids |-> 0]
NoFile == [there |-> FALSE, agents |-> None]
NoHome == [credential |-> 0, agent |-> 0]
Idle == [phase |-> "idle", form |-> "", todo |-> {}, id |-> Nobody, agent |-> 0, made |-> None]
Init ==
  /\ vault = NoFile /\ config = NoFile /\ enrolled = 0 /\ unlinked = {}
  /\ home = [i \in Ids |-> NoHome] /\ setup = Idle /\ forsaken = {} /\ forced = {}

At(phase) == setup.phase = phase
Goto(phase) == setup' = [setup EXCEPT !.phase = phase]
Starts(form, ids) == At("idle") /\ setup' = [Idle EXCEPT !.phase = "next", !.form = form, !.todo = ids]
Numbers(agents) == {agents[i] : i \in Ids} \ {0}

------------------------------------------------------------------------------
(* runInit(): not over a vault, unless forced.                                  *)
RunInit(force) ==
  /\ force \/ ~vault.there
  /\ \E chosen \in SUBSET Ids : Starts("init", chosen)
  /\ UNCHANGED <<vault, config, home, enrolled, unlinked, forsaken, forced>>

(* Mutant: a character that the vault holds may be added again.                 *)
MayAddAny(i) == TRUE
MayAdd(i) == vault.agents[i] = 0

(* addAgentFromCatalog()                                                        *)
AgentAdd(i) ==
  /\ vault.there /\ config.there /\ MayAdd(i)
  /\ Starts("add", {i})
  /\ UNCHANGED <<vault, config, home, enrolled, unlinked, forsaken, forced>>

(* enrollOne(): the server enrolls a new installation; then its credential and  *)
(* its config are written to its home.                                         *)
Enroll ==
  /\ At("next") /\ enrolled < MaxAgents
  /\ \E i \in setup.todo :
       setup' = [setup EXCEPT !.phase = "credential", !.todo = @ \ {i}, !.id = i,
                              !.agent = enrolled + 1]
  /\ enrolled' = enrolled + 1
  /\ UNCHANGED <<vault, config, home, unlinked, forsaken, forced>>
SaveCredential ==
  /\ At("credential") /\ Goto("config")
  /\ home' = [home EXCEPT ![setup.id].credential = setup.agent]
  /\ forced' = IF setup.form = "init" THEN forced \cup {setup.id} ELSE forced
  /\ UNCHANGED <<vault, config, enrolled, unlinked, forsaken>>
SaveConfig ==
  /\ At("config")
  /\ home' = [home EXCEPT ![setup.id].agent = setup.agent]
  /\ setup' = [setup EXCEPT !.phase = "next", !.made[setup.id] = setup.agent]
  /\ UNCHANGED <<vault, config, enrolled, unlinked, forsaken, forced>>

(* writeVault() and the config: init writes what it enrolled over what there    *)
(* was, add what there was and the one; an entry of the config that is there    *)
(* already comes first.                                                        *)
Merged(first, then) == [i \in Ids |-> IF first[i] # 0 THEN first[i] ELSE then[i]]
Kept(file) == IF setup.form = "init" THEN None ELSE file.agents
WriteVault ==
  /\ At("next") /\ setup.todo = {} /\ Goto("owner")
  /\ vault' = [there |-> TRUE, agents |-> Merged(setup.made, Kept(vault))]
  /\ forsaken' = forsaken \cup (Numbers(vault.agents) \ Numbers(vault'.agents))
  /\ forced' = forced \cup IF setup.form = "init"
       THEN {i \in Ids : config.agents[i] \notin {0, vault'.agents[i]}} ELSE {}
  /\ UNCHANGED <<config, home, enrolled, unlinked>>
WriteConfig ==
  /\ At("owner") /\ setup' = Idle
  /\ config' = [there |-> TRUE, agents |-> Merged(Kept(config), setup.made)]
  /\ forced' = IF setup.form = "init" THEN {} ELSE forced
  /\ UNCHANGED <<vault, home, enrolled, unlinked, forsaken>>

------------------------------------------------------------------------------
(* agent unlink: the server first, then the config and the home; the vault      *)
(* keeps the agent, and so its character cannot be added again.                 *)
AgentUnlink(i) ==
  /\ At("idle") /\ vault.there /\ config.agents[i] # 0
  /\ unlinked' = unlinked \cup {config.agents[i]}
  /\ setup' = [Idle EXCEPT !.phase = "splice", !.form = "unlink", !.id = i]
  /\ UNCHANGED <<vault, config, home, enrolled, forsaken, forced>>
RemoveAgentFromOwnerConfig ==
  /\ At("splice") /\ Goto("remove")
  /\ config' = [config EXCEPT !.agents[setup.id] = 0]
  /\ UNCHANGED <<vault, home, enrolled, unlinked, forsaken, forced>>
RemoveHome ==
  /\ At("remove") /\ setup' = Idle
  /\ home' = [home EXCEPT ![setup.id] = NoHome]
  /\ UNCHANGED <<vault, config, enrolled, unlinked, forsaken, forced>>

(* The command dies, or the server refuses it or is out of reach.               *)
Stop ==
  /\ ~At("idle") /\ setup' = Idle
  /\ forsaken' = forsaken \cup (({setup.agent} \cup Numbers(setup.made)) \ ({0} \cup Numbers(vault.agents)))
  /\ UNCHANGED <<vault, config, home, enrolled, unlinked, forced>>

Next ==
  \/ \E force \in BOOLEAN : RunInit(force)
  \/ \E i \in Ids : AgentAdd(i) \/ AgentUnlink(i)
  \/ Enroll \/ SaveCredential \/ SaveConfig \/ WriteVault \/ WriteConfig
  \/ RemoveAgentFromOwnerConfig \/ RemoveHome \/ Stop
Spec == Init /\ [][Next]_setupVars

------------------------------------------------------------------------------
(* homeFromOwnerConfig(): the home of an agent that the owner's config names.   *)
ResolveParticipantHome(i) == config.there /\ config.agents[i] # 0

TypeOK ==
  /\ \A i \in Ids : /\ vault.agents[i] \in 0..enrolled /\ config.agents[i] \in 0..enrolled
                    /\ home[i].credential \in 0..enrolled /\ home[i].agent \in 0..enrolled
  /\ unlinked \subseteq 1..enrolled /\ forsaken \subseteq 1..enrolled /\ forced \subseteq Ids

(* A participant that finds its home by the owner's config finds the credential *)
(* and the identity of that very agent there, whatever died before, unless a     *)
(* forced init that did not end enrolled its character again or forgot it.      *)
HomesHold ==
  \A i \in Ids \ forced : ResolveParticipantHome(i) =>
    home[i] = [credential |-> config.agents[i], agent |-> config.agents[i]]

(* The vault has every agent that was enrolled, but the one of the command under *)
(* way, those of commands that died before they wrote it, and those that a      *)
(* forced init wrote over.                                                      *)
VaultHasAll ==
  1..enrolled \subseteq Numbers(vault.agents) \cup forsaken \cup {setup.agent} \cup Numbers(setup.made)
==============================================================================
