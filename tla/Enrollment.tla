------------------------------ MODULE Enrollment ------------------------------
(* How an installation gets an agent: the owner's one-time tokens and the       *)
(* enrollment on the server (apps/server/src/app.ts), and olimpyx enroll on     *)
(* machines that may die at any point or never see an answer (cli.js,          *)
(* state.js).  The answer carries the credential and is stored nowhere: who    *)
(* misses it has an agent that nobody can act as.                             *)
(* Left out: registration, login and logout, and the profile.                 *)
EXTENDS Integers, Sequences, FiniteSets

CONSTANTS
  Homes,         \* state directories of one owner
  Tokens,        \* enrollment tokens
  AgentCap, TokenCap,   \* limits.capacity, not 0
  MaxAgents,     \* bound: rows of agents
  Nil

EnrollmentAssumption ==
  /\ IsFiniteSet(Homes) /\ IsFiniteSet(Tokens) /\ Nil \notin Tokens
  /\ AgentCap \in Nat \ {0} /\ TokenCap \in Nat \ {0} /\ MaxAgents \in Nat
AgentIds == 1..MaxAgents
VARIABLES
  token,         \* of each token: "none", "live", "used" or "expired"
  agent,         \* the rows: [token, install, revoked], an agent being its number
  command,       \* of each home: [phase, token, install, got]
  home,          \* [credential, agentId, installationId]
  nobodys        \* history: agents whose credential was lost
enrollVars == <<token, agent, command, home, nobodys>>

Idle == [phase |-> "idle", token |-> Nil, install |-> 0, got |-> 0]
Rows == DOMAIN agent
Live == {t \in Tokens : token[t] = "live"}
Acting == {a \in Rows : ~agent[a].revoked}

Init ==
  /\ token = [t \in Tokens |-> "none"] /\ agent = <<>>
  /\ command = [h \in Homes |-> Idle] /\ nobodys = {}
  /\ home = [h \in Homes |-> [credential |-> 0, agentId |-> 0, installationId |-> 0]]

------------------------------------------------------------------------------
(* POST /v1/owners/me/enrollment-tokens, under the lock quota:<owner>.       *)
Mint(t) ==
  /\ token[t] = "none" /\ Cardinality(Live) < TokenCap
  /\ token' = [token EXCEPT ![t] = "live"]
  /\ UNCHANGED <<agent, command, home, nobodys>>
Expire(t) == /\ t \in Live /\ token' = [token EXCEPT ![t] = "expired"]
             /\ UNCHANGED <<agent, command, home, nobodys>>

(* crypto.randomUUID()                                                      *)
Installs == 1..(MaxAgents + Cardinality(Homes))
Fresh == CHOOSE i \in Installs :
  i \notin {agent[a].install : a \in Rows} \cup {command[h].install : h \in Homes}

(* olimpyx enroll has its token and draws an installation id if it has none. *)
Send(h, t) ==
  LET known == home[h].installationId IN
  /\ command[h].phase = "idle" /\ token[t] # "none"
  /\ command' = [command EXCEPT ![h] =
       [phase |-> "sent", token |-> t, install |-> IF known = 0 THEN Fresh ELSE known, got |-> 0]]
  /\ UNCHANGED <<token, agent, home, nobodys>>

(* The token is read before the locks.                                      *)
Admit(h) ==
  /\ command[h].phase \in {"sent", "sent unheard"} /\ command[h].token \in Live
  /\ command' = [command EXCEPT ![h].phase = IF @ = "sent" THEN "admitted" ELSE "admitted unheard"]
  /\ UNCHANGED <<token, agent, home, nobodys>>

(* Mutant: the token that was found live is not looked at again.            *)
ConsumesTrusted(t) == TRUE
Consumes(t) == t \in Live

(* POST /v1/agents/enroll under the locks: the capacity, the token, the row. *)
Enroll(h) ==
  LET c == command[h] a == Len(agent) + 1 heard == c.phase = "admitted" IN
  /\ c.phase \in {"admitted", "admitted unheard"}
  /\ Cardinality(Acting) < AgentCap /\ Consumes(c.token) /\ a <= MaxAgents
  /\ \A b \in Rows : agent[b].install # c.install
  /\ agent' = Append(agent, [token |-> c.token, install |-> c.install, revoked |-> FALSE])
  /\ token' = [token EXCEPT ![c.token] = "used"]
  /\ command' = [command EXCEPT ![h] = IF heard THEN [c EXCEPT !.phase = "answered", !.got = a] ELSE Idle]
  /\ nobodys' = IF heard THEN nobodys ELSE nobodys \cup {a}
  /\ UNCHANGED home

(* 401, 409 at the capacity and for a known installation, revoked or not:   *)
(* the ROLLBACK gives the token back.                                       *)
Refuse(h) ==
  /\ command[h].phase \in {"sent", "sent unheard", "admitted", "admitted unheard"}
  /\ \/ command[h].token \notin Live \/ Cardinality(Acting) >= AgentCap
     \/ \E b \in Rows : agent[b].install = command[h].install
  /\ command' = [command EXCEPT ![h] = Idle]
  /\ UNCHANGED <<token, agent, home, nobodys>>

(* The command ends without the answer; the request is still under way.      *)
Miss(h) ==
  /\ command[h].phase \in {"sent", "admitted"}
  /\ command' = [command EXCEPT ![h].phase = IF @ = "sent" THEN "sent unheard" ELSE "admitted unheard"]
  /\ UNCHANGED <<token, agent, home, nobodys>>
Die(h) ==
  /\ command[h].phase \in {"answered", "saved"}
  /\ command' = [command EXCEPT ![h] = Idle]
  /\ nobodys' = IF command[h].phase = "answered" THEN nobodys \cup {command[h].got} ELSE nobodys
  /\ UNCHANGED <<token, agent, home>>

(* saveCredential(), saveConfig() and savePersona(): an earlier credential    *)
(* that no configuration names is written over.                             *)
SaveCredential(h) ==
  /\ command[h].phase = "answered"
  /\ nobodys' = nobodys \cup ({home[h].credential} \ {0})
  /\ home' = [home EXCEPT ![h].credential = command[h].got]
  /\ command' = [command EXCEPT ![h].phase = "saved"]
  /\ UNCHANGED <<token, agent>>
SaveConfig(h) ==
  /\ command[h].phase = "saved"
  /\ home' = [home EXCEPT ![h].agentId = command[h].got, ![h].installationId = command[h].install]
  /\ command' = [command EXCEPT ![h] = Idle]
  /\ UNCHANGED <<token, agent, nobodys>>

Revoke(a) == /\ a \in Acting /\ agent' = [agent EXCEPT ![a].revoked = TRUE]
             /\ UNCHANGED <<token, command, home, nobodys>>

Next ==
  \/ \E t \in Tokens : Mint(t) \/ Expire(t) \/ \E h \in Homes : Send(h, t)
  \/ \E h \in Homes : \/ Admit(h) \/ Enroll(h) \/ Refuse(h) \/ Miss(h) \/ Die(h)
                      \/ SaveCredential(h) \/ SaveConfig(h)
  \/ \E a \in AgentIds : Revoke(a)
Spec == Init /\ [][Next]_enrollVars

------------------------------------------------------------------------------
TypeOK ==
  /\ token \in [Tokens -> {"none", "live", "used", "expired"}] /\ nobodys \subseteq Rows
  /\ \A h \in Homes : home[h].credential \in Rows \cup {0} /\ home[h].agentId \in Rows \cup {0}
  /\ Cardinality(Acting) <= AgentCap /\ Cardinality(Live) <= TokenCap

(* A token that is used made one agent, and a token that was refused none;   *)
(* an installation has one agent.                                           *)
TokenMakesOne ==
  /\ \A t \in Tokens : Cardinality({a \in Rows : agent[a].token = t}) = IF token[t] = "used" THEN 1 ELSE 0
  /\ \A a, b \in Rows : agent[a].install = agent[b].install => a = b

(* Every agent has a home with its credential, or the command that is about  *)
(* to save it, unless a lost answer or a death left it to nobody.  A home    *)
(* that knows its agent has its credential.                                 *)
Held(a) == \E h \in Homes : home[h].credential = a \/ command[h].got = a
EveryAgentIsHeld ==
  /\ \A a \in Rows \ nobodys : Held(a)
  /\ \A h \in Homes : home[h].agentId # 0 => home[h].credential = home[h].agentId
(* Both together: what an owner gets for a token.                           *)
EnrolledOnce == TokenMakesOne /\ EveryAgentIsHeld
==============================================================================
