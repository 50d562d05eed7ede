-------------------------------- MODULE Agents --------------------------------
(***************************************************************************)
(* The agent adapters of adapters/, as functions of what is on the file    *)
(* system: which payloads (install roots) exist and which capabilities     *)
(* each agent exposes.                                                     *)
(*                                                                         *)
(* Three families of adapters are told apart.  Copying adapters (generic,  *)
(* claude, opencode) copy the install root into a skills directory and     *)
(* fail when it is missing.  Rules adapters (cursor, cline, the one for    *)
(* custom agents, ...) write rules files and fall back to a generated body *)
(* when the payload is missing.  The opencode adapter is a copying adapter *)
(* whose removal searches the skills directories of the other agents too,  *)
(* and takes the install root itself when none of them holds the           *)
(* capability.                                                             *)
(***************************************************************************)
EXTENDS Integers, Sequences

CONSTANTS Agents,          \* every adapter
          Opencode,        \* the opencode adapter
          RulesAgents,     \* the adapters that write a rules file
          AllOrder,        \* the adapters getAdapterRegistry always registers
          CustomOrder,     \* and the one it does if it is given config.customAgents
          EnabledOrder,    \* the adapters enabled in config.agents
          SkillDirs,       \* the agents whose skills directories opencode searches
          MayFail          \* the adapters whose copy may fail (disk, permissions)

ASSUME AgentsAssumption ==
    /\ Opencode \in Agents
    /\ RulesAgents \subseteq Agents
    /\ MayFail \subseteq Agents
    /\ AllOrder \in Seq(Agents)
    /\ CustomOrder \in Seq(Agents)
    /\ EnabledOrder \in Seq(Agents)
    /\ SkillDirs \in Seq(Agents)

(* adapter.install / enable / activate with an install root: whether it can  *)
(* end without an exception.                                                 *)
CanExpose(a, root, payload) == a \in RulesAgents \/ root \in payload

(* adapter.install / enable / activate: what agents expose afterwards.       *)
Exposed(a, c, exposed) == [exposed EXCEPT ![a] = @ \cup {c}]

(* Where in its search order the opencode adapter finds a directory for c;   *)
(* it takes the first.                                                       *)
Found(c, exposed) == {i \in DOMAIN SkillDirs : c \in exposed[SkillDirs[i]]}

FirstFound(c, exposed) ==
    SkillDirs[CHOOSE i \in Found(c, exposed) : \A k \in Found(c, exposed) : i <= k]

(* adapter.uninstall / disable / deactivate of c: the agents' copies ...     *)
ExposedAfterRemoval(a, c, exposed) ==
    IF a # Opencode
      THEN [exposed EXCEPT ![a] = @ \ {c}]
      ELSE IF Found(c, exposed) = {} THEN exposed
             ELSE [exposed EXCEPT ![FirstFound(c, exposed)] = @ \ {c}]

(* ... and the install roots, of which it is given one.                      *)
PayloadAfterRemoval(a, c, root, exposed, payload) ==
    IF a = Opencode /\ Found(c, exposed) = {} THEN payload \ {root} ELSE payload
=============================================================================
