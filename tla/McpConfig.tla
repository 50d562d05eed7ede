------------------------------- MODULE McpConfig -------------------------------
(***************************************************************************)
(* The mcp adapter (src/adapters/mcp.ts): the entries of capabilities in   *)
(* the two JSON files that MCP clients read, the project's .mcp.json and   *)
(* the user's ~/.config/mcp.json.  Every operation reads a file, changes   *)
(* one entry of what it read and writes the whole file back, in place: for *)
(* a while the file is cut off, which reads as no configuration at all.    *)
(*                                                                         *)
(* Operations run in processes that know nothing of each other, and may be *)
(* killed; the user has servers of his own in the files, and edits them    *)
(* while no operation runs.                                                *)
(***************************************************************************)
EXTENDS Naturals

CONSTANTS Servers,     \* the capabilities of type mcp-server
          OwnServers,  \* the user's own servers
          Clients,     \* the processes that run adapter operations
          MaxHands,    \* bound: how often the user edits a file
          MaxCalls     \* bound: how many operations are started

ASSUME McpConfigAssumption ==
    Servers \cap OwnServers = {} /\ MaxHands \in Nat /\ MaxCalls \in Nat

Files == {"project", "user"}

VARIABLES config,  \* config[f]: whether the file is there and readable, and its entries
          call,    \* call[p]: the operation process p is at
          own,     \* own[f]: the user's servers as he left them in f
          torn,    \* the files that were taken for empty while they were cut off
          hands, calls

mcpConfigVars == <<config, call, own, torn, hands, calls>>

Listings == {"on", "off", "no"}
Nothing == [s \in Servers \cup OwnServers |-> "no"]
Missing == [at |-> "missing", servers |-> Nothing]
CutOff == [at |-> "cut", servers |-> Nothing]
Whole(servers) == [at |-> "whole", servers |-> servers]
NoCall == [at |-> "idle", op |-> "none", server |-> "none", file |-> "none", servers |-> Nothing]

McpConfigInit ==
    /\ config = [f \in Files |-> Missing]
    /\ call = [p \in Clients |-> NoCall]
    /\ own = [f \in Files |-> Nothing] /\ torn = {}
    /\ hands = 0 /\ calls = 0

-----------------------------------------------------------------------------
(* The user writes or removes a file.  His servers may stand under servers  *)
(* or under mcpServers: serverMap and writeServerMap take the one there is. *)
Hand ==
    /\ hands < MaxHands /\ hands' = hands + 1
    /\ \A p \in Clients : call[p].at = "idle"
    /\ \E f \in Files :
         /\ \/ \E s \in OwnServers, flag \in Listings :
                 config' = [config EXCEPT ![f] = Whole([config[f].servers EXCEPT ![s] = flag])]
            \/ config' = [config EXCEPT ![f] = Missing]
         /\ own' = [own EXCEPT ![f] =
                      [s \in Servers \cup OwnServers |->
                         IF s \in OwnServers THEN config'[f].servers[s] ELSE "no"]]
         /\ torn' = torn \ {f}
    /\ UNCHANGED <<call, calls>>

(* An operation starts.  install goes to the project's file when there is   *)
(* one, the others try the files in turn.                                   *)
Call(p) ==
    /\ call[p].at = "idle" /\ calls < MaxCalls /\ calls' = calls + 1
    /\ \E op \in {"install", "uninstall", "enable", "disable"}, s \in Servers :
         call' = [call EXCEPT ![p] =
           [at |-> "read", op |-> op, server |-> s, servers |-> Nothing,
            file |-> IF op = "install" /\ config["project"].at = "missing" THEN "user"
                     ELSE "project"]]
    /\ UNCHANGED <<config, own, torn, hands>>

(* readConfig: a file that is not there or cut off gives null.              *)
Readable(f) == config[f].at = "whole"

(* A fault: the entry is written without the others.                        *)
ChangedAlone(p) == [Nothing EXCEPT ![call[p].server] =
                      IF call[p].op = "uninstall" THEN "no" ELSE "on"]

Changed(p) == [config[call[p].file].servers EXCEPT ![call[p].server] =
                 CASE call[p].op \in {"install", "enable"} -> "on"
                   [] call[p].op = "disable" -> "off"
                   [] call[p].op = "uninstall" -> "no"]

(* install: what cannot be read is taken for empty.                         *)
ReadToInstall(p) ==
    /\ call[p].at = "read" /\ call[p].op = "install"
    /\ call' = [call EXCEPT ![p].at = "write", ![p].servers = Changed(p)]
    /\ torn' = torn \cup {f \in {call[p].file} : config[f].at = "cut"}
    /\ UNCHANGED <<config, own, hands, calls>>

(* uninstall, enable and disable: the first file that has the entry.        *)
ReadToChange(p) ==
    /\ call[p].at = "read" /\ call[p].op # "install"
    /\ LET f == call[p].file IN
         call' = [call EXCEPT ![p] =
           IF Readable(f) /\ config[f].servers[call[p].server] # "no"
             THEN [@ EXCEPT !.at = "write", !.servers = Changed(p)]
           ELSE IF f = "project" THEN [@ EXCEPT !.file = "user"]
           ELSE NoCall]
    /\ UNCHANGED <<config, own, torn, hands, calls>>

(* writeFile: the file is cut off, and then written.                        *)
CutFile(p) ==
    /\ call[p].at = "write"
    /\ config' = [config EXCEPT ![call[p].file] = CutOff]
    /\ call' = [call EXCEPT ![p].at = "opened"]
    /\ UNCHANGED <<own, torn, hands, calls>>

WriteOut(p) ==
    /\ call[p].at = "opened"
    /\ config' = [config EXCEPT ![call[p].file] = Whole(call[p].servers)]
    /\ call' = [call EXCEPT ![p] = NoCall]
    /\ UNCHANGED <<own, torn, hands, calls>>

(* A process is killed, maybe while its file is cut off.                    *)
KillCall(p) ==
    /\ call[p].at # "idle" /\ call' = [call EXCEPT ![p] = NoCall]
    /\ UNCHANGED <<config, own, torn, hands, calls>>

McpConfigNext ==
    \/ Hand
    \/ \E p \in Clients : \/ Call(p) \/ ReadToInstall(p) \/ ReadToChange(p)
                          \/ CutFile(p) \/ WriteOut(p) \/ KillCall(p)

McpConfigSpec == McpConfigInit /\ [][McpConfigNext]_mcpConfigVars

-----------------------------------------------------------------------------
(* discoverInstalled: the entries of the files it can read, and which of    *)
(* them are disabled.                                                       *)
DiscoveredServers ==
    UNION {{<<s, f, config[f].servers[s]>> : s \in DOMAIN Nothing} : f \in {g \in Files : Readable(g)}}

(* The user's own servers stay as he left them, whatever operations on      *)
(* capabilities interleave and are killed: in a file that can be read all   *)
(* of them are discovered, those he disabled as disabled, and none that he  *)
(* took out.  The one exception is a file that an install read while it was *)
(* cut off, which it then writes with nothing but its own entry             *)
(* (adapters/mcp.ts:67-107, 165-201).                                       *)
OwnServersSurvive ==
    \A f \in Files \ torn, s \in OwnServers :
        Readable(f) => \A flag \in Listings :
            <<s, f, flag>> \in DiscoveredServers <=> own[f][s] = flag
=============================================================================
