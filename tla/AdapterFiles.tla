----------------------------- MODULE AdapterFiles -----------------------------
(***************************************************************************)
(* The adapters of src/adapters at the level of directories: which entries *)
(* install writes, which uninstall removes, and which discoverInstalled    *)
(* finds.  enable and activate are install, disable and deactivate are     *)
(* uninstall, in all of them.  Agents is what the commands' model assumes  *)
(* of adapters; here it is checked against the directories.                *)
(*                                                                         *)
(* An entry is one capability's file or directory in one of the agents'    *)
(* directories, and is known by what is looked for in it: the managed      *)
(* marker of a rules file, and the files SKILL.md, skillrouter.yaml and    *)
(* extension.yaml.  Ids are in lower case with dashes, so their slugs are  *)
(* the ids.  Users have entries of their own, of the same names.           *)
(***************************************************************************)
EXTENDS Naturals, Sequences, SequencesExt

CONSTANTS Exposable,   \* the capabilities
          Adapter,     \* the adapters: kind, and where they write, clean and look
          Unreliable,  \* the adapters whose writing may fail half-way
          OnPath,      \* those whose binary is on the PATH
          Absent,      \* no entry, or no install root
          OwnEntries,  \* bound: what the user's entries hold
          MaxOwn       \* bound: how often that, or a new root, happens

Marks == {"marker", "SKILL.md", "skillrouter.yaml", "extension.yaml"}
Roots == (SUBSET {"SKILL.md", "skillrouter.yaml"}) \cup {Absent}

(* RulesAgentAdapter and CustomAgentAdapter write a file per directory, the *)
(* claude and generic adapters copy, and so do opencode's and gemini's.     *)
AdapterIds == DOMAIN Adapter
Kinds == {"rules", "copy", "opencode", "gemini"}
AllDirs == UNION {Range(Adapter[a].write) \cup Range(Adapter[a].clean) \cup Range(Adapter[a].look)
                  : a \in AdapterIds}

ASSUME AdapterAssumption ==
    /\ \A a \in AdapterIds : /\ Adapter[a].kind \in Kinds /\ Adapter[a].write # <<>>
                            /\ {Adapter[a].write, Adapter[a].clean, Adapter[a].look}
                                 \subseteq Seq(AllDirs)
    /\ \A entry \in SUBSET Marks : entry # Absent
    /\ Unreliable \subseteq AdapterIds /\ OnPath \subseteq AdapterIds
    /\ OwnEntries \subseteq SUBSET Marks /\ MaxOwn \in Nat

VARIABLES dir,      \* dir[d][c]: the entry of c in directory d
          root,     \* root[c]: what its install root holds
          made,     \* the directories that exist; nothing removes them
          last,     \* the last adapter operation
          ownings   \* how many entries and roots others have made

adapterVars == <<dir, root, made, last, ownings>>

NoOp == [op |-> "none", agent |-> "none", cap |-> "none", ok |-> TRUE]

AdapterInit ==
    /\ dir = [d \in AllDirs |-> [c \in Exposable |-> Absent]]
    /\ root \in [Exposable -> Roots] /\ made = {}
    /\ last = NoOp /\ ownings = 0

Present(d, c) == dir[d][c] # Absent
Holds(d, c) == IF Present(d, c) THEN dir[d][c] ELSE {}
Entries(ds, c, entry) ==
    [d \in AllDirs |-> IF d \in ds THEN [dir[d] EXCEPT ![c] = entry[d]] ELSE dir[d]]

-----------------------------------------------------------------------------
(* What an install writes into one directory: a rules file is written anew, *)
(* a copy of the root is laid over what is there, and gemini's extension    *)
(* gets its extension.yaml before the copy, which is not looked into.       *)
RulesFile == {"marker"}
CopyOver(c, d) == Holds(d, c) \cup root[c]
Extension(c, d) == Holds(d, c) \cup {"extension.yaml"}
EntryWritten(a, c, d) ==
    CASE Adapter[a].kind = "rules" -> RulesFile
      [] Adapter[a].kind = "gemini" -> Extension(c, d)
      [] OTHER -> CopyOver(c, d)

(* install: a rules file has a generated body when there is no SKILL.md; a  *)
(* copy needs the root.                                                     *)
Expose(a, c) ==
    /\ Adapter[a].kind = "rules" \/ root[c] # Absent
    /\ dir' = Entries(Range(Adapter[a].write), c, [d \in AllDirs |-> EntryWritten(a, c, d)])
    /\ made' = made \cup Range(Adapter[a].write)
    /\ last' = [op |-> "expose", agent |-> a, cap |-> c, ok |-> TRUE]
    /\ UNCHANGED <<root, ownings>>

(* install without a root: nothing is copied, but the directory has been    *)
(* made and gemini's extension.yaml written before.                         *)
ExposeNothing(a, c) ==
    /\ Adapter[a].kind # "rules" /\ root[c] = Absent
    /\ dir' = IF Adapter[a].kind = "gemini"
              THEN Entries(Range(Adapter[a].write), c, [d \in AllDirs |-> EntryWritten(a, c, d)])
              ELSE dir
    /\ made' = made \cup Range(Adapter[a].write)
    /\ last' = [op |-> "expose", agent |-> a, cap |-> c, ok |-> FALSE]
    /\ UNCHANGED <<root, ownings>>

(* install that fails on the way: the first directories are written, or     *)
(* some of the files are copied.                                            *)
ExposePartly(a, c) ==
    /\ a \in Unreliable /\ (Adapter[a].kind = "rules" \/ root[c] # Absent)
    /\ \/ dir' = dir /\ made' \in {made, made \cup {Head(Adapter[a].write)}}
       \/ /\ Adapter[a].kind = "rules"
          /\ \E n \in 1 .. Len(Adapter[a].write) - 1 :
               /\ made' = made \cup Range(SubSeq(Adapter[a].write, 1, n))
               /\ dir' = Entries(Range(SubSeq(Adapter[a].write, 1, n)), c,
                              [d \in AllDirs |-> EntryWritten(a, c, d)])
       \/ /\ Adapter[a].kind # "rules"
          /\ made' = made \cup Range(Adapter[a].write)
          /\ \E some \in SUBSET root[c] :
               dir' = Entries(Range(Adapter[a].write), c,
                              [d \in AllDirs |->
                                IF Adapter[a].kind = "gemini" THEN EntryWritten(a, c, d)
                                ELSE Holds(d, c) \cup some])
    /\ last' = [op |-> "expose", agent |-> a, cap |-> c, ok |-> FALSE]
    /\ UNCHANGED <<root, ownings>>

-----------------------------------------------------------------------------
(* uninstall: the entries in the directories the adapter cleans, whoever    *)
(* made them and whether they are marked.                                   *)
Cleaned(a) == Range(Adapter[a].clean)

Hide(a, c) ==
    /\ Adapter[a].kind # "opencode"
    /\ dir' = Entries(Cleaned(a), c, [d \in AllDirs |-> Absent])
    /\ last' = [op |-> "hide", agent |-> a, cap |-> c, ok |-> TRUE]
    /\ UNCHANGED <<root, made, ownings>>

(* A fault: opencode's uninstall removes every entry it finds.              *)
HideFromAll(a, c) ==
    /\ Adapter[a].kind = "opencode"
    /\ dir' = Entries(Range(Adapter[a].look), c, [d \in AllDirs |-> Absent])
    /\ last' = [op |-> "hide", agent |-> a, cap |-> c, ok |-> TRUE]
    /\ UNCHANGED <<root, made, ownings>>

(* opencode's uninstall: the first entry in any of the directories it looks *)
(* into and, when there is none, the install root (resolveExposed).         *)
HideFirst(a, c) ==
    /\ Adapter[a].kind = "opencode"
    /\ LET look == Adapter[a].look
           there == {i \in DOMAIN look : Present(look[i], c)}
       IN  IF there = {} THEN root' = [root EXCEPT ![c] = Absent] /\ UNCHANGED dir
           ELSE \E i \in there :
                  /\ \A k \in there : i <= k
                  /\ dir' = Entries({look[i]}, c, [d \in AllDirs |-> Absent]) /\ UNCHANGED root
    /\ last' = [op |-> "hide", agent |-> a, cap |-> c, ok |-> TRUE]
    /\ UNCHANGED <<made, ownings>>

(* The user makes an entry; a capability is installed again, or its root is *)
(* removed.                                                                 *)
OwnEntry ==
    /\ ownings < MaxOwn /\ ownings' = ownings + 1
    /\ \E d \in AllDirs, c \in Exposable, e \in OwnEntries :
         dir' = Entries({d}, c, [x \in {d} |-> e]) /\ made' = made \cup {d}
    /\ last' = NoOp
    /\ UNCHANGED root

NewRoot ==
    /\ ownings < MaxOwn /\ ownings' = ownings + 1
    /\ \E c \in Exposable, r \in Roots : root' = [root EXCEPT ![c] = r]
    /\ last' = NoOp
    /\ UNCHANGED <<dir, made>>

AdapterNext ==
    \/ OwnEntry \/ NewRoot
    \/ \E a \in AdapterIds, c \in Exposable :
         Expose(a, c) \/ ExposeNothing(a, c) \/ ExposePartly(a, c) \/ Hide(a, c) \/ HideFirst(a, c)

AdapterSpec == AdapterInit /\ [][AdapterNext]_adapterVars

-----------------------------------------------------------------------------
(* discoverInstalled: what makes an entry count.                            *)
MarkedFile == {"marker"}
SkillDirectory == {"SKILL.md"}
SkillOrManifest == {"SKILL.md", "skillrouter.yaml"}
ExtensionDirectory == {"extension.yaml"}
Counts(a) ==
    CASE Adapter[a].kind = "rules" -> MarkedFile
      [] Adapter[a].kind = "copy" -> SkillDirectory
      [] Adapter[a].kind = "opencode" -> SkillOrManifest
      [] Adapter[a].kind = "gemini" -> ExtensionDirectory
Discovered(a) ==
    {c \in Exposable : \E d \in Range(Adapter[a].look) : Holds(d, c) \cap Counts(a) # {}}

(* detect: the binary, or one of the directories the adapter looks into.    *)
OnDisk(a) == Range(Adapter[a].look) \cap made # {}
Detected == {a \in AdapterIds : a \in OnPath \/ OnDisk(a)}

(* The same as Agents has it: an agent exposes what its adapter's           *)
(* directories have an entry of, the payloads are the install roots, and    *)
(* opencode searches the directories that belong to adapters.               *)
Exposes == [a \in AdapterIds |->
              {c \in Exposable : \E d \in Range(Adapter[a].write) : Present(d, c)}]
Payloads == {c \in Exposable : root[c] # Absent}
TheOpencode == CHOOSE a \in AdapterIds : Adapter[a].kind = "opencode"
Owner(d) == CHOOSE a \in AdapterIds : d \in Range(Adapter[a].write)
Owned(d) == \E a \in AdapterIds : d \in Range(Adapter[a].write)

(* Those among opencode's directories, in the order it looks.               *)
OwnedPlaces == {i \in DOMAIN Adapter[TheOpencode].look : Owned(Adapter[TheOpencode].look[i])}
OwnedPlace(n) == CHOOSE i \in OwnedPlaces : Cardinality({j \in OwnedPlaces : j <= i}) = n

A == INSTANCE Agents WITH
       Agents <- AdapterIds, Opencode <- TheOpencode,
       RulesAgents <- {a \in AdapterIds : Adapter[a].kind = "rules"},
       AllOrder <- <<>>, CustomOrder <- <<>>, EnabledOrder <- <<>>, MayFail <- Unreliable,
       SkillDirs <- [n \in 1 .. Cardinality(OwnedPlaces) |->
                       Owner(Adapter[TheOpencode].look[OwnedPlace(n)])]

(* The layout that every adapter but a custom agent's is written for (and a *)
(* custom agent's, unless its rulesDir is another adapter's): nobody writes *)
(* or cleans where another writes; all clean and look where they write, but *)
(* opencode, which writes into one directory, as do those it looks at.      *)
Apart ==
    /\ \E o \in AdapterIds : \A a \in AdapterIds : Adapter[a].kind = "opencode" <=> a = o
    /\ \A a \in AdapterIds :
         /\ Range(Adapter[a].write) \subseteq Range(Adapter[a].look)
         /\ Adapter[a].kind # "opencode" => Range(Adapter[a].write) \subseteq Range(Adapter[a].clean)
         /\ \A b \in AdapterIds \ {a} :
              Range(Adapter[b].write) \cap (Range(Adapter[a].write) \cup Range(Adapter[a].clean)) = {}
         /\ Range(Adapter[a].write) \cap Range(Adapter[TheOpencode].look) # {}
              => \E d \in AllDirs : Range(Adapter[a].write) = {d}

(* The user has no entry of c where only opencode looks.                    *)
NoneApart(c) == \A d \in Range(Adapter[TheOpencode].look) : ~Owned(d) => ~Present(d, c)

(* What an adapter's operation does, seen through Agents.                   *)
ActsAsAgents(a, c) ==
    /\ last'.op = "expose" =>
         /\ Exposes' \in {Exposes, A!Exposed(a, c, Exposes)} /\ root' = root
         /\ last'.ok => A!CanExpose(a, c, Payloads) /\ Exposes' = A!Exposed(a, c, Exposes)
         /\ (~last'.ok /\ a \notin Unreliable) =>
               /\ ~A!CanExpose(a, c, Payloads)
               /\ Adapter[a].kind # "gemini" => Exposes' = Exposes
         /\ (last'.ok /\ (Adapter[a].kind = "rules" \/ "SKILL.md" \in root[c])) =>
               c \in Discovered(a)'
         /\ last'.ok => a \in Detected'
    /\ Detected \subseteq Detected'
    /\ (last'.op = "hide" /\ NoneApart(c)) =>
         /\ Exposes' = A!ExposedAfterRemoval(a, c, Exposes)
         /\ Payloads' = A!PayloadAfterRemoval(a, c, c, Exposes, Payloads)

(* The adapters do to their directories what Agents says, whatever entries  *)
(* of the user's, of other adapters' and of failed installs are in them: an *)
(* install adds the capability to its agent and to no other, it works when  *)
(* Agents says that it can and, if it fails, did that or nothing; a removal *)
(* takes away the one entry, or the root, that Agents says; an agent that   *)
(* is given a skill finds it; and an agent that was given anything stays    *)
(* detected, whatever is removed (adapters/rules.ts, custom.ts, claude.ts,  *)
(* generic.ts, gemini.ts, opencode.ts).  gemini alone has an entry without  *)
(* a root, when it is given one.                                            *)
FilesImplementAgents ==
    [][\A a \in AdapterIds, c \in Exposable :
         (last'.agent = a /\ last'.cap = c) => ActsAsAgents(a, c)]_adapterVars
===============================================================================
