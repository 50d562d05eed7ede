------------------------------ MODULE Permissions ------------------------------
(***************************************************************************)
(* From the text of a manifest to the question whether the user is asked:  *)
(* validation and normalisation of the manifest (src/manifest), the risk   *)
(* of the permissions it is left with (src/security/risk.ts), the gate of  *)
(* the installer, and the policy the runtime applies to the permissions it *)
(* asks for (src/security/policy.ts, src/runtime/runtime.ts).              *)
(*                                                                         *)
(* A manifest is a set of permissions, each of them written in a form of   *)
(* its own, the sections that are missing or of a wrong type, and the risk *)
(* level it declares.  The registry may read another one at any time, also *)
(* after the capability was installed.                                     *)
(***************************************************************************)
EXTENDS Integers, FiniteSets, FiniteSetsExt

CONSTANTS MaxDeclared  \* bound: how many permissions a manifest declares

ASSUME PermissionsAssumption == MaxDeclared \in Nat

(* The fields of the permission block; in a manifest one has a form: "well", *)
(* "single", a string where a list belongs, or "wrong", of another type.    *)
Lists == {"paths", "scoped", "wildcard", "allowlist", "denylist", "sensitive", "servers"}
Flags == {"read", "write", "shell", "environment", "hooks", "processes"}
Access == {"explicit", "requested"}
Permissions == Lists \cup Flags \cup Access

Identity == {"schema", "id", "version", "type", "name"}
ManifestSections == Identity \cup
    {"description", "triggers", "compatibility", "dependencies", "conflicts", "links",
     "risk", "context", "metadata", "resources", "trust"}

RISK_LEVELS == <<"low", "medium", "high", "critical">>
DOMAIN_LEVEL == <<0, 30, 55, 80>>
Undeclared == 0  \* no level declared
Misspelt == 5    \* a string that is no level: indices of RISK_LEVELS are 1..4
NaN == -1        \* the score Math.max yields for a floor that is undefined

VARIABLES lifecycle, \* where the capability is
          granted,   \* what its normalized manifest grants
          declared,  \* the risk level it declares
          security    \* the security settings of its activation

permissionVars == <<lifecycle, granted, declared, security>>

(* What is configured: `network` is what the rules say of the target "*",   *)
(* "ask" when they do not mention it.                                       *)
Configs == [blocked : BOOLEAN, requireConsent : BOOLEAN,
            network : {"allow", "ask", "deny"}, default : {"allow", "ask", "deny"}]

PermissionsInit ==
    /\ lifecycle = "unread" /\ granted = {} /\ declared = Undeclared
    /\ security = [blocked |-> FALSE, requireConsent |-> TRUE,
                 network |-> "ask", default |-> "allow"]

-----------------------------------------------------------------------------
(* validateManifest: the paths a manifest has problems at.  A single string *)
(* is as good as a list; nothing checks that a shell's `enabled` is a       *)
(* boolean, and the lists of a shell only where it is enabled; "*" is a     *)
(* problem next to other entries and when it is not flagged.                *)
Problems(doc) ==
    doc.broken \cup
    {f \in DOMAIN doc.form :
       \/ doc.form[f] = "wrong" /\ f # "shell"
             /\ (f \in {"allowlist", "denylist"} => "shell" \in DOMAIN doc.form)
       \/ f = "wildcard" /\ (~doc.flagged \/ "scoped" \in DOMAIN doc.form)}

(* loadManifestFromContent, as every caller calls it (not strict): only the *)
(* identity of a capability must be in order.                               *)
Fatal(doc) == Problems(doc) \cap Identity

(* normalizePermissions: what is not a true boolean or a proper list is     *)
(* left out; "*" among the domains makes the network unrestricted, and the  *)
(* access to credentials is one value.                                      *)
normalizePermissions(doc) ==
    LET well == {f \in DOMAIN doc.form : doc.form[f] = "well"} IN
    (well \ IF "wildcard" \in well THEN {"scoped"} ELSE {})
          \ IF "requested" \in well THEN {"explicit"} ELSE {}

(* The declared level is taken as it is written, whatever validation said.  *)
declaredRisk(doc) == IF "risk" \in doc.broken THEN Undeclared ELSE doc.risk

-----------------------------------------------------------------------------
Worth(f, points, g) == IF f \in g THEN points ELSE 0

Points(g) ==
    Worth("read", 10, g) + Worth("write", 20, g) + Worth("paths", 5, g)
    + Worth("scoped", 10, g) + Worth("wildcard", 35, g)
    + Worth("shell", 30 + Worth("allowlist", -15, g) + Worth("denylist", 5, g), g)
    + Worth("environment", 10 + Worth("sensitive", 10, g), g)
    + Worth("explicit", 15, g) + Worth("requested", 20, g)
    + Worth("hooks", 20, g) + Worth("servers", 10, g) + Worth("processes", 25, g)

(* computeRisk: the points, at least the floor of the declared level and at *)
(* most 100; every comparison with NaN is false.                            *)
RiskScore(g, level) ==
    LET floor == IF level = Undeclared THEN 0 ELSE DOMAIN_LEVEL[level]
    IN IF level = Misspelt THEN NaN ELSE Min({100, Max({Points(g), floor})})

Level(g, level) ==
    LET reached == {l \in 1..4 : RiskScore(g, level) >= DOMAIN_LEVEL[l]} IN
    RISK_LEVELS[IF reached = {} THEN 1 ELSE Max(reached)]

Risky(g, level) == Level(g, level) \in {"high", "critical"}

(* auditInstall: a high risk takes --yes or --force, unless consent is not  *)
(* required, and a critical one --force.                                    *)
InstallRefused(g, level, options, config) ==
    /\ ~options.force
    /\ \/ Level(g, level) = "critical"
       \/ Risky(g, level) /\ config.requireConsent /\ ~options.yes

-----------------------------------------------------------------------------
(* permissionRequestsFor: the runtime asks for five kinds.                  *)
permissionRequestsFor(g) ==
    {k \in {"write", "network", "shell", "credentials", "processes"} :
       \/ k \in g
       \/ k = "network" /\ "wildcard" \in g
       \/ k = "credentials" /\ g \cap Access # {}}

(* resolvePolicy: only the network request names a target, so that no other *)
(* allow or deny rule matches; then the kind, the risk, and at last the     *)
(* default of the rule.                                                     *)
resolvePolicy(k, risky, config) ==
    CASE config.blocked -> "deny"
      [] ~config.blocked /\ k = "network" -> config.network
      [] ~config.blocked /\ k = "credentials" -> "ask"
      [] ~config.blocked /\ k \in {"shell", "processes"}
                         -> IF risky THEN "ask" ELSE "allow"
      [] OTHER -> IF risky THEN (IF config.requireConsent THEN "ask" ELSE "allow")
                           ELSE config.default

(* A fault: every permission must need consent.                             *)
consentRequiredForAll(g, level, config) ==
    \A k \in permissionRequestsFor(g) : resolvePolicy(k, Risky(g, level), config) = "ask"

consentRequired(g, level, config) ==
    \E k \in permissionRequestsFor(g) : resolvePolicy(k, Risky(g, level), config) = "ask"

-----------------------------------------------------------------------------
(* The manifests that declare the permissions of S: well written, or with   *)
(* one permission badly written, one section broken, or "*" not flagged.    *)
Forms(S) ==
    LET Well == [form |-> [f \in S |-> "well"], broken |-> {}, flagged |-> TRUE,
                 risk |-> Undeclared]
    IN {Well, [Well EXCEPT !.flagged = FALSE]}
       \cup {[Well EXCEPT !.broken = {section}] : section \in ManifestSections}
       \cup {[Well EXCEPT !.form[f] = "wrong"] : f \in S}
       \cup {[Well EXCEPT !.form[f] = "single"] : f \in S \cap Lists}

Docs(S) == {[d EXCEPT !.risk = level] : level \in Undeclared..Misspelt, d \in Forms(S)}

(* The registry reads a manifest; one that cannot be loaded is left out.    *)
ReadManifest ==
    /\ lifecycle = "unread"
    /\ \E n \in 0..MaxDeclared : \E S \in kSubset(n, Permissions) : \E doc \in Docs(S) :
         /\ IF Fatal(doc) # {}
            THEN lifecycle' = "failed" /\ UNCHANGED <<granted, declared>>
            ELSE /\ lifecycle' = "read"
                 /\ granted' = normalizePermissions(doc) /\ declared' = declaredRisk(doc)
    /\ UNCHANGED security

Install ==
    /\ lifecycle = "read"
    /\ \E options \in [force : BOOLEAN, yes : BOOLEAN], c \in Configs :
         lifecycle' = IF InstallRefused(granted, declared, options, c) THEN "read" ELSE "installed"
    /\ UNCHANGED <<granted, declared, security>>

(* A manifest with one more permission: the wider of two replaces the other. *)
Grown(g, f) ==
    ((g \cup {f}) \ IF "wildcard" \in g \cup {f} THEN {"scoped"} ELSE {})
                  \ IF "requested" \in g \cup {f} THEN {"explicit"} ELSE {}

(* After the installation the registry reads a version that declares more.  *)
Refresh ==
    /\ lifecycle = "installed"
    /\ \E f \in Permissions :
         Cardinality(granted) <= MaxDeclared /\ granted' = Grown(granted, f)
    /\ UNCHANGED <<lifecycle, declared, security>>

(* Runtime.activate goes by the manifest as it is now, not by the installed  *)
(* one: it asks, or it goes on.  Only "ask" is acted on.                     *)
Activate ==
    /\ lifecycle = "installed"
    /\ security' \in Configs
    /\ lifecycle' = IF consentRequired(granted, declared, security') THEN "asking" ELSE "active"
    /\ UNCHANGED <<granted, declared>>

PermissionsNext == ReadManifest \/ Install \/ Refresh \/ Activate

PermissionsSpec == PermissionsInit /\ [][PermissionsNext]_permissionVars

-----------------------------------------------------------------------------
(* What widens a manifest: a list of commands narrows the shell.            *)
Wider == Permissions \ {"allowlist"}

(* As long as consent is required at all, a capability never gets rid of    *)
(* the question by asking for more: what needs consent needs it with one    *)
(* more permission too, whatever the rules say, and with a higher declared  *)
(* risk (computeRisk and resolvePolicy, across their thresholds).  And what *)
(* is activated unasked, unless it is blocked, requests no credentials, and *)
(* at a high risk nothing but the network that a rule settles.              *)
GrowthKeepsConsent ==
    security.requireConsent =>
       /\ lifecycle = "asking" =>
             /\ \A f \in Wider : consentRequired(Grown(granted, f), declared, security)
             /\ declared # Misspelt =>
                   \A level \in declared..4 : consentRequired(granted, level, security)
       /\ (lifecycle = "active" /\ ~security.blocked) =>
             /\ "credentials" \notin permissionRequestsFor(granted)
             /\ Risky(granted, declared) =>
                   permissionRequestsFor(granted) \subseteq {"network"}
=============================================================================
