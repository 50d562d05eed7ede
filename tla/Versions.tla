-------------------------------- MODULE Versions --------------------------------
(***************************************************************************)
(* src/utils/version.ts and the `update` command of                        *)
(* src/cli/commands/capabilities.ts: comparing versions, ranges, and the   *)
(* installed capabilities that are older than what the registry has.       *)
(*                                                                         *)
(* A version is what parseSemVer finds in its text, `Invalid` when it      *)
(* finds none, with the place localeCompare gives the text among all.      *)
(* Prereleases are numbers in the order of their strings.  What `update`   *)
(* does on the way to a row is in SkillRouter and Installer.               *)
(***************************************************************************)
EXTENDS Catalog, Sequences

CONSTANTS Invalid,
          MaxNumber,   \* bound: the largest number in a version
          Texts,       \* the versions that occur, [sem, place]
          Ranges,      \* sets of alternatives, each a set of conditions [op, target]
          Situations   \* what is installed and what the registry has

Operators == {"=", ">", ">=", "<", "<=", "^", "~"}
SemVer == [major : 0 .. MaxNumber, minor : 0 .. MaxNumber, patch : 0 .. MaxNumber,
           prerelease : {None} \cup 0 .. MaxNumber]

ASSUME VersionsAssumption ==
    /\ MaxNumber \in Nat
    /\ \A t \in Texts : t.sem \in SemVer \cup {Invalid} /\ t.place \in Nat
    /\ \A r \in Ranges : \A part \in r : \A c \in part :
         c.op \in Operators /\ c.target \in SemVer \cup {Invalid}
    /\ \A s \in Situations :
         /\ DOMAIN s.rows \subseteq Ids
         /\ s.rows \in [DOMAIN s.rows -> Texts] /\ s.registry \in [DOMAIN s.registry -> Texts]

VARIABLES updating,   \* "idle", "judged", "listed", "applying" or "done"
          judged,     \* a question to the comparison and its answer
          rows,       \* the installed versions
          registry,   \* the registry's, of what it has
          snapshot,   \* both as update has read them
          updates,    \* the capabilities update goes through
          skipped,    \* those it could not update
          moved       \* a refresh has replaced the registry since (bound: one does)

versionVars == <<updating, judged, rows, registry, snapshot, updates, skipped, moved>>

(* compareSemVer: major, minor and patch, then the release after its        *)
(* prereleases; texts that are no versions by their letters.                *)
Sign(a, b) == IF a < b THEN -1 ELSE IF a > b THEN 1 ELSE 0

(* A fault: no release comes after its prereleases.                         *)
CmpPrefix(a, b) ==
    IF a.major # b.major THEN Sign(a.major, b.major)
    ELSE IF a.minor # b.minor THEN Sign(a.minor, b.minor)
    ELSE IF a.patch # b.patch THEN Sign(a.patch, b.patch)
    ELSE Sign(a.prerelease, b.prerelease)

Cmp(a, b) ==
    IF a.major # b.major THEN Sign(a.major, b.major)
    ELSE IF a.minor # b.minor THEN Sign(a.minor, b.minor)
    ELSE IF a.patch # b.patch THEN Sign(a.patch, b.patch)
    ELSE IF a.prerelease = b.prerelease THEN 0
    ELSE IF a.prerelease = None THEN 1
    ELSE IF b.prerelease = None THEN -1 ELSE Sign(a.prerelease, b.prerelease)

CompareSemVer(a, b) ==
    IF Invalid \in {a.sem, b.sem} THEN Sign(a.place, b.place) ELSE Cmp(a.sem, b.sem)

(* satisfies: some alternative all of whose conditions hold.                *)
Holds(v, c) ==
    LET t == c.target IN
    /\ t # Invalid
    /\ CASE c.op = "="  -> Cmp(v, t) = 0
         [] c.op = ">"  -> Cmp(v, t) > 0
         [] c.op = ">=" -> Cmp(v, t) >= 0
         [] c.op = "<"  -> Cmp(v, t) < 0
         [] c.op = "<=" -> Cmp(v, t) <= 0
         [] c.op = "^"  -> /\ Cmp(v, t) >= 0 /\ v.major = t.major
                           /\ t.major = 0 => v.minor = t.minor
                           /\ (t.major = 0 /\ t.minor = 0) => v.patch = t.patch
         [] c.op = "~"  -> /\ Cmp(v, t) >= 0 /\ v.major = t.major
                           /\ (t.minor > 0 \/ t.patch > 0) => v.minor = t.minor

Satisfies(text, range) ==
    text.sem # Invalid /\ \E part \in range : \A c \in part : Holds(text.sem, c)

HighestVersion(texts) ==
    LET best[i \in 1 .. Len(texts)] ==
          IF i = 1 THEN texts[1]
          ELSE IF CompareSemVer(texts[i], best[i - 1]) > 0 THEN texts[i] ELSE best[i - 1]
    IN  best[Len(texts)]

VersionInit ==
    /\ updating = "idle" /\ judged = <<>> /\ rows = <<>> /\ registry = <<>>
    /\ snapshot = <<>> /\ updates = <<>> /\ skipped = {} /\ moved = FALSE

Judge ==
    /\ updating = "idle" /\ updating' = "judged"
    /\ \/ \E v \in Texts, r \in Ranges :
            judged' = [version |-> v, range |-> r, answer |-> Satisfies(v, r)]
       \/ \E u, v, w \in Texts :
            judged' = [versions |-> <<u, v, w>>, answer |-> HighestVersion(<<u, v, w>>)]
    /\ UNCHANGED <<rows, registry, snapshot, updates, skipped, moved>>

(* update reads the rows and the registry, and lists what is older.         *)
Update ==
    /\ updating = "idle" /\ updating' = "listed"
    /\ \E s \in Situations :
         LET stale == {c \in DOMAIN s.rows \cap DOMAIN s.registry :
                         CompareSemVer(s.registry[c], s.rows[c]) > 0} IN
         /\ rows' = s.rows /\ registry' = s.registry /\ snapshot' = s
         /\ updates' \in {order \in [1 .. Cardinality(stale) -> stale] : Elems(order) = stale}
    /\ UNCHANGED <<judged, skipped, moved>>

(* Nothing to do, --json, --dry-run, or a no to the question.               *)
DoNotApply ==
    /\ updating = "listed" /\ updating' = "done" /\ updates' = <<>>
    /\ skipped' = Elems(updates)
    /\ UNCHANGED <<judged, rows, registry, snapshot, moved>>

Apply ==
    /\ updating = "listed" /\ updates # <<>> /\ updating' = "applying"
    /\ UNCHANGED <<judged, rows, registry, snapshot, updates, skipped, moved>>

(* Each is resolved again, which gives what the registry has by now, if     *)
(* anything, and its install may fail.  For an id that is gone, the match   *)
(* of a similar one (cli/helpers.ts:41) is left out.                        *)
UpdateOne ==
    /\ updating = "applying" /\ updates # <<>>
    /\ LET c == Head(updates) IN
         \/ /\ c \in DOMAIN registry
            /\ rows' = [rows EXCEPT ![c] = registry[c]] /\ UNCHANGED skipped
         \/ skipped' = skipped \cup {c} /\ UNCHANGED rows
    /\ updates' = Tail(updates)
    /\ UNCHANGED <<updating, judged, registry, snapshot, moved>>

Updated ==
    /\ updating = "applying" /\ updates = <<>> /\ updating' = "done"
    /\ UNCHANGED <<judged, rows, registry, snapshot, updates, skipped, moved>>

(* A refresh, by another command, while the question waits or copies run.   *)
RegistryMoves ==
    /\ updating \in {"listed", "applying"} /\ ~moved /\ moved' = TRUE
    /\ \E s \in Situations : registry' = s.registry
    /\ UNCHANGED <<updating, judged, rows, snapshot, updates, skipped>>

UpdateStep == DoNotApply \/ Apply \/ UpdateOne \/ Updated
VersionNext == Judge \/ Update \/ UpdateStep \/ RegistryMoves

VersionSpec == VersionInit /\ [][VersionNext]_versionVars

-----------------------------------------------------------------------------
(* Versions on a line: a release has the last place before the next patch.  *)
Digits(a, b, c, d) == LET base == MaxNumber + 2 IN ((a * base + b) * base + c) * base + d
Weight(s) == Digits(s.major, s.minor, s.patch,
                    IF s.prerelease = None THEN MaxNumber + 1 ELSE s.prerelease)
Newer(a, b) == IF Invalid \in {a.sem, b.sem} THEN a.place > b.place
               ELSE Weight(a.sem) > Weight(b.sem)

(* What a condition admits, as an interval of that line.                    *)
From(major, minor, patch) == Digits(major, minor, patch, 0)
Interval(op, t) ==
    LET w == Weight(t)
        end == From(MaxNumber + 1, 0, 0) IN
    CASE op = "=" -> w .. w [] op = ">" -> w + 1 .. end [] op = ">=" -> w .. end
      [] op = "<" -> 0 .. w - 1 [] op = "<=" -> 0 .. w
      [] op = "^" -> w .. (IF t.major > 0 THEN From(t.major + 1, 0, 0)
                           ELSE IF t.minor > 0 THEN From(0, t.minor + 1, 0)
                           ELSE From(0, 0, t.patch + 1)) - 1
      [] op = "~" -> w .. (IF t.minor + t.patch > 0 THEN From(t.major, t.minor + 1, 0)
                           ELSE From(t.major + 1, 0, 0)) - 1

(* Comparing versions orders them: a range admits what lies in its          *)
(* intervals, the highest of valid versions is no older than any, and       *)
(* update, unless a refresh comes between its list and its copies, only     *)
(* ever takes a row to something newer, which is the registry's, and leaves *)
(* none behind that it did not fail on (version.ts:25-109,                  *)
(* capabilities.ts:219-273).                                                *)
VersionsAreOrdered ==
    /\ (updating = "judged" /\ "range" \in DOMAIN judged) =>
         (judged.answer <=>
            /\ judged.version.sem # Invalid
            /\ \E part \in judged.range : \A c \in part :
                 c.target # Invalid /\ Weight(judged.version.sem) \in Interval(c.op, c.target))
    /\ (updating = "judged" /\ "versions" \in DOMAIN judged) =>
         LET all == Elems(judged.versions) IN
         /\ judged.answer \in all
         /\ (\A v \in all : v.sem # Invalid) => \A v \in all : ~Newer(v, judged.answer)
    /\ (updating \in {"applying", "done"} /\ ~moved) =>
         \A c \in DOMAIN rows :
           \/ /\ rows[c] = snapshot.rows[c]
              /\ updating = "done" /\ c \in DOMAIN registry \ skipped =>
                   ~Newer(registry[c], rows[c])
           \/ c \in DOMAIN registry /\ rows[c] = registry[c] /\ Newer(rows[c], snapshot.rows[c])
=============================================================================
