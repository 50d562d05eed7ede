------------------------------ MODULE Fallbacks ------------------------------
(***************************************************************************)
(* src/router/fallback.ts, as `learn --failure` uses it: when a capability *)
(* has failed, its declared fallback chain is walked to the first usable   *)
(* member.  A caller that runs the fallback and sees it fail too asks      *)
(* again, with what it has tried in `attempted`.                           *)
(***************************************************************************)
EXTENDS Catalog, Sequences

CONSTANTS Failures,   \* the failures that may be reported
          StepCap     \* the cap on the steps of one walk (20 in the code)

ASSUME FallbackAssumption ==
    /\ StepCap \in Nat
    /\ \A f \in Failures :
         /\ DOMAIN f = {"failed", "declared", "candidates", "unavailable"}
         /\ f.failed \in Ids
         /\ f.declared \in [Ids -> Seq(Ids)]
         /\ f.candidates \subseteq Ids /\ f.unavailable \subseteq Ids

VARIABLES walk,       \* "idle", "walking", "chosen" or "none"
          failure,    \* what was reported
          failed,     \* whose chain is walked
          attempted,  \* what was tried and failed before
          at,         \* the next member of the chain
          choice      \* the fallback chosen last

fallbackVars == <<walk, failure, failed, attempted, at, choice>>

(* resolveFallbackChains: duplicates and self references are dropped.       *)
ChainOf(c, raw) ==
    LET chain[i \in 0 .. Len(raw)] ==
          IF i = 0 THEN <<>>
          ELSE IF raw[i] \in Elems(chain[i-1]) \cup {c} THEN chain[i-1]
          ELSE Append(chain[i-1], raw[i])
    IN  chain[Len(raw)]

Chain == ChainOf(failed, failure.declared[failed])

MaxSteps == IF StepCap < 3 * Len(Chain) THEN StepCap ELSE 3 * Len(Chain)

(* A fault: what was attempted is not remembered.                           *)
UsableAgain(c) == /\ c # failed
                  /\ failure.candidates # {} => c \in failure.candidates
                  /\ c \notin failure.unavailable

(* Without scores (no candidates given) an unknown id is usable.            *)
Usable(c) == /\ c \notin attempted \cup {failed}
             /\ failure.candidates # {} => c \in failure.candidates
             /\ c \notin failure.unavailable

FallbackInit ==
    /\ walk = "idle" /\ failure = <<>> /\ failed = None
    /\ attempted = {} /\ at = 1 /\ choice = None

Fail == /\ walk = "idle" /\ walk' = "walking"
        /\ \E f \in Failures : failure' = f /\ failed' = f.failed
        /\ UNCHANGED <<attempted, at, choice>>

(* One iteration of the walk; steps = at.                                   *)
Look ==
    /\ walk = "walking" /\ at <= Len(Chain) /\ at <= MaxSteps
    /\ IF Usable(Chain[at])
       THEN walk' = "chosen" /\ choice' = Chain[at] /\ UNCHANGED at
       ELSE at' = at + 1 /\ UNCHANGED <<walk, choice>>
    /\ UNCHANGED <<failure, failed, attempted>>

GiveUp ==
    /\ walk = "walking" /\ (at > Len(Chain) \/ at > MaxSteps)
    /\ walk' = "none" /\ choice' = None
    /\ UNCHANGED <<failure, failed, attempted, at>>

(* The caller runs the fallback, and it fails.  No command asks twice: this  *)
(* is the caller that `attempted` is for, which only tests play.             *)
FailAgain ==
    /\ walk = "chosen" /\ walk' = "walking"
    /\ attempted' = attempted \cup {failed} /\ failed' = choice /\ at' = 1
    /\ UNCHANGED <<failure, choice>>

FallbackStep == Look \/ GiveUp \/ FailAgain

FallbackNext == Fail \/ FallbackStep

FallbackSpec == FallbackInit /\ [][FallbackNext]_fallbackVars

-----------------------------------------------------------------------------
FallbackTypeOK ==
    /\ walk \in {"idle", "walking", "chosen", "none"}
    /\ failed \in Ids \cup {None} /\ attempted \in SUBSET Ids
    /\ at \in Nat \ {0} /\ choice \in Ids \cup {None}

(* However the declared chains loop, no capability is tried a second time,   *)
(* and what is chosen is the first member of the failed one's chain that    *)
(* can be used; nothing is chosen only if the steps allowed hold no such    *)
(* member (fallback.ts:53-81).                                              *)
FirstUntried ==
    /\ walk = "chosen" =>
         /\ choice \notin attempted \cup {failed}
         /\ \E i \in DOMAIN Chain :
              /\ Chain[i] = choice /\ i <= StepCap /\ Usable(choice)
              /\ \A j \in 1 .. i - 1 : ~Usable(Chain[j])
    /\ walk = "none" =>
         \A i \in DOMAIN Chain : i <= StepCap => ~Usable(Chain[i])
    /\ failed \notin attempted
=============================================================================
