---------------------------- MODULE MCSkillRouter ----------------------------
(* Small instances of SkillRouter.                                           *)
EXTENDS SkillRouter

CONSTANTS p1, p2, c1, c2, v1, v2, opencode, generic, cursor, custom

(* Two invocations, one capability.                                          *)
TwoProcs    == {p1, p2}
OneCap      == {c1}
OneVersion  == {v1}
OneSource   == {<<c1, v1>>}
TwoAgents   == {opencode, cursor}
TwoAll      == <<opencode, cursor>>
OpencodeDir == <<opencode>>
NoCustom    == << >>

(* One invocation, two capabilities, three agents.                           *)
OneProc     == {p1}
TwoCaps     == {c1, c2}
TwoSources  == {<<c1, v1>>, <<c2, v1>>}
ThreeAgents == {opencode, generic, cursor}
ThreeAll    == <<opencode, generic, cursor>>
CopyDirs    == <<opencode, generic>>
GenericOnly == <<generic, cursor>>
NoProc      == {}
CursorSet   == {cursor}
SecondCap   == {c2}
NoneCap     == {}

(* One invocation, two versions of one of two capabilities, and custom       *)
(* agents.                                                                   *)
ThreeSources == {<<c1, v1>>, <<c1, v2>>, <<c2, v1>>}
MixedAgents  == {opencode, generic, custom}
OnlyGeneric  == <<generic>>
OpencodeSet  == {opencode}
CustomSet    == {custom}

(* One invocation, two versions of one capability, four agents.              *)
TwoVersions == {v1, v2}
NewSources  == {<<c1, v1>>, <<c1, v2>>}
FourAgents  == {opencode, generic, cursor, custom}
RulesSet    == {cursor, custom}
Custom      == <<custom>>
=============================================================================
