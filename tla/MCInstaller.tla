----------------------------- MODULE MCInstaller -----------------------------
(* A small instance of Installer: two sources that share a path, with        *)
(* different contents, and differ in another, and one without a manifest.    *)
EXTENDS Installer

CONSTANTS manifest, skill, script, old, new

AllPaths    == {manifest, skill, script}
AllContents == {old, new}

Entry(path, content) == [path |-> path, content |-> content]

FirstSource  == {Entry(manifest, old), Entry(skill, old)}
SecondSource == {Entry(manifest, new), Entry(script, old)}
BareSource   == {Entry(skill, new)}
AllSources   == {FirstSource, SecondSource, BareSource}
=============================================================================
