-------------------------------- MODULE Signing --------------------------------
(***************************************************************************)
(* src/security/keys.ts and sign.ts: `keys --generate` makes a key pair,   *)
(* `sign` puts a signature block into a manifest, and verifying tells      *)
(* whether a manifest is what was signed.                                  *)
(*                                                                         *)
(* A key pair is two files, written one after the other and in place, and  *)
(* `sign` reads them one after the other, the private one first; commands  *)
(* run at the same time and may be killed, and the manifest's author edits *)
(* it.  A pair is a number; a signature is the key it was made with and    *)
(* what it was made over.  WebCrypto (external) verifies a signature with  *)
(* the public key of the same pair, over the same text, and no other.      *)
(***************************************************************************)
EXTENDS Naturals

CONSTANTS Publishers,  \* the processes that generate keys or sign
          Drafts,      \* what a manifest may say
          Blank,       \* no file, or no signature block
          Unfinished,  \* a file that is being written
          MaxDrafts,   \* bound: how often the manifest is edited
          MaxPairs,    \* bound: how many key pairs are generated
          MaxSignings  \* bound: how often `sign` is started

ASSUME SigningAssumption == MaxDrafts \in Nat /\ MaxPairs \in Nat /\ MaxSignings \in Nat

VARIABLES public, private,  \* the pairs the two key files belong to
          manifest,  \* what the manifest says, and its signature block
          publisher, \* what each process is at, and what it has read
          pairs, signings, drafts,  \* counted
          paired     \* did the last generation run alone, to its end?

signingVars == <<public, private, manifest, publisher, pairs, signings, drafts, paired>>

Inactive == [at |-> "idle", public |-> Blank, private |-> Blank, read |-> Blank,
             alone |-> FALSE]
Advance(p, to) == publisher' = [publisher EXCEPT ![p].at = to]

Generating == {p \in Publishers : publisher[p].at \in {"public", "publicCut", "private",
                                                       "privateCut"}}

SigningInit ==
    /\ public = Blank /\ private = Blank
    /\ manifest \in [text : Drafts, block : {Blank}]
    /\ publisher = [p \in Publishers |-> Inactive]
    /\ pairs = 0 /\ signings = 0 /\ drafts = 0 /\ paired = FALSE

-----------------------------------------------------------------------------
(* generateKeyPair: the pair is made, and both of its files are written.    *)
Generate(p) ==
    /\ publisher[p].at = "idle" /\ pairs < MaxPairs
    /\ pairs' = pairs + 1 /\ paired' = FALSE
    /\ publisher' = [q \in Publishers |->
         IF q = p THEN [Inactive EXCEPT !.at = "public", !.public = pairs', !.private = pairs',
                                        !.alone = Generating = {}]
         ELSE [publisher[q] EXCEPT !.alone = FALSE]]
    /\ UNCHANGED <<public, private, manifest, signings, drafts>>

(* A fault: a public key that is there is kept.                             *)
OpenPublicOnce(p) ==
    /\ publisher[p].at = "public"
    /\ IF public = Blank THEN public' = Unfinished /\ Advance(p, "publicCut")
       ELSE Advance(p, "private") /\ UNCHANGED public
    /\ UNCHANGED <<private, manifest, pairs, signings, drafts, paired>>

OpenPublic(p) ==
    /\ publisher[p].at = "public" /\ Advance(p, "publicCut")
    /\ public' = Unfinished
    /\ UNCHANGED <<private, manifest, pairs, signings, drafts, paired>>

WritePublic(p) ==
    /\ publisher[p].at = "publicCut" /\ Advance(p, "private")
    /\ public' = publisher[p].public
    /\ UNCHANGED <<private, manifest, pairs, signings, drafts, paired>>

OpenPrivate(p) ==
    /\ publisher[p].at = "private" /\ Advance(p, "privateCut")
    /\ private' = Unfinished
    /\ UNCHANGED <<public, manifest, pairs, signings, drafts, paired>>

WritePrivate(p) ==
    /\ publisher[p].at = "privateCut" /\ publisher' = [publisher EXCEPT ![p] = Inactive]
    /\ private' = publisher[p].private
    /\ paired' = publisher[p].alone
    /\ UNCHANGED <<public, manifest, pairs, signings, drafts>>

-----------------------------------------------------------------------------
(* signManifest: nothing is signed without a private key.                   *)
SignStart(p) ==
    /\ publisher[p].at = "idle" /\ signings < MaxSignings /\ signings' = signings + 1
    /\ publisher' = [publisher EXCEPT ![p] =
         [Inactive EXCEPT !.at = IF private = Blank THEN "idle" ELSE "readPrivate",
                          !.alone = Generating = {} /\ paired]]
    /\ UNCHANGED <<public, private, manifest, pairs, drafts, paired>>

ReadPrivate(p) ==
    /\ publisher[p].at = "readPrivate"
    /\ publisher' = [publisher EXCEPT ![p].private = private, ![p].at = "readPublic"]
    /\ UNCHANGED <<public, private, manifest, pairs, signings, drafts, paired>>

(* A public key that is being written reads as none and is taken as it is.  *)
ReadPublic(p) ==
    /\ publisher[p].at = "readPublic"
    /\ publisher' = IF public = Blank THEN [publisher EXCEPT ![p] = Inactive]
                    ELSE [publisher EXCEPT ![p].public = public, ![p].at = "readManifest"]
    /\ UNCHANGED <<public, private, manifest, pairs, signings, drafts, paired>>

(* A manifest that is cut off does not parse, nor does a private key.       *)
ReadToSign(p) ==
    /\ publisher[p].at = "readManifest"
    /\ publisher' = IF manifest = Unfinished \/ publisher[p].private = Unfinished
                    THEN [publisher EXCEPT ![p] = Inactive]
                    ELSE [publisher EXCEPT ![p].read = manifest, ![p].at = "sign"]
    /\ UNCHANGED <<public, private, manifest, pairs, signings, drafts, paired>>

OpenManifest(p) ==
    /\ publisher[p].at = "sign" /\ Advance(p, "signing")
    /\ manifest' = Unfinished
    /\ UNCHANGED <<public, private, pairs, signings, drafts, paired>>

(* What is signed is the manifest as it was read, an older block included;  *)
(* the block holds the text of public.pem, whether it is the private key's. *)
Payload(m) == [text |-> m.text, bare |-> m.block = Blank]

Block(p) == [over |-> Payload(publisher[p].read), key |-> publisher[p].private,
             public |-> publisher[p].public, alone |-> publisher[p].alone]

WriteManifest(p) ==
    /\ publisher[p].at = "signing" /\ publisher' = [publisher EXCEPT ![p] = Inactive]
    /\ manifest' = [text |-> publisher[p].read.text, block |-> Block(p)]
    /\ UNCHANGED <<public, private, pairs, signings, drafts, paired>>

-----------------------------------------------------------------------------
(* The author saves the manifest, with the block it had or without one.     *)
EditManifest ==
    /\ drafts < MaxDrafts /\ drafts' = drafts + 1
    /\ LET had == IF manifest = Unfinished THEN Blank ELSE manifest.block
       IN  manifest' \in [text : Drafts, block : {Blank, had}]
    /\ UNCHANGED <<public, private, publisher, pairs, signings, paired>>

KillPublisher(p) ==
    /\ publisher[p].at # "idle" /\ publisher' = [publisher EXCEPT ![p] = Inactive]
    /\ UNCHANGED <<public, private, manifest, pairs, signings, drafts, paired>>

SigningStep(p) ==
    \/ Generate(p) \/ OpenPublic(p) \/ WritePublic(p) \/ OpenPrivate(p) \/ WritePrivate(p)
    \/ SignStart(p) \/ ReadPrivate(p) \/ ReadPublic(p) \/ ReadToSign(p)
    \/ OpenManifest(p) \/ WriteManifest(p) \/ KillPublisher(p)

SigningNext == EditManifest \/ \E p \in Publishers : SigningStep(p)

SigningSpec == SigningInit /\ [][SigningNext]_signingVars

-----------------------------------------------------------------------------
(* verifyManifestSignature: the block is taken out, and what is left must   *)
(* be what was signed, with the key of the pair the block names.            *)
VerifySignature(block, payload) == block.public = block.key /\ block.over = payload

Verified(m) ==
    IF m.block = Blank THEN "unsigned"
    ELSE IF VerifySignature(m.block, Payload([m EXCEPT !.block = Blank])) THEN "valid"
    ELSE "mismatch"

(* A signature tells whether the manifest was changed.  The two files of a  *)
(* key pair, the two reads of them and the manifest may be interleaved and  *)
(* cut off in any way before; once a pair was generated by a command that   *)
(* overlapped with no other generation and ended, what is signed with it,   *)
(* the first time and while none is generated, verifies as long as the      *)
(* manifest says what it said then, and no longer (keys.ts:12-32,           *)
(* sign.ts:35-66).                                                          *)
SignaturesTell ==
    (manifest # Unfinished /\ manifest.block # Blank /\ manifest.block.alone
      /\ manifest.block.over.bare) =>
        (Verified(manifest) = "valid" <=> manifest.text = manifest.block.over.text)
=============================================================================
