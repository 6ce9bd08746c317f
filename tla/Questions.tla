------------------------------ MODULE Questions ------------------------------
(***************************************************************************)
(* What has no steps of its own.  The subject of a state is the input of   *)
(* one algorithm, and the invariants say what the algorithm does with it:  *)
(* here those that are proved of every subject, in MCPackages those that   *)
(* are compared on the ones it lists.                                      *)
(***************************************************************************)
EXTENDS Naturals, Sequences

CONSTANTS
  Reserved,    \* the names that a schematic's directory keeps free
  Forbidden,   \* the keys that no input may have
  BaseVerbs,   \* the verbs that every handle has
  Retired,     \* the names of former verbs
  Entry,       \* the file the runner starts with, and two that the build
  Sanctioned,  \* knows by their names: the one that may call import(), and
  Anchor       \* the one whose exemption must not drift

VARIABLE subject   \* a tag, and what the question is about

Of(about) == subject[1] = about

Schema == INSTANCE SchemaGate
Emit == INSTANCE Rejections
Ops == INSTANCE Composition
Build == INSTANCE RunnerManifest
Author == INSTANCE AuthorVerbs

-----------------------------------------------------------------------------
(* An input that the gate lets through has the type that pbuilder-codegen  *)
(* generates from the same schema.json, and one that it refuses has not;   *)
(* and a run is unchecked only for want of a schema or of properties.      *)
GateKeepsTheType == Of("package") => Schema!GateKeepsTheType(subject[2], subject[3])

(* An author cannot tell by his error which of the two engines refused his *)
(* batch; and whatever a host answers, no directive is blamed that it did  *)
(* not name by a code and an index of the batch.                           *)
RejectionIsFaithful == Of("emit") => Emit!RejectionIsFaithful(subject[2], subject[3])

(* Packs added one by one, together or in another order make the same      *)
(* dialect or none; and the router finds what its type promises, but where *)
(* the longest extension is the whole of the name or follows a dot.        *)
DialectsCompose ==
  Of("ops") => Ops!DialectsCompose(subject[2], subject[3], subject[4], subject[5], subject[6])

(* The manifest of the runner names every file that the runner loads       *)
(* before the author's module, and none of them loads anything else; a     *)
(* build that fails at any step leaves no manifest behind, old or new.     *)
ManifestNamesWhatRuns ==
  Of("build") => Build!ManifestNamesWhatRuns(subject[2], subject[3], subject[4], subject[5])

(* What an author calls for reaches the engine as he meant it: a handle    *)
(* follows its file through every verb, the error of a refused one names   *)
(* it as the author's own list does, options arrive or are refused, and a  *)
(* verb finds its run from whichever copy of the SDK.                      *)
VerbsReachTheEngine ==
  /\ Of("verbs") => Author!HandleFollowsFile(subject[2], subject[3], subject[4])
  /\ Of("options") => Author!OptionsArrive(subject[2])
  /\ Of("realms") =>
       LET r == subject[3] IN Author!OneSessionForAllRealms(subject[2], r[1], r[2], r[3])
=============================================================================
