------------------------------ MODULE SelfUpdate ------------------------------
(* ggrun update of ggrun itself (pkg/update): built from its checkout, or put  *)
(* in place by the installer of a release, or by that of Windows, where a      *)
(* running program cannot be overwritten and is moved aside. ggrun may be      *)
(* killed before any of these steps, and any of them may fail: the errors of   *)
(* copies, of the restoring rename, of the reset of the checkout and of        *)
(* removals are ignored. A version is a number.                                *)
EXTENDS Naturals

CONSTANTS MaxVersion, MaxSelfUpdates, NoFile

ASSUME SelfUpdateAssumption ==
  /\ MaxVersion \in Nat \ {0} /\ MaxSelfUpdates \in Nat
  /\ NoFile \notin [version : Nat, works : BOOLEAN]

VARIABLES
  released,          \* the newest version
  source,            \* what is checked out
  installed, kept,   \* the program, and its copy (.bak) or itself (.old)
  selfStep, flow,    \* of the update under way
  oldSource, prior,  \* when it began
  busy,              \* the program that is installed runs, so its file cannot be written
  dropped,           \* what has failed in it without being noticed (of record only)
  selfResult, selfUpdates

begunVars == <<released, flow, oldSource, prior, selfUpdates>>
selfVars == <<begunVars, source, installed, kept, selfStep, busy, dropped, selfResult>>

Whole(v) == [version |-> v, works |-> TRUE]
Torn(f) == [f EXCEPT !.works = FALSE]
Works(f) == f # NoFile /\ f.works

SelfInit ==
  /\ released = 1 /\ source = 1 /\ installed = Whole(1) /\ kept = NoFile
  /\ selfStep = "idle" /\ flow = "source" /\ oldSource = 1 /\ prior = Whole(1)
  /\ busy \in BOOLEAN /\ dropped = {} /\ selfResult = "none" /\ selfUpdates = 0

Releases ==
  /\ selfStep = "idle" /\ released < MaxVersion /\ released' = released + 1
  /\ UNCHANGED <<source, installed, kept, selfStep, flow, oldSource, prior, busy, dropped, selfResult, selfUpdates>>

Moves(next) == selfStep' = next /\ UNCHANGED <<begunVars, selfResult>>
Over(r) == selfStep' = "idle" /\ selfResult' = r /\ UNCHANGED begunVars

\* By the ggrun that is installed or by another one that works.
Begins ==
  /\ selfStep = "idle" /\ selfUpdates < MaxSelfUpdates /\ selfUpdates' = selfUpdates + 1
  /\ Works(installed) /\ oldSource' = source /\ prior' = installed
  /\ dropped' = {} /\ selfResult' = "none" /\ UNCHANGED <<released, source>>

\* The program is copied in place of an older copy, if that can be written.
Secure ==
  /\ Begins /\ flow' \in {"source", "installer"} /\ busy' \in BOOLEAN
  /\ kept' \in {kept, Torn(installed)} /\ selfStep' = "copy" /\ UNCHANGED installed

Secured ==
  /\ selfStep = "copy" /\ Moves("fetch")
  /\ \/ kept' = installed /\ UNCHANGED dropped
     \/ dropped' = {"copy"} /\ UNCHANGED kept
  /\ UNCHANGED <<source, installed, busy>>

\* Renamed, with the installer downloaded already; if that fails nothing changes.
MoveAside ==
  /\ Begins /\ flow' = "windows" /\ busy' = FALSE
  /\ kept' = installed /\ installed' = NoFile /\ selfStep' = "install"

\* A copy that is no longer needed is removed, or stays.
Discards == kept' \in {NoFile, kept}

\* The pull or the download fails before anything was changed.
CannotFetch ==
  /\ selfStep = "fetch" /\ Discards /\ Over("failed")
  /\ UNCHANGED <<source, installed, busy, dropped>>

Fetch ==
  /\ selfStep = "fetch" /\ source' = IF flow = "source" THEN released ELSE source
  /\ Moves("install") /\ UNCHANGED <<installed, kept, busy, dropped>>

Outcomes == [version : {released}, works : BOOLEAN]

\* Nothing was built; or the installer stopped somewhere.
CannotInstall ==
  /\ selfStep = "install"
  /\ installed' \in {installed} \union (IF flow = "source" THEN {} ELSE Outcomes)
  /\ busy' = (busy /\ installed' = installed)
  /\ Moves("restore") /\ UNCHANGED <<source, kept, dropped>>

\* By renaming the staged program over it: what runs keeps its own file.
Install ==
  /\ selfStep = "install" /\ busy' = FALSE /\ installed' \in Outcomes
  /\ Moves("check") /\ UNCHANGED <<source, kept, dropped>>

SelfCheckFails ==
  /\ selfStep = "check" /\ ~installed.works
  /\ Moves("restore") /\ UNCHANGED <<source, installed, kept, busy, dropped>>

MutSelfCheckPasses ==
  /\ selfStep = "check" /\ Over("updated") /\ Discards
  /\ UNCHANGED <<source, installed, busy, dropped>>

\* On Windows a program that runs can be removed only when it is next started.
SelfCheckPasses ==
  /\ selfStep = "check" /\ installed.works /\ Over("updated") /\ Discards
  /\ UNCHANGED <<source, installed, busy, dropped>>

\* The checkout goes back first. A file that runs cannot be written, and need not
\* be; another one is torn until all of its copy is written over it.
Restore ==
  /\ selfStep = "restore" /\ flow # "windows" /\ Moves("restored")
  /\ \/ source' = oldSource /\ UNCHANGED dropped
     \/ source # oldSource /\ dropped' = dropped \union {"reset"} /\ UNCHANGED source
  /\ installed' \in {installed} \union (IF busy \/ kept = NoFile THEN {} ELSE {Torn(kept)})
  /\ UNCHANGED <<kept, busy>>

\* Whether it could be written back or not, the copy is removed.
Restored ==
  /\ selfStep = "restored" /\ Over("failed") /\ Discards
  /\ \/ ~busy /\ kept # NoFile /\ installed' = kept /\ UNCHANGED dropped
     \/ busy /\ UNCHANGED <<installed, dropped>>
     \/ ~busy /\ dropped' = dropped \union {"restore"} /\ UNCHANGED installed
  /\ UNCHANGED <<source, busy>>

\* What the installer left is removed, if possible; the next step names the old
\* program as before, or says that it cannot.
ClearTarget ==
  /\ selfStep = "restore" /\ flow = "windows" /\ Moves("moving")
  /\ installed' \in {NoFile, installed} /\ UNCHANGED <<source, kept, busy, dropped>>

MoveBack ==
  /\ selfStep = "moving" /\ Over("failed")
  /\ \/ installed' = kept /\ kept' = NoFile /\ UNCHANGED dropped
     \/ dropped' = dropped \union {"restore"} /\ UNCHANGED <<installed, kept>>
  /\ UNCHANGED <<source, busy>>

SelfKilled ==
  /\ selfStep # "idle" /\ selfStep' = "idle" /\ selfResult' = "none" /\ busy' = FALSE
  /\ UNCHANGED <<begunVars, source, installed, kept, dropped>>

SelfNext ==
  \/ Releases \/ Secure \/ Secured \/ MoveAside \/ CannotFetch \/ Fetch
  \/ CannotInstall \/ Install \/ SelfCheckFails \/ SelfCheckPasses
  \/ Restore \/ Restored \/ ClearTarget \/ MoveBack \/ SelfKilled

-----------------------------------------------------------------------------
\* Wherever an update of ggrun is killed there is a program that works, in its
\* place or kept, unless a copy has failed in it, to the .bak file or back from it:
\* its error is ignored, and the .bak file removed all the same. What is moved aside
\* on Windows is never lost. An update that reports success has left a program that
\* works, whatever failed in it; one that reports a failure has left the program as
\* it was if its copies succeeded, and the checkout too if that could be reset.
ProgramKept ==
  /\ \/ Works(installed) \/ Works(kept)
     \/ flow # "windows" /\ dropped \intersect {"copy", "restore"} # {}
  /\ selfStep = "idle" /\ selfResult = "updated" => Works(installed)
  /\ selfStep = "idle" /\ selfResult = "failed" =>
       /\ dropped \intersect {"copy", "restore"} = {} => installed = prior
       /\ dropped = {} => source = oldSource
=============================================================================
