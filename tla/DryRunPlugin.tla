----------------------------- MODULE DryRunPlugin -----------------------------
(***************************************************************************)
(* The dry-run commands of the kubectl plugin: list (as a csv backup),     *)
(* enable, disable and revert.  A command reads one WPA or lists several,  *)
(* and then patches them one by one, while other people and controllers    *)
(* change them.  A patch carries only the difference of dryRun between the *)
(* copy that was read and the wanted value, and no version.                *)
(***************************************************************************)
EXTENDS Integers, FiniteSets

CONSTANTS
    Names,       \* the WPAs
    MaxEdits     \* bound on the number of changes by others

VARIABLES
    wpas,        \* the WPAs in the API server
    file,        \* the csv file
    cmd,         \* the command that is running
    edits,
    saved,       \* history: dryRun of the WPAs when the backup was written
    disturbed    \* history: WPAs the command skipped, or that others switched or deleted
                 \* since it read them or sent a patch that was not empty

vars == << wpas, file, cmd, edits, saved, disturbed >>

\* `other` stands for the rest of the object.
Wpa(dryRun) == [exists |-> TRUE, dryRun |-> dryRun, other |-> 0]
Gone == [exists |-> FALSE, dryRun |-> FALSE, other |-> 0]
Existing == {n \in Names : wpas[n].exists}

\* The lines of the file, at most one for each name, and whether its first line has
\* another number of fields.
NoFile == [lines |-> {}, header |-> FALSE]

\* copies: what patch still has to do.  lines: what revert still has to do.  copy: the
\* WPA that revert has read and will patch.  readable: reading the input of revert does
\* not fail.  wants: what the command is to achieve.
NoName == ""
NoCopy == [name |-> NoName, read |-> Gone, value |-> FALSE]
Idle == [kind |-> "none", copies |-> {}, lines |-> {}, header |-> FALSE, readable |-> TRUE,
         copy |-> NoCopy, wants |-> {}]

Init ==
    /\ wpas \in [Names -> {Wpa(TRUE), Wpa(FALSE)}]
    /\ file = NoFile /\ cmd = Idle /\ edits = 0
    /\ saved = [n \in Names |-> FALSE] /\ disturbed = {}

--------------------------------------------------------------------------------
dryRunString(dryRun) == IF dryRun THEN "enabled" ELSE "disabled"

\* Mutant: a word that is not known counts as disabled.
dryRunBoolOff(input) == input = "enabled"

\* A word that is not known counts as enabled.
dryRunBool(input) == input # "disabled"

\* list --all -o csv > file
List ==
    /\ cmd.kind = "none" /\ Existing # {}
    /\ file' = [lines |-> {[name |-> n, value |-> dryRunString(wpas[n].dryRun)] : n \in Existing},
                header |-> FALSE]
    /\ saved' = [n \in Names |-> wpas[n].dryRun]
    /\ UNCHANGED << wpas, cmd, edits, disturbed >>

\* run(o.patch): the WPAs are read, by name, by label or all of them.
StartPatch(dryRun) ==
    /\ cmd.kind = "none"
    /\ \E selected \in (SUBSET Existing) \ {{}} :
          cmd' = [Idle EXCEPT !.kind = "patch",
                     !.copies = {[name |-> n, read |-> wpas[n], value |-> dryRun] : n \in selected},
                     !.wants = {<< n, dryRun >> : n \in selected}]
    /\ disturbed' = {}
    /\ UNCHANGED << wpas, file, edits, saved >>

\* Mutant: the whole copy is written back.
UpdatedWPA(c) == [c.read EXCEPT !.dryRun = c.value]

\* client.MergeFrom: the patch is empty if the copy has the value already.
PatchedWPA(c) ==
    IF c.read.dryRun = c.value THEN wpas[c.name] ELSE [wpas[c.name] EXCEPT !.dryRun = c.value]

patchWPA(c) == wpas[c.name].exists /\ wpas' = [wpas EXCEPT ![c.name] = PatchedWPA(c)]

\* What others did before a patch that was not empty does not matter any more.
Settle(c) == disturbed' = IF c.read.dryRun = c.value THEN disturbed ELSE disturbed \ {c.name}

Patch ==
    /\ cmd.kind = "patch"
    /\ \E c \in cmd.copies :
          patchWPA(c) /\ Settle(c) /\ cmd' = [cmd EXCEPT !.copies = @ \ {c}]
    /\ UNCHANGED << file, edits, saved >>

\* The error is printed, and the loop goes on.
PatchFails ==
    /\ cmd.kind = "patch"
    /\ \E c \in cmd.copies : /\ cmd' = [cmd EXCEPT !.copies = @ \ {c}]
                             /\ disturbed' = disturbed \cup {c.name}
    /\ UNCHANGED << wpas, file, edits, saved >>

\* The csv reader expects every line to have as many fields as the first one.  What
\* was opened, or is piped in, cannot always be read: a directory opens as well.
StartRevert ==
    /\ cmd.kind = "none" /\ file.lines # {}
    /\ \E readable \in BOOLEAN :
          cmd' = [Idle EXCEPT !.kind = "revert", !.lines = file.lines, !.header = file.header,
                     !.readable = readable,
                     !.wants = {<< l.name, l.value = "unknown" \/ saved[l.name] >> : l \in file.lines}]
    /\ disturbed' = {}
    /\ UNCHANGED << wpas, file, edits, saved >>

\* revert is at csvReader.Read().
Reading == cmd.kind = "revert" /\ cmd.copy = NoCopy

\* An error that is not the end of the file is printed, and the same read is tried again.
ReadError ==
    /\ Reading /\ ~cmd.readable
    /\ UNCHANGED vars

NextLine(l) ==
    /\ Reading /\ cmd.readable /\ l \in cmd.lines
    /\ UNCHANGED << wpas, file, edits, saved >>

\* Mutant: a line that cannot be used is tried again.
SkipNothing(l) ==
    /\ NextLine(l)
    /\ disturbed' = disturbed \cup {l.name}
    /\ UNCHANGED cmd

\* The line cannot be parsed, or its WPA cannot be read.
SkipLine(l) ==
    /\ NextLine(l)
    /\ cmd' = [cmd EXCEPT !.lines = @ \ {l}]
    /\ disturbed' = disturbed \cup {l.name}

\* The WPA is read; if it has the value of the line there is nothing to do.
GetWpa(l) ==
    /\ NextLine(l)
    /\ ~cmd.header /\ wpas[l.name].exists
    /\ cmd' = [cmd EXCEPT !.lines = @ \ {l},
                  !.copy = IF wpas[l.name].dryRun = dryRunBool(l.value) THEN NoCopy
                           ELSE [name |-> l.name, read |-> wpas[l.name],
                                 value |-> dryRunBool(l.value)]]
    /\ disturbed' = disturbed \ {l.name}

Revert ==
    /\ cmd.copy # NoCopy
    /\ patchWPA(cmd.copy) /\ Settle(cmd.copy)
    /\ cmd' = [cmd EXCEPT !.copy = NoCopy]
    /\ UNCHANGED << file, edits, saved >>

RevertFails ==
    /\ cmd.copy # NoCopy
    /\ cmd' = [cmd EXCEPT !.copy = NoCopy]
    /\ disturbed' = disturbed \cup {cmd.copy.name}
    /\ UNCHANGED << wpas, file, edits, saved >>

Finished == cmd.kind # "none" /\ cmd.copies = {} /\ cmd.lines = {} /\ cmd.copy = NoCopy

\* The command ends, and always successfully; revert when it has read the end of the file.
End ==
    /\ Finished
    /\ cmd.kind = "revert" => cmd.readable
    /\ cmd' = Idle /\ disturbed' = {}
    /\ UNCHANGED << wpas, file, edits, saved >>

--------------------------------------------------------------------------------
(* Everybody else. *)

OthersChange(n, wpa) ==
    /\ edits < MaxEdits
    /\ wpas' = [wpas EXCEPT ![n] = wpa]
    /\ edits' = edits + 1
    /\ UNCHANGED << file, cmd, saved >>

Disturb(n) == disturbed' = IF cmd.kind = "none" THEN {} ELSE disturbed \cup {n}

Toggle(n) ==
    /\ wpas[n].exists /\ OthersChange(n, [wpas[n] EXCEPT !.dryRun = ~@])
    /\ Disturb(n)

EditOther(n) ==
    /\ wpas[n].exists /\ OthersChange(n, [wpas[n] EXCEPT !.other = @ + 1])
    /\ UNCHANGED disturbed

Delete(n) ==
    /\ wpas[n].exists /\ OthersChange(n, Gone)
    /\ Disturb(n)

Recreate(n) ==
    /\ ~wpas[n].exists /\ \E b \in BOOLEAN : OthersChange(n, Wpa(b))
    /\ Disturb(n)

\* The backup is edited by hand: a word is changed, or a title is put in front.
EditFile ==
    /\ cmd.kind = "none" /\ edits < MaxEdits
    /\ \/ \E l \in file.lines :
             file' = [file EXCEPT !.lines = (@ \ {l}) \cup {[l EXCEPT !.value = "unknown"]}]
       \/ file.lines # {} /\ file' = [file EXCEPT !.header = TRUE]
    /\ edits' = edits + 1
    /\ UNCHANGED << wpas, cmd, saved, disturbed >>

\* The input of revert begins to fail, perhaps in the middle of a line, whose rest is then
\* no use; or it can be read again.
MediumChanges ==
    /\ cmd.kind = "revert" /\ edits < MaxEdits
    /\ \/ cmd' = [cmd EXCEPT !.readable = ~@] /\ UNCHANGED disturbed
       \/ \E l \in cmd.lines : /\ cmd.readable
                                /\ cmd' = [cmd EXCEPT !.readable = FALSE, !.lines = @ \ {l}]
                                /\ disturbed' = disturbed \cup {l.name}
    /\ edits' = edits + 1
    /\ UNCHANGED << wpas, file, saved >>

Others ==
    \/ EditFile \/ MediumChanges
    \/ \E n \in Names : Toggle(n) \/ EditOther(n) \/ Delete(n) \/ Recreate(n)

Running ==
    \/ Patch \/ PatchFails
    \/ ReadError \/ \E l \in cmd.lines : SkipLine(l) \/ GetWpa(l)
    \/ Revert \/ RevertFails \/ End

Plugin == List \/ StartPatch(TRUE) \/ StartPatch(FALSE) \/ StartRevert \/ Running

Next == Plugin \/ Others

\* A command that was started runs.
Spec == Init /\ [][Next]_vars /\ WF_vars(Running)

--------------------------------------------------------------------------------
(* Properties. *)

\* When a command ends, every WPA that it did not skip has the value the command is
\* for: the one of enable or disable, and for revert the one it had when the backup was
\* made, whatever has happened to it in between; unless others switched it after the
\* patch, or after the read where the copy made the patch empty (patchWPA, the csv round
\* trip of list and revert).
CommandTakesEffect ==
    Finished => \A want \in cmd.wants :
                    want[1] \notin disturbed => wpas[want[1]].dryRun = want[2]

\* The plugin never undoes what others have changed in a WPA since it read it
\* (the merge patch of patchWPA carries dryRun only).
OtherFieldsSurvive ==
    [][edits' = edits => \A n \in Names : /\ wpas'[n].other = wpas[n].other
                                          /\ wpas'[n].exists = wpas[n].exists]_vars

\* Every command ends, whatever lines, reads of WPAs or patches fail; all that can keep
\* one from it is an input of revert that cannot be read any more: revert then tries the
\* same read for ever (the loops of patch and runRevert, which goes on after any error
\* of csvReader.Read but the end of the file).
CommandEnds ==
    cmd.kind # "none" ~> (cmd.kind = "none" \/ [](cmd.kind = "revert" /\ ~cmd.readable))
================================================================================
