-------------------------- MODULE DryRunPluginProofs --------------------------
(***************************************************************************)
(* Proofs about the dry-run commands of the kubectl plugin, for every set  *)
(* of WPAs and every number of changes by others: what a command leaves    *)
(* behind and what it never touches.                                       *)
(***************************************************************************)
EXTENDS DryRunPlugin, TLAPS

--------------------------------------------------------------------------------
(* The inductive invariant. *)

Wpas == [exists : BOOLEAN, dryRun : BOOLEAN, other : Nat]
Lines == [name : Names, value : {"enabled", "disabled", "unknown"}]
Copies == [name : Names, read : Wpas, value : BOOLEAN]
Files == [lines : SUBSET Lines, header : BOOLEAN]
Commands ==
    [kind : {"none", "patch", "revert"}, copies : SUBSET Copies, lines : SUBSET Lines,
     header : BOOLEAN, readable : BOOLEAN, copy : Copies \cup {NoCopy}, wants : SUBSET (Names \X BOOLEAN)]

TypeOK ==
    /\ wpas \in [Names -> Wpas] /\ file \in Files /\ cmd \in Commands
    /\ edits \in Nat /\ saved \in [Names -> BOOLEAN] /\ disturbed \subseteq Names

\* No two lines, or copies, have the same name.
OnePerName(S) == \A s, t \in S : s.name = t.name => s = t

\* A line of the backup has the value that was saved, unless it was edited by hand.
FileFits ==
    /\ OnePerName(file.lines)
    /\ \A l \in file.lines : l.value = "unknown" \/ l.value = dryRunString(saved[l.name])

\* What a command has still to do, it does for the value that it wants.
WorkFits ==
    /\ OnePerName(cmd.copies)
    /\ cmd.kind = "none" => cmd.wants = {}
    /\ cmd.kind # "patch" => cmd.copies = {}
    /\ cmd.kind # "revert" => cmd.lines = {} /\ cmd.copy = NoCopy
    /\ \A want \in cmd.wants :
          /\ \A c \in cmd.copies : c.name = want[1] => c.value = want[2]
          /\ \A l \in cmd.lines : l.name = want[1] => dryRunBool(l.value) = want[2]
          /\ cmd.copy # NoCopy /\ cmd.copy.name = want[1] => cmd.copy.value = want[2]

\* A copy shows the WPA as it is, unless others switched it since; the one of revert
\* is only kept to be patched.
CopiesFit ==
    /\ \A c \in cmd.copies : c.name \notin disturbed => wpas[c.name].dryRun = c.read.dryRun
    /\ cmd.copy # NoCopy => cmd.copy.read.dryRun # cmd.copy.value

Pending(n) ==
    \/ \E c \in cmd.copies : c.name = n
    \/ \E l \in cmd.lines : l.name = n
    \/ cmd.copy # NoCopy /\ cmd.copy.name = n

\* Where nothing is left to do, the value is the wanted one.
DoneFits ==
    \A want \in cmd.wants :
        want[1] \in disturbed \/ Pending(want[1]) \/ wpas[want[1]].dryRun = want[2]

PInv == TypeOK /\ FileFits /\ WorkFits /\ CopiesFit /\ DoneFits

--------------------------------------------------------------------------------
(* Facts about the operators. *)

\* The copy that stands for none would need no patch, so a copy that needs one is
\* another.
LEMMA NoCopyIsDone == NoCopy.read.dryRun = NoCopy.value
BY DEF NoCopy, Gone

\* The values a WPA is given are WPAs.
LEMMA WpaType == Gone \in Wpas /\ \A b \in BOOLEAN : Wpa(b) \in Wpas
BY DEF Gone, Wpa, Wpas

\* No command is a command.
LEMMA IdleType == Idle \in Commands
BY DEF Idle, Commands

\* What list writes, revert reads back (dryRunString, dryRunBool).
LEMMA RoundTrip ==
    ASSUME NEW b \in BOOLEAN
    PROVE  /\ dryRunString(b) \in {"enabled", "disabled"}
           /\ dryRunBool(dryRunString(b)) = b
           /\ dryRunBool("unknown") = TRUE
BY DEF dryRunString, dryRunBool

\* A patch is a WPA again, and touches nothing but dryRun.
LEMMA PatchKeeps ==
    ASSUME TypeOK, NEW c \in Copies
    PROVE  /\ PatchedWPA(c) \in Wpas
           /\ PatchedWPA(c).other = wpas[c.name].other
           /\ PatchedWPA(c).exists = wpas[c.name].exists
           /\ PatchedWPA(c).dryRun = IF c.read.dryRun = c.value THEN wpas[c.name].dryRun
                                     ELSE c.value
BY DEF TypeOK, PatchedWPA, Copies, Wpas

--------------------------------------------------------------------------------
(* Every action preserves the invariant. *)

\* The backup: what it saves is what the lines say.
LEMMA ListStep ==
    ASSUME PInv, List
    PROVE  PInv'
<1>1. TypeOK'
  <2>1. \A n \in Names : wpas[n].dryRun \in BOOLEAN
    BY DEF PInv, TypeOK, Wpas
  <2>2. \A n \in Existing : [name |-> n, value |-> dryRunString(wpas[n].dryRun)] \in Lines
    BY <2>1, RoundTrip DEF Existing, Lines
  <2>3. file' \in Files
    BY <2>2 DEF List, Files
  <2> QED  BY <2>1, <2>3 DEF PInv, TypeOK, List
<1>2. FileFits'
  BY DEF FileFits, OnePerName, List, Existing
<1> QED  BY <1>1, <1>2 DEF PInv, List, WorkFits, OnePerName, CopiesFit, DoneFits, Pending

\* enable and disable: the copies are what was read just now.
LEMMA StartPatchStep ==
    ASSUME PInv, NEW dryRun \in BOOLEAN, StartPatch(dryRun)
    PROVE  PInv'
<1> PICK selected \in (SUBSET Existing) \ {{}} :
         cmd' = [Idle EXCEPT !.kind = "patch",
                    !.copies = {[name |-> n, read |-> wpas[n], value |-> dryRun] : n \in selected},
                    !.wants = {<< n, dryRun >> : n \in selected}]
  BY DEF StartPatch
<1>1. selected \subseteq Names /\ disturbed' = {} /\ UNCHANGED << wpas, file, edits, saved >>
  BY DEF StartPatch, Existing
<1>2. /\ cmd'.kind = "patch" /\ cmd'.lines = {} /\ cmd'.copy = NoCopy
      /\ cmd'.copies = {[name |-> n, read |-> wpas[n], value |-> dryRun] : n \in selected}
      /\ cmd'.wants = {<< n, dryRun >> : n \in selected}
  BY DEF Idle
<1>3. cmd' \in Commands
  <2>1. cmd'.copies \subseteq Copies /\ cmd'.wants \subseteq Names \X BOOLEAN
    BY <1>1, <1>2 DEF PInv, TypeOK, Copies
  <2> QED  BY <1>2, <2>1, IdleType DEF Commands
<1>4. TypeOK' /\ FileFits'
  BY <1>1, <1>3 DEF PInv, TypeOK, FileFits, OnePerName
<1>5. \A c \in cmd'.copies : /\ c.name \in selected /\ c.read = wpas[c.name]
                             /\ c.value = dryRun
                             /\ c = [name |-> c.name, read |-> wpas[c.name], value |-> dryRun]
  BY <1>2
<1>6. \A want \in cmd'.wants : want[1] \in selected /\ want[2] = dryRun
  BY <1>2
<1>7. WorkFits'
  <2>1. OnePerName(cmd'.copies)
    BY <1>5 DEF OnePerName
  <2> QED  BY <1>2, <1>5, <1>6, <2>1 DEF WorkFits
<1>8. CopiesFit'
  BY <1>1, <1>2, <1>5 DEF CopiesFit
<1>9. DoneFits'
  <2>1. ASSUME NEW n \in selected
        PROVE  \E c \in cmd'.copies : c.name = n
    <3>1. [name |-> n, read |-> wpas[n], value |-> dryRun] \in cmd'.copies
      BY <1>2
    <3> QED  BY <3>1
  <2> QED  BY <1>6, <2>1 DEF DoneFits, Pending
<1> QED  BY <1>4, <1>7, <1>8, <1>9 DEF PInv

\* What others leave alone keeps its place: a patch of one copy (patchWPA).
LEMMA PatchStep ==
    ASSUME PInv, Patch
    PROVE  PInv'
<1> PICK c \in cmd.copies :
         patchWPA(c) /\ Settle(c) /\ cmd' = [cmd EXCEPT !.copies = @ \ {c}]
  BY DEF Patch
<1>1. /\ cmd.kind = "patch" /\ UNCHANGED << file, edits, saved >>
      /\ c \in Copies /\ c.name \in Names /\ cmd \in Commands
  BY DEF Patch, PInv, TypeOK, Commands, Copies
<1>2. /\ wpas' \in [Names -> Wpas]
      /\ \A n \in Names : n # c.name => wpas'[n] = wpas[n]
      /\ wpas'[c.name].dryRun = IF c.read.dryRun = c.value THEN wpas[c.name].dryRun
                                ELSE c.value
  BY <1>1, PatchKeeps DEF PInv, TypeOK, patchWPA
<1>3. /\ cmd' \in Commands /\ cmd'.kind = "patch" /\ cmd'.copies = cmd.copies \ {c}
      /\ cmd'.lines = cmd.lines /\ cmd'.copy = cmd.copy /\ cmd'.wants = cmd.wants
  BY <1>1 DEF Commands
<1>4. /\ disturbed' \subseteq Names
      /\ \/ disturbed' = disturbed
         \/ c.read.dryRun # c.value /\ disturbed' = disturbed \ {c.name}
  BY DEF Settle, PInv, TypeOK
<1>5. TypeOK' /\ FileFits'
  BY <1>1, <1>2, <1>3, <1>4 DEF PInv, TypeOK, FileFits, OnePerName
<1>6. WorkFits'
  BY <1>1, <1>3 DEF PInv, WorkFits, OnePerName
<1>7. CopiesFit'
  <2>1. \A d \in cmd'.copies : d \in cmd.copies /\ d.name # c.name /\ d.name \in Names
    BY <1>1, <1>3 DEF PInv, WorkFits, OnePerName, Commands, Copies
  <2> QED  BY <1>1, <1>2, <1>3, <1>4, <2>1 DEF PInv, CopiesFit
<1>8. DoneFits'
  <2> SUFFICES ASSUME NEW want \in cmd.wants, want[1] \notin disturbed', ~Pending(want[1])'
               PROVE  wpas'[want[1]].dryRun = want[2]
    BY <1>3 DEF DoneFits
  <2>1. want[1] \in Names
    BY <1>1 DEF Commands
  <2>2. CASE want[1] # c.name
    <3>1. ~Pending(want[1])
      BY <1>1, <1>3, <2>2 DEF Pending
    <3> QED  BY <1>2, <1>4, <2>1, <2>2, <3>1 DEF PInv, DoneFits
  <2>3. CASE want[1] = c.name
    <3>1. c.value = want[2]
      BY <2>3 DEF PInv, WorkFits
    <3>2. c.read.dryRun = c.value => wpas[c.name].dryRun = c.read.dryRun
      BY <1>4, <2>3 DEF PInv, CopiesFit, Settle
    <3> QED  BY <1>2, <2>3, <3>1, <3>2
  <2> QED  BY <2>2, <2>3
<1> QED  BY <1>5, <1>6, <1>7, <1>8 DEF PInv

\* A patch that failed is reported, and only its WPA is left behind.
LEMMA PatchFailsStep ==
    ASSUME PInv, PatchFails
    PROVE  PInv'
<1> PICK c \in cmd.copies : /\ cmd' = [cmd EXCEPT !.copies = @ \ {c}]
                             /\ disturbed' = disturbed \cup {c.name}
  BY DEF PatchFails
<1>1. /\ cmd.kind = "patch" /\ UNCHANGED << wpas, file, edits, saved >>
      /\ c.name \in Names /\ cmd \in Commands
  BY DEF PatchFails, PInv, TypeOK, Commands, Copies
<1>2. /\ cmd' \in Commands /\ cmd'.kind = "patch" /\ cmd'.copies = cmd.copies \ {c}
      /\ cmd'.lines = cmd.lines /\ cmd'.copy = cmd.copy /\ cmd'.wants = cmd.wants
  BY <1>1 DEF Commands
<1>3. TypeOK' /\ FileFits'
  BY <1>1, <1>2 DEF PInv, TypeOK, FileFits, OnePerName
<1>4. WorkFits' /\ CopiesFit'
  BY <1>1, <1>2 DEF PInv, WorkFits, OnePerName, CopiesFit
<1>5. DoneFits'
  <2> SUFFICES ASSUME NEW want \in cmd.wants, want[1] \notin disturbed', ~Pending(want[1])'
               PROVE  wpas[want[1]].dryRun = want[2]
    BY <1>1, <1>2 DEF DoneFits
  <2>1. ~Pending(want[1])
    BY <1>1, <1>2 DEF Pending
  <2> QED  BY <2>1 DEF PInv, DoneFits
<1> QED  BY <1>3, <1>4, <1>5 DEF PInv

\* revert: every line is for the value that was saved.
LEMMA StartRevertStep ==
    ASSUME PInv, StartRevert
    PROVE  PInv'
<1>1. /\ cmd'.kind = "revert" /\ cmd'.copies = {} /\ cmd'.copy = NoCopy
      /\ cmd'.lines = file.lines
      /\ cmd'.wants = {<< l.name, l.value = "unknown" \/ saved[l.name] >> : l \in file.lines}
      /\ disturbed' = {} /\ UNCHANGED << wpas, file, edits, saved >>
  BY DEF StartRevert, Idle
<1>2. \A l \in file.lines : /\ l \in Lines /\ l.name \in Names /\ saved[l.name] \in BOOLEAN
  BY DEF PInv, TypeOK, Files, Lines
<1>3. cmd'.wants \subseteq Names \X BOOLEAN
  <2>1. \A l \in file.lines : (l.value = "unknown" \/ saved[l.name]) \in BOOLEAN
    OBVIOUS
  <2>2. \A l \in file.lines : << l.name, l.value = "unknown" \/ saved[l.name] >> \in Names \X BOOLEAN
    BY <1>2, <2>1
  <2> QED  BY <1>1, <2>2, Zenon
<1>4. cmd' \in Commands
  <2>1. file.header \in BOOLEAN /\ file.lines \subseteq Lines
    BY DEF PInv, TypeOK, Files
  <2> QED  BY <1>1, <1>3, <2>1, IdleType DEF StartRevert, Commands
<1>5. TypeOK' /\ FileFits'
  BY <1>1, <1>4 DEF PInv, TypeOK, FileFits, OnePerName
<1>6. \A want \in cmd'.wants : \E l \in file.lines :
         want[1] = l.name /\ want[2] = (l.value = "unknown" \/ saved[l.name])
  BY <1>1
<1>7. \A l \in file.lines : dryRunBool(l.value) = (l.value = "unknown" \/ saved[l.name])
  BY <1>2, RoundTrip DEF PInv, FileFits
<1>8. WorkFits'
  <2>1. \A want \in cmd'.wants : \A l \in cmd'.lines :
           l.name = want[1] => dryRunBool(l.value) = want[2]
    BY <1>1, <1>6, <1>7 DEF PInv, FileFits, OnePerName
  <2> QED  BY <1>1, <2>1 DEF WorkFits, OnePerName
<1>9. CopiesFit' /\ DoneFits'
  BY <1>1, <1>6 DEF CopiesFit, DoneFits, Pending
<1> QED  BY <1>5, <1>8, <1>9 DEF PInv

\* A line that cannot be used leaves only its WPA behind.
LEMMA SkipLineStep ==
    ASSUME PInv, NEW l \in cmd.lines, SkipLine(l)
    PROVE  PInv'
<1>1. /\ cmd.kind = "revert" /\ UNCHANGED << wpas, file, edits, saved >>
      /\ cmd.copy = NoCopy /\ l.name \in Names /\ cmd \in Commands
      /\ disturbed' = disturbed \cup {l.name} /\ cmd' = [cmd EXCEPT !.lines = @ \ {l}]
  BY DEF SkipLine, NextLine, Reading, PInv, TypeOK, Commands, Lines
<1>2. /\ cmd' \in Commands /\ cmd'.kind = "revert" /\ cmd'.lines = cmd.lines \ {l}
      /\ cmd'.copies = cmd.copies /\ cmd'.copy = cmd.copy /\ cmd'.wants = cmd.wants
  BY <1>1 DEF Commands
<1>3. TypeOK' /\ FileFits'
  BY <1>1, <1>2 DEF PInv, TypeOK, FileFits, OnePerName
<1>4. WorkFits' /\ CopiesFit'
  BY <1>1, <1>2 DEF PInv, WorkFits, OnePerName, CopiesFit
<1>5. DoneFits'
  <2> SUFFICES ASSUME NEW want \in cmd.wants, want[1] \notin disturbed', ~Pending(want[1])'
               PROVE  wpas[want[1]].dryRun = want[2]
    BY <1>1, <1>2 DEF DoneFits
  <2>1. ~Pending(want[1])
    BY <1>1, <1>2 DEF Pending
  <2> QED  BY <1>1, <2>1 DEF PInv, DoneFits
<1> QED  BY <1>3, <1>4, <1>5 DEF PInv

\* After the read there is a copy to patch, or the WPA has its value already.
LEMMA GetWpaStep ==
    ASSUME PInv, NEW l \in cmd.lines, GetWpa(l)
    PROVE  PInv'
<1> DEFINE Read == [name |-> l.name, read |-> wpas[l.name], value |-> dryRunBool(l.value)]
           Same == wpas[l.name].dryRun = dryRunBool(l.value)
<1>1. /\ cmd.kind = "revert" /\ UNCHANGED << wpas, file, edits, saved >>
      /\ cmd.copy = NoCopy /\ l.name \in Names /\ cmd \in Commands /\ cmd.copies = {}
      /\ disturbed' = disturbed \ {l.name}
      /\ cmd' = [cmd EXCEPT !.lines = @ \ {l}, !.copy = IF Same THEN NoCopy ELSE Read]
  BY DEF GetWpa, NextLine, Reading, PInv, WorkFits, TypeOK, Commands, Lines
<1>2. Read \in Copies
  BY <1>1 DEF PInv, TypeOK, Copies, dryRunBool
<1>3. Read # NoCopy \/ Same
  BY NoCopyIsDone
<1> HIDE DEF Read
<1>4. /\ cmd' \in Commands /\ cmd'.kind = "revert" /\ cmd'.lines = cmd.lines \ {l}
      /\ cmd'.copies = {} /\ cmd'.wants = cmd.wants
      /\ cmd'.copy = IF Same THEN NoCopy ELSE Read
  BY <1>1, <1>2 DEF Commands
<1>5. Read.name = l.name /\ Read.read = wpas[l.name] /\ Read.value = dryRunBool(l.value)
  BY DEF Read
<1>6. TypeOK' /\ FileFits'
  BY <1>1, <1>4 DEF PInv, TypeOK, FileFits, OnePerName
<1>7. WorkFits'
  BY <1>1, <1>4, <1>5 DEF PInv, WorkFits, OnePerName
<1>8. CopiesFit'
  BY <1>1, <1>4, <1>5 DEF CopiesFit
<1>9. DoneFits'
  <2> SUFFICES ASSUME NEW want \in cmd.wants, want[1] \notin disturbed', ~Pending(want[1])'
               PROVE  wpas[want[1]].dryRun = want[2]
    BY <1>1, <1>4 DEF DoneFits
  <2>1. CASE want[1] # l.name
    <3>1. ~Pending(want[1])
      BY <1>1, <1>4, <2>1 DEF Pending
    <3> QED  BY <1>1, <2>1, <3>1 DEF PInv, DoneFits
  <2>2. CASE want[1] = l.name
    <3>1. Same
      BY <1>3, <1>4, <1>5, <2>2 DEF Pending
    <3> QED  BY <2>2, <3>1 DEF PInv, WorkFits
  <2> QED  BY <2>1, <2>2
<1> QED  BY <1>6, <1>7, <1>8, <1>9 DEF PInv

\* The copy of revert is patched: it differs from the line, so the patch is not empty.
LEMMA RevertStep ==
    ASSUME PInv, Revert
    PROVE  PInv'
<1> DEFINE c == cmd.copy
<1>1. /\ cmd.kind = "revert" /\ UNCHANGED << file, edits, saved >> /\ c # NoCopy
      /\ c \in Copies /\ c.name \in Names /\ cmd \in Commands /\ cmd.copies = {}
      /\ c.read.dryRun # c.value /\ disturbed' = disturbed \ {c.name}
      /\ patchWPA(c) /\ cmd' = [cmd EXCEPT !.copy = NoCopy]
  BY DEF Revert, Settle, PInv, WorkFits, CopiesFit, TypeOK, Commands, Copies
<1>2. /\ wpas' \in [Names -> Wpas]
      /\ \A n \in Names : n # c.name => wpas'[n] = wpas[n]
      /\ wpas'[c.name].dryRun = c.value
  BY <1>1, PatchKeeps DEF PInv, TypeOK, patchWPA
<1>3. /\ cmd' \in Commands /\ cmd'.kind = "revert" /\ cmd'.lines = cmd.lines
      /\ cmd'.copies = {} /\ cmd'.copy = NoCopy /\ cmd'.wants = cmd.wants
  BY <1>1 DEF Commands
<1>4. TypeOK' /\ FileFits'
  BY <1>1, <1>2, <1>3 DEF PInv, TypeOK, FileFits, OnePerName
<1>5. WorkFits' /\ CopiesFit'
  BY <1>1, <1>3 DEF PInv, WorkFits, OnePerName, CopiesFit
<1>6. DoneFits'
  <2> SUFFICES ASSUME NEW want \in cmd.wants, want[1] \notin disturbed', ~Pending(want[1])'
               PROVE  wpas'[want[1]].dryRun = want[2]
    BY <1>3 DEF DoneFits
  <2>1. want[1] \in Names
    BY <1>1 DEF Commands
  <2>2. CASE want[1] # c.name
    <3>1. ~Pending(want[1])
      BY <1>1, <1>3, <2>2 DEF Pending
    <3> QED  BY <1>1, <1>2, <2>1, <2>2, <3>1 DEF PInv, DoneFits
  <2>3. CASE want[1] = c.name
    BY <1>1, <1>2, <2>3 DEF PInv, WorkFits
  <2> QED  BY <2>2, <2>3
<1> QED  BY <1>4, <1>5, <1>6 DEF PInv

\* A revert that failed leaves only its WPA behind.
LEMMA RevertFailsStep ==
    ASSUME PInv, RevertFails
    PROVE  PInv'
<1>1. /\ cmd.kind = "revert" /\ UNCHANGED << wpas, file, edits, saved >>
      /\ cmd.copy # NoCopy /\ cmd.copy.name \in Names /\ cmd \in Commands /\ cmd.copies = {}
      /\ disturbed' = disturbed \cup {cmd.copy.name} /\ cmd' = [cmd EXCEPT !.copy = NoCopy]
  BY DEF RevertFails, PInv, WorkFits, TypeOK, Commands, Copies
<1>2. /\ cmd' \in Commands /\ cmd'.kind = "revert" /\ cmd'.lines = cmd.lines
      /\ cmd'.copies = {} /\ cmd'.copy = NoCopy /\ cmd'.wants = cmd.wants
  BY <1>1 DEF Commands
<1>3. TypeOK' /\ FileFits'
  BY <1>1, <1>2 DEF PInv, TypeOK, FileFits, OnePerName
<1>4. WorkFits' /\ CopiesFit'
  BY <1>1, <1>2 DEF PInv, WorkFits, OnePerName, CopiesFit
<1>5. DoneFits'
  <2> SUFFICES ASSUME NEW want \in cmd.wants, want[1] \notin disturbed', ~Pending(want[1])'
               PROVE  wpas[want[1]].dryRun = want[2]
    BY <1>1, <1>2 DEF DoneFits
  <2>1. ~Pending(want[1])
    BY <1>1, <1>2 DEF Pending
  <2> QED  BY <1>1, <2>1 DEF PInv, DoneFits
<1> QED  BY <1>3, <1>4, <1>5 DEF PInv

\* Nothing is wanted any more.
LEMMA EndStep ==
    ASSUME PInv, End
    PROVE  PInv'
<1>1. /\ UNCHANGED << wpas, file, edits, saved >> /\ disturbed' = {} /\ cmd' = Idle
      /\ Idle.kind = "none" /\ Idle.copies = {} /\ Idle.lines = {} /\ Idle.copy = NoCopy
      /\ Idle.wants = {}
  BY DEF End, Idle
<1>2. TypeOK' /\ FileFits'
  BY <1>1, IdleType DEF PInv, TypeOK, FileFits, OnePerName
<1> QED  BY <1>1, <1>2 DEF PInv, WorkFits, OnePerName, CopiesFit, DoneFits

\* What others do to a WPA: either dryRun stays, or the WPA counts as disturbed.
LEMMA OthersChangeStep ==
    ASSUME PInv, NEW n \in Names, NEW wpa \in Wpas, OthersChange(n, wpa),
           Disturb(n) \/ (UNCHANGED disturbed /\ wpa.dryRun = wpas[n].dryRun)
    PROVE  PInv'
<1>1. /\ UNCHANGED << file, cmd, saved >> /\ edits' \in Nat
      /\ wpas' = [wpas EXCEPT ![n] = wpa] /\ wpas' \in [Names -> Wpas]
  BY DEF OthersChange, PInv, TypeOK
<1>2. TypeOK'
  BY <1>1 DEF Disturb, PInv, TypeOK
<1>3. FileFits' /\ WorkFits'
  BY <1>1 DEF PInv, FileFits, WorkFits, OnePerName
<1>4. \A m \in Names : \/ cmd.kind = "none"
                       \/ m \in disturbed /\ m \in disturbed'
                       \/ m \in disturbed' /\ m \notin disturbed
                       \/ wpas'[m].dryRun = wpas[m].dryRun /\ m \notin disturbed /\ m \notin disturbed'
  BY <1>1 DEF Disturb, PInv, TypeOK
<1>5. CopiesFit'
  BY <1>1, <1>4 DEF PInv, TypeOK, Commands, Copies, WorkFits, CopiesFit
<1>6. DoneFits'
  <2> SUFFICES ASSUME NEW want \in cmd.wants, want[1] \notin disturbed', ~Pending(want[1])
               PROVE  wpas'[want[1]].dryRun = want[2]
    BY <1>1 DEF DoneFits, Pending
  <2>1. want[1] \in Names /\ cmd.kind # "none"
    BY DEF PInv, TypeOK, Commands, WorkFits
  <2> QED  BY <1>4, <2>1 DEF PInv, DoneFits
<1> QED  BY <1>2, <1>3, <1>5, <1>6 DEF PInv

\* A line that was edited by hand keeps its name, and its word is not known.
LEMMA EditFileStep ==
    ASSUME PInv, EditFile
    PROVE  PInv'
<1>1. /\ UNCHANGED << wpas, cmd, saved, disturbed >> /\ edits' \in Nat /\ file \in Files
  BY DEF EditFile, PInv, TypeOK
<1>2. CASE \E l \in file.lines :
             file' = [file EXCEPT !.lines = (@ \ {l}) \cup {[l EXCEPT !.value = "unknown"]}]
  <2> PICK l \in file.lines :
           file' = [file EXCEPT !.lines = (@ \ {l}) \cup {[l EXCEPT !.value = "unknown"]}]
    BY <1>2
  <2> DEFINE m == [l EXCEPT !.value = "unknown"]
  <2>1. l \in Lines /\ m \in Lines /\ m.name = l.name /\ m.value = "unknown"
    BY <1>1 DEF Files, Lines
  <2>2. file'.lines = (file.lines \ {l}) \cup {m}
    BY <1>1 DEF Files
  <2> HIDE DEF m
  <2>3. file' \in Files
    BY <1>1, <2>1 DEF Files, m
  <2>4. FileFits'
    BY <1>1, <2>1, <2>2 DEF PInv, FileFits, OnePerName
  <2> QED  BY <1>1, <2>3, <2>4 DEF PInv, TypeOK, WorkFits, OnePerName, CopiesFit, DoneFits, Pending
<1>3. CASE file' = [file EXCEPT !.header = TRUE]
  <2>1. file' \in Files /\ file'.lines = file.lines
    BY <1>1, <1>3 DEF Files
  <2> QED  BY <1>1, <2>1 DEF PInv, TypeOK, FileFits, WorkFits, OnePerName, CopiesFit, DoneFits, Pending
<1> QED  BY <1>2, <1>3 DEF EditFile

\* An input that begins to fail in the middle of a line leaves only its WPA behind.
LEMMA MediumStep ==
    ASSUME PInv, MediumChanges
    PROVE  PInv'
<1>1. /\ cmd.kind = "revert" /\ UNCHANGED << wpas, file, saved >> /\ edits' \in Nat
      /\ cmd \in Commands /\ disturbed \subseteq Names
  <2>1. cmd.kind = "revert" /\ UNCHANGED << wpas, file, saved >> /\ edits' = edits + 1
    BY Zenon DEF MediumChanges
  <2> QED  BY <2>1 DEF PInv, TypeOK
<1>2. PICK lost \in SUBSET cmd.lines :
         /\ disturbed' = disturbed \cup {l.name : l \in lost}
         /\ \E b \in BOOLEAN : cmd' = [cmd EXCEPT !.readable = b, !.lines = @ \ lost]
  <2>1. CASE cmd' = [cmd EXCEPT !.readable = ~@] /\ UNCHANGED disturbed
    <3>1. cmd' = [cmd EXCEPT !.readable = ~cmd.readable, !.lines = @ \ {}]
      BY <1>1, <2>1 DEF Commands
    <3>2. (~cmd.readable) \in BOOLEAN /\ disturbed' = disturbed \cup {l.name : l \in {}}
      BY <2>1
    <3> QED  BY <3>1, <3>2
  <2>2. CASE \E l \in cmd.lines : /\ cmd' = [cmd EXCEPT !.readable = FALSE, !.lines = @ \ {l}]
                                  /\ disturbed' = disturbed \cup {l.name}
    <3>1. PICK l \in cmd.lines : /\ cmd' = [cmd EXCEPT !.readable = FALSE, !.lines = @ \ {l}]
                                 /\ disturbed' = disturbed \cup {l.name}
      BY <2>2
    <3>2. {l} \subseteq cmd.lines /\ {l.name} = {m.name : m \in {l}}
      OBVIOUS
    <3> QED  BY <3>1, <3>2
  <2> QED  BY <2>1, <2>2 DEF MediumChanges
<1>3. /\ cmd' \in Commands /\ cmd'.kind = "revert" /\ cmd'.lines = cmd.lines \ lost
      /\ cmd'.copies = cmd.copies /\ cmd'.copy = cmd.copy /\ cmd'.wants = cmd.wants
  <2>1. PICK b \in BOOLEAN : cmd' = [cmd EXCEPT !.readable = b, !.lines = @ \ lost]
    BY <1>2
  <2>2. cmd.lines \ lost \in SUBSET Lines
    BY <1>1 DEF Commands
  <2> QED  BY <1>1, <2>1, <2>2 DEF Commands
<1>4. disturbed' \subseteq Names /\ disturbed \subseteq disturbed'
  BY <1>1, <1>2 DEF Commands, Lines
<1>5. TypeOK' /\ FileFits'
  BY <1>1, <1>3, <1>4 DEF PInv, TypeOK, FileFits, OnePerName
<1>6. WorkFits' /\ CopiesFit'
  BY <1>1, <1>3, <1>4 DEF PInv, WorkFits, OnePerName, CopiesFit
<1>7. DoneFits'
  <2> SUFFICES ASSUME NEW want \in cmd.wants, want[1] \notin disturbed', ~Pending(want[1])'
               PROVE  wpas[want[1]].dryRun = want[2]
    BY <1>1, <1>3 DEF DoneFits
  <2>1. ~Pending(want[1])
    BY <1>2, <1>3 DEF Pending
  <2> QED  BY <1>4, <2>1 DEF PInv, DoneFits
<1> QED  BY <1>5, <1>6, <1>7 DEF PInv

--------------------------------------------------------------------------------
(* Theorems. *)

\* The inductive invariant holds in every reachable state: what a command has still to
\* do is for the values it wants, and what is done has them (all of the plugin's
\* commands, with others at work).
THEOREM PluginInvariance == Spec => []PInv
<1>1. Init => PInv
  <2> SUFFICES ASSUME Init
               PROVE  PInv
    OBVIOUS
  <2>1. /\ Idle.kind = "none" /\ Idle.copies = {} /\ Idle.lines = {} /\ Idle.copy = NoCopy
        /\ Idle.wants = {} /\ NoFile.lines = {} /\ NoFile \in Files
    BY DEF Idle, NoFile, Files
  <2>2. TypeOK
    <3>1. wpas \in [Names -> Wpas]
      BY WpaType DEF Init
    <3> QED  BY <2>1, <3>1, IdleType DEF Init, TypeOK
  <2> QED  BY <2>1, <2>2 DEF Init, PInv, FileFits, WorkFits, OnePerName, CopiesFit, DoneFits
<1>2. PInv /\ [Next]_vars => PInv'
  <2> SUFFICES ASSUME PInv, [Next]_vars
               PROVE  PInv'
    OBVIOUS
  <2>1. CASE List
    BY <2>1, ListStep
  <2>2. CASE StartPatch(TRUE) \/ StartPatch(FALSE)
    BY <2>2, StartPatchStep
  <2>3. CASE StartRevert
    BY <2>3, StartRevertStep
  <2>4. CASE Patch \/ PatchFails
    BY <2>4, PatchStep, PatchFailsStep
  <2>5. CASE \E l \in cmd.lines : SkipLine(l) \/ GetWpa(l)
    BY <2>5, SkipLineStep, GetWpaStep
  <2>6. CASE Revert \/ RevertFails \/ End
    BY <2>6, RevertStep, RevertFailsStep, EndStep
  <2>7. CASE EditFile \/ MediumChanges
    BY <2>7, EditFileStep, MediumStep
  <2>8. ASSUME NEW n \in Names, Toggle(n) \/ EditOther(n) \/ Delete(n) \/ Recreate(n)
        PROVE  PInv'
    <3>1. wpas[n] \in Wpas
      BY DEF PInv, TypeOK
    <3>2. CASE Toggle(n)
      <4>1. [wpas[n] EXCEPT !.dryRun = ~@] \in Wpas
        BY <3>1 DEF Wpas
      <4> QED  BY <3>2, <4>1, OthersChangeStep DEF Toggle
    <3>3. CASE EditOther(n)
      <4>1. /\ [wpas[n] EXCEPT !.other = @ + 1] \in Wpas
            /\ [wpas[n] EXCEPT !.other = @ + 1].dryRun = wpas[n].dryRun
        BY <3>1 DEF Wpas
      <4> QED  BY <3>3, <4>1, OthersChangeStep DEF EditOther
    <3>4. CASE Delete(n)
      BY <3>4, WpaType, OthersChangeStep DEF Delete
    <3>5. CASE Recreate(n)
      BY <3>5, WpaType, OthersChangeStep DEF Recreate
    <3> QED  BY <2>8, <3>2, <3>3, <3>4, <3>5
  <2>9. CASE ReadError \/ UNCHANGED vars
    BY <2>9 DEF ReadError, vars, PInv, TypeOK, FileFits, WorkFits, OnePerName, CopiesFit, DoneFits, Pending
  <2> QED  BY <2>1, <2>2, <2>3, <2>4, <2>5, <2>6, <2>7, <2>8, <2>9 DEF Next, Plugin, Running, Others
<1> QED  BY <1>1, <1>2, PTL DEF Spec

\* A command that has finished has given every WPA that it did not skip the value it is
\* for, however many WPAs there are and whatever others do meanwhile (patchWPA, and
\* the csv round trip of list and revert).
THEOREM EffectTheorem == Spec => []CommandTakesEffect
<1>1. PInv => CommandTakesEffect
  BY DEF PInv, DoneFits, Pending, CommandTakesEffect, Finished
<1> QED  BY <1>1, PluginInvariance, PTL

\* A patch leaves the other fields of every WPA alone.
LEMMA PatchSurvives ==
    ASSUME TypeOK, NEW c \in Copies, patchWPA(c), NEW n \in Names
    PROVE  wpas'[n].other = wpas[n].other /\ wpas'[n].exists = wpas[n].exists
<1>1. wpas' = [wpas EXCEPT ![c.name] = PatchedWPA(c)] /\ wpas \in [Names -> Wpas]
  BY DEF patchWPA, TypeOK
<1>2. CASE n = c.name
  BY <1>1, <1>2, PatchKeeps
<1>3. CASE n # c.name
  BY <1>1, <1>3
<1> QED  BY <1>2, <1>3

\* No step of the plugin changes anything but dryRun of a WPA, nor brings back one that
\* was deleted (the merge patch of patchWPA).
THEOREM SurviveTheorem == Spec => OtherFieldsSurvive
<1>1. PInv /\ [Next]_vars =>
        [edits' = edits => \A n \in Names : /\ wpas'[n].other = wpas[n].other
                                            /\ wpas'[n].exists = wpas[n].exists]_vars
  <2> SUFFICES ASSUME PInv, [Next]_vars, edits' = edits, NEW n \in Names
               PROVE  wpas'[n].other = wpas[n].other /\ wpas'[n].exists = wpas[n].exists
    OBVIOUS
  <2>1. CASE UNCHANGED wpas
    BY <2>1
  <2>2. TypeOK /\ cmd.copies \subseteq Copies /\ cmd.copy \in Copies \cup {NoCopy}
    BY DEF PInv, TypeOK, Commands
  <2>3. CASE Patch
    <3> PICK c \in cmd.copies : patchWPA(c)
      BY <2>3 DEF Patch
    <3> QED  BY <2>2, PatchSurvives
  <2>4. CASE Revert
    BY <2>2, <2>4, PatchSurvives DEF Revert
  <2>5. ~Others
    <3>1. edits \in Nat /\ edits' # edits + 1
      BY <2>2 DEF TypeOK
    <3> QED  BY <3>1 DEF Others, EditFile, MediumChanges, Toggle, EditOther, Delete, Recreate,
                           OthersChange
  <2> QED  BY <2>1, <2>3, <2>4, <2>5
           DEF Next, Plugin, Running, List, StartPatch, StartRevert, PatchFails, SkipLine, GetWpa,
               NextLine, ReadError, RevertFails, End, vars
<1> QED  BY <1>1, PluginInvariance, PTL DEF Spec, OtherFieldsSurvive
================================================================================
